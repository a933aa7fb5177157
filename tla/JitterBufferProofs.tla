------------------------- MODULE JitterBufferProofs -------------------------
(***************************************************************************)
(* Proofs about JitterBuffer for every ring size, sequence range, fill     *)
(* target and drain setting.  The inductive invariant is the conjunction   *)
(* of the type, the window and the offset: the offset only stays inside    *)
(* the playhead's packet because a packet of another sequence number can   *)
(* never be stored in its slot, which is what the window says.  What a     *)
(* drain sheds is a sum over the packets buffered without a hole, whose    *)
(* recursion is shown by the smallest set for which it were wrong.         *)
(*                                                                         *)
(* The results are then carried over to AudioPath, whose server numbers    *)
(* the packets: there the order of arriving and of playing is proved too.  *)
(* The last part is about the thread that path begins in, Capture's.       *)
(***************************************************************************)
EXTENDS AudioPath, Capture, FiniteSetTheorems, SequenceTheorems, TLAPS

-----------------------------------------------------------------------------
(* Facts about % that every ring indexed by sequence % size rests on.      *)

\* The only multiple of m in 0..(m-1) is 0.
LEMMA SmallMultiple ==
    ASSUME NEW m \in Nat \ {0}, NEW q \in Int, 0 <= m * q, m * q < m
    PROVE  q = 0
<1>1. CASE q >= 1
  <2>1. PICK r \in Nat : q = r + 1
    BY <1>1
  <2>2. m * q = m * r + m /\ m * r >= 0
    BY <2>1
  <2> QED
    BY <2>2
<1>2. CASE q <= -1
  <2>1. PICK r \in Nat : q = -1 - r
    BY <1>2
  <2>2. m * q = -m - m * r /\ m * r >= 0
    BY <2>1
  <2> QED
    BY <2>2
<1> QED
  BY <1>1, <1>2

\* Division with remainder.
LEMMA DivMod ==
    ASSUME NEW m \in Nat \ {0}, NEW a \in Int
    PROVE  /\ a \div m \in Int
           /\ a = m * (a \div m) + (a % m)
           /\ a % m \in 0..(m - 1)
OBVIOUS

\* Multiplication distributes over subtraction.
LEMMA Distribute ==
    ASSUME NEW m \in Int, NEW x \in Int, NEW y \in Int
    PROVE  m * (x - y) = m * x - m * y
OBVIOUS

\* The difference of two congruent numbers is a multiple of the modulus.
LEMMA CongruentDifference ==
    ASSUME NEW m \in Nat \ {0}, NEW a \in Int, NEW b \in Int, a % m = b % m
    PROVE  \E q \in Int : a - b = m * q
<1> DEFINE x == m * (a \div m)
           y == m * (b \div m)
           r == a % m
           q == (a \div m) - (b \div m)
<1>1. a \div m \in Int /\ b \div m \in Int
  BY DivMod
<1>2. x \in Int /\ y \in Int /\ r \in Int /\ a = x + r /\ b = y + r
  BY <1>1, DivMod
<1>3. q \in Int /\ m * q = x - y
  BY <1>1, Distribute
<1> HIDE DEF x, y, r, q
<1>4. a - b = x - y
  BY <1>2
<1> QED
  BY <1>3, <1>4

\* Two congruent numbers less than the modulus apart are equal.
LEMMA CongruentClose ==
    ASSUME NEW m \in Nat \ {0}, NEW a \in Int, NEW b \in Int, a % m = b % m,
           b <= a, a - b < m
    PROVE  a = b
<1>1. PICK q \in Int : a - b = m * q
  BY CongruentDifference
<1>2. q = 0
  BY <1>1, SmallMultiple
<1> QED
  BY <1>1, <1>2

\* Adding a multiple of the modulus keeps the remainder.
LEMMA ModAdd ==
    ASSUME NEW m \in Nat \ {0}, NEW a \in Int, NEW n \in Int, n % m = 0
    PROVE  (a + n) % m = a % m
<1> DEFINE q == (a \div m) + (n \div m) - ((a + n) \div m)
           d == ((a + n) % m) - (a % m)
<1>1. /\ a \div m \in Int /\ n \div m \in Int /\ (a + n) \div m \in Int
      /\ (a + n) % m \in 0..(m - 1) /\ a % m \in 0..(m - 1)
  BY DivMod
<1>2. q \in Int /\ d = m * q /\ d \in Int /\ d < m /\ d > -m
  <2>1. n = m * (n \div m)
    BY DivMod
  <2>2. a + n = m * ((a \div m) + (n \div m)) + (a % m)
    BY <2>1, DivMod
  <2>3. a + n = m * ((a + n) \div m) + ((a + n) % m)
    BY DivMod
  <2>4. m * q = m * ((a \div m) + (n \div m)) - m * ((a + n) \div m)
    BY <1>1
  <2> QED
    BY <1>1, <2>2, <2>3, <2>4
<1> HIDE DEF q
<1>3. CASE d >= 0
  <2>1. q = 0
    BY <1>2, <1>3, SmallMultiple
  <2>2. d = 0
    BY <2>1, <1>2
  <2> QED
    BY <2>2, <1>1
<1>4. CASE d < 0
  <2>1. -q \in Int /\ m * (-q) = -d
    BY <1>2
  <2>2. -q = 0
    BY <2>1, <1>2, <1>4, SmallMultiple
  <2> QED
    BY <2>2, <1>2, <1>4
<1> QED
  BY <1>2, <1>3, <1>4

-----------------------------------------------------------------------------
(* Sums.  What a fold over a set computes is shown by induction: the       *)
(* smallest set of a family for which a claim were wrong (LeastSet).       *)

\* Induction over numbers: a set of them that is not empty has a least one.
LEMMA LeastNumber ==
    ASSUME NEW T \in SUBSET Nat, T # {}
    PROVE  \E n \in T : \A k \in T : n <= k
<1>1. IsWellFoundedOn(OpToRel(<, Nat), Nat)
  BY NatLessThanWellFounded
<1>2. PICK n \in T : \A k \in T : ~(<<k, n>> \in OpToRel(<, Nat))
  BY <1>1, WFMin
<1>3. \A k \in T : ~(k < n)
  BY <1>2 DEF OpToRel
<1>4. \A k \in T : n \in Nat /\ k \in Nat
  OBVIOUS
<1> QED
  BY <1>3, <1>4, SMTT(30)

\* And over finite sets: of the sets of a family one has no smaller one beside it.
LEMMA LeastSet ==
    ASSUME NEW S, IsFiniteSet(S), NEW family \in SUBSET (SUBSET S), family # {}
    PROVE  \E T \in family : \A U \in family : ~(Cardinality(U) < Cardinality(T))
<1> DEFINE sizes == {Cardinality(T) : T \in family}
<1>1. \A T \in family : IsFiniteSet(T) /\ Cardinality(T) \in Nat
  BY FS_Subset, FS_CardinalityType
<1>2. PICK n \in sizes : \A k \in sizes : n <= k
  <2>1. sizes \in SUBSET Nat /\ sizes # {}
    BY <1>1
  <2> HIDE DEF sizes
  <2> QED
    BY <2>1, LeastNumber
<1>3. PICK T \in family : n = Cardinality(T)
  BY <1>2
<1> QED
  BY <1>1, <1>2, <1>3, SMTT(30)

Member(s) == CHOOSE x \in s : TRUE

\* The sum of f over S, and the recursion it is defined by.
SumOf(f, S) == MapThenSumSet(LAMBDA x : f[x], S)

SumBody(f, S, g) ==
    [s \in SUBSET S |-> IF s = {} THEN 0 ELSE f[Member(s)] + g[s \ {Member(s)}]]

SumFun(f, S) == CHOOSE g : g = SumBody(f, S, g)

\* The sum over all of S is what its recursion gives, if there is one.
LEMMA SumIs ==
    ASSUME NEW f, NEW S
    PROVE  SumOf(f, S) = SumFun(f, S)[S]
BY DEF SumOf, MapThenSumSet, MapThenFoldSet, SumFun, SumBody, Member

\* A finite set has one member to begin with and the rest, which is smaller.
LEMMA MemberAndRest ==
    ASSUME NEW S, IsFiniteSet(S), NEW T \in SUBSET S, T # {}
    PROVE  /\ Member(T) \in T
           /\ T \ {Member(T)} \in SUBSET S
           /\ Cardinality(T) \in Nat \ {0}
           /\ Cardinality(T \ {Member(T)}) = Cardinality(T) - 1
<1>1. Member(T) \in T
  BY DEF Member
<1>2. IsFiniteSet(T)
  BY FS_Subset
<1>3. Cardinality(T) \in Nat /\ Cardinality(T) # 0
  BY <1>2, FS_CardinalityType, FS_EmptySet
<1>4. Cardinality(T \ {Member(T)}) = Cardinality(T) - 1
  BY <1>1, <1>2, FS_RemoveElement
<1> QED
  BY <1>1, <1>3, <1>4

\* The recursion has a solution, by induction over the sizes of the subsets.
LEMMA SumFunExists ==
    ASSUME NEW S, IsFiniteSet(S), NEW f, \A x \in S : f[x] \in Nat
    PROVE  \E g \in [SUBSET S -> Nat] : g = SumBody(f, S, g)
<1> DEFINE Upto(n) == {s \in SUBSET S : Cardinality(s) <= n}
           Rec(g, s) == IF s = {} THEN 0 ELSE f[Member(s)] + g[s \ {Member(s)}]
           Solved(n) == \E g \in [Upto(n) -> Nat] : \A s \in Upto(n) : g[s] = Rec(g, s)
           bad == {n \in Nat : ~Solved(n)}
<1>1. ASSUME bad # {} PROVE FALSE
  <2>1. PICK n \in bad : \A k \in bad : n <= k
    <3>1. bad \in SUBSET Nat
      OBVIOUS
    <3> HIDE DEF bad
    <3> QED
      BY <1>1, <3>1, LeastNumber
  <2>2. CASE n = 0
    <3> DEFINE g == [s \in Upto(0) |-> 0]
    <3>1. \A s \in Upto(0) : s = {}
      <4> SUFFICES ASSUME NEW s \in Upto(0), s # {} PROVE FALSE
        OBVIOUS
      <4>1. s \in SUBSET S /\ Cardinality(s) <= 0
        OBVIOUS
      <4>2. s # {}
        OBVIOUS
      <4> HIDE DEF bad
      <4>3. Cardinality(s) \in Nat \ {0}
        BY <4>1, <4>2, MemberAndRest
      <4> QED
        BY <4>1, <4>3
    <3>2. \A s \in Upto(0) : Rec(g, s) = 0
      BY <3>1
    <3>3. g \in [Upto(0) -> Nat] /\ \A s \in Upto(0) : g[s] = 0
      OBVIOUS
    <3>4. Solved(0)
      <4> HIDE DEF g, Rec, Upto
      <4> QED
        BY <3>2, <3>3
    <3> QED
      BY <2>1, <2>2, <3>4
  <2>3. CASE n # 0
    <3>1. n \in Nat /\ n - 1 \in Nat /\ n - 1 \notin bad
      <4>1. n \in Nat
        OBVIOUS
      <4> HIDE DEF bad
      <4> QED
        BY <2>1, <2>3, <4>1
    <3>2. Solved(n - 1)
      BY <3>1
    <3>3. PICK g \in [Upto(n - 1) -> Nat] : \A s \in Upto(n - 1) : g[s] = Rec(g, s)
      BY <3>2
    <3> DEFINE h == [s \in Upto(n) |-> Rec(g, s)]
    <3>4. ASSUME NEW s \in Upto(n), s # {}
          PROVE  /\ s \ {Member(s)} \in Upto(n - 1) /\ s \ {Member(s)} \in Upto(n)
                 /\ f[Member(s)] \in Nat
      BY <3>1, <3>4, MemberAndRest
    <3>5. \A s \in Upto(n) : Rec(g, s) \in Nat
      BY <3>3, <3>4
    <3>6. h \in [Upto(n) -> Nat]
      BY <3>5
    <3>7. \A s \in Upto(n - 1) : s \in Upto(n) => h[s] = g[s]
      BY <3>3
    <3>8. \A s \in Upto(n) : h[s] = Rec(h, s)
      <4> SUFFICES ASSUME NEW s \in Upto(n) PROVE h[s] = Rec(h, s)
        OBVIOUS
      <4>1. h[s] = Rec(g, s)
        OBVIOUS
      <4>2. s # {} => h[s \ {Member(s)}] = g[s \ {Member(s)}]
        BY <3>4, <3>7
      <4> HIDE DEF h, Upto
      <4> QED
        BY <4>1, <4>2
    <3>9. Solved(n)
      <4> HIDE DEF h, Rec, Upto
      <4> QED
        BY <3>6, <3>8
    <3> QED
      BY <2>1, <3>9
  <2> QED
    BY <2>2, <2>3
<1>2. Cardinality(S) \in Nat
  BY FS_CardinalityType
<1>3. Solved(Cardinality(S))
  BY <1>1, <1>2
<1>4. Upto(Cardinality(S)) = SUBSET S
  BY FS_Subset
<1>5. PICK g \in [SUBSET S -> Nat] : \A s \in SUBSET S : g[s] = Rec(g, s)
  <2> HIDE DEF Upto, Rec
  <2> QED
    BY <1>3, <1>4
<1>6. g = [s \in SUBSET S |-> g[s]]
  OBVIOUS
<1> QED
  BY <1>5, <1>6 DEF SumBody

\* Two solutions agree on the sets both are about if what they add up agrees there.
LEMMA SumBodyAgree ==
    ASSUME NEW S, IsFiniteSet(S), NEW T, IsFiniteSet(T),
           NEW f, NEW g, NEW d, NEW e,
           d = SumBody(f, S, d), e = SumBody(g, T, e),
           NEW U, U \subseteq S, U \subseteq T, \A x \in U : f[x] = g[x]
    PROVE  d[U] = e[U]
<1> DEFINE bad == {s \in SUBSET U : d[s] # e[s]}
<1> SUFFICES ASSUME d[U] # e[U] PROVE FALSE
  OBVIOUS
<1>1. IsFiniteSet(U)
  BY FS_Subset
<1>2. bad \in SUBSET (SUBSET U) /\ bad # {}
  OBVIOUS
<1>3. PICK s \in bad : \A t \in bad : ~(Cardinality(t) < Cardinality(s))
  <2> HIDE DEF bad
  <2> QED
    BY <1>1, <1>2, LeastSet
<1>4. s \in SUBSET U /\ s \in SUBSET S /\ s \in SUBSET T /\ d[s] # e[s]
  OBVIOUS
<1>5. /\ d[s] = IF s = {} THEN 0 ELSE f[Member(s)] + d[s \ {Member(s)}]
      /\ e[s] = IF s = {} THEN 0 ELSE g[Member(s)] + e[s \ {Member(s)}]
  BY <1>4 DEF SumBody
<1>6. s # {}
  BY <1>4, <1>5
<1>7. /\ Member(s) \in s /\ s \ {Member(s)} \in SUBSET U
      /\ Cardinality(s \ {Member(s)}) < Cardinality(s)
  BY <1>1, <1>4, <1>6, MemberAndRest
<1>8. d[s \ {Member(s)}] = e[s \ {Member(s)}]
  BY <1>3, <1>7
<1> QED
  BY <1>4, <1>5, <1>6, <1>7, <1>8

\* The function chosen obeys its recursion.
LEMMA SumFunIs ==
    ASSUME NEW S, IsFiniteSet(S), NEW f, \A x \in S : f[x] \in Nat
    PROVE  /\ SumFun(f, S) = SumBody(f, S, SumFun(f, S))
           /\ SumOf(f, S) \in Nat
<1>1. PICK g \in [SUBSET S -> Nat] : g = SumBody(f, S, g)
  BY SumFunExists
<1>2. SumFun(f, S) = SumBody(f, S, SumFun(f, S))
  BY <1>1 DEF SumFun
<1>3. SumFun(f, S)[S] = g[S]
  BY <1>1, <1>2, SumBodyAgree
<1> QED
  BY <1>1, <1>2, <1>3, SumIs

\* One term of the sum, the one the definition takes first, and the others.
LEMMA SumRecursion ==
    ASSUME NEW S, IsFiniteSet(S), NEW f, \A x \in S : f[x] \in Nat, NEW T \in SUBSET S
    PROVE  /\ SumOf(f, T) \in Nat
           /\ T = {} => SumOf(f, T) = 0
           /\ T # {} => SumOf(f, T) = f[Member(T)] + SumOf(f, T \ {Member(T)})
<1> DEFINE R == T \ {Member(T)}
<1>1. IsFiniteSet(T) /\ (\A x \in T : f[x] \in Nat)
  BY FS_Subset
<1>2. SumFun(f, T) = SumBody(f, T, SumFun(f, T)) /\ SumOf(f, T) \in Nat
  BY <1>1, SumFunIs
<1>3. R \in SUBSET T /\ IsFiniteSet(R) /\ (\A x \in R : f[x] \in Nat)
  BY <1>1, FS_Subset
<1>4. SumFun(f, R) = SumBody(f, R, SumFun(f, R))
  BY <1>3, SumFunIs
<1>5. SumFun(f, T)[R] = SumFun(f, R)[R]
  <2> HIDE DEF R
  <2> QED
    BY <1>1, <1>2, <1>3, <1>4, SumBodyAgree
<1>6. SumFun(f, T)[T] = IF T = {} THEN 0 ELSE f[Member(T)] + SumFun(f, T)[R]
  <2>1. SumBody(f, T, SumFun(f, T))[T] = IF T = {} THEN 0 ELSE f[Member(T)] + SumFun(f, T)[R]
    BY DEF SumBody
  <2> QED
    BY <1>2, <2>1
<1> QED
  BY <1>2, <1>5, <1>6, SumIs

\* A set without one of its members is smaller.
LEMMA SmallerWithout ==
    ASSUME NEW S, IsFiniteSet(S), NEW x \in S
    PROVE  IsFiniteSet(S \ {x}) /\ Cardinality(S \ {x}) < Cardinality(S)
<1>1. Cardinality(S) \in Nat /\ Cardinality(S \ {x}) = Cardinality(S) - 1
  BY FS_CardinalityType, FS_RemoveElement
<1> QED
  BY <1>1, FS_RemoveElement

\* Any term can be taken first.
LEMMA SumRemove ==
    ASSUME NEW S, IsFiniteSet(S), NEW f, \A x \in S : f[x] \in Nat, NEW x \in S
    PROVE  SumOf(f, S) = f[x] + SumOf(f, S \ {x})
<1> DEFINE bad == {T \in SUBSET S : \E y \in T : SumOf(f, T) # f[y] + SumOf(f, T \ {y})}
<1> SUFFICES ASSUME bad # {} PROVE FALSE
  OBVIOUS
<1>1. PICK T \in bad : \A U \in bad : ~(Cardinality(U) < Cardinality(T))
  <2>1. bad \in SUBSET (SUBSET S)
    OBVIOUS
  <2> HIDE DEF bad
  <2> QED
    BY <2>1, LeastSet
<1>2. PICK y \in T : SumOf(f, T) # f[y] + SumOf(f, T \ {y})
  OBVIOUS
<1>3. T \in SUBSET S /\ T # {} /\ IsFiniteSet(T)
  BY FS_Subset
<1>b. \A U \in SUBSET S : U \notin bad => \A z \in U : SumOf(f, U) = f[z] + SumOf(f, U \ {z})
  OBVIOUS
<1> HIDE DEF bad
<1> DEFINE m == Member(T)
<1>4. m \in T /\ SumOf(f, T) = f[m] + SumOf(f, T \ {m})
  BY <1>3, SumRecursion, MemberAndRest
<1>5. y # m
  BY <1>2, <1>4
<1> HIDE DEF m
<1>6. ASSUME NEW z \in T
      PROVE  /\ T \ {z} \in SUBSET S /\ T \ {z} \notin bad
             /\ SumOf(f, T \ {z}) \in Nat
  <2>1. T \ {z} \in SUBSET S
    BY <1>3
  <2>2. Cardinality(T \ {z}) < Cardinality(T)
    BY <1>3, SmallerWithout
  <2> QED
    BY <1>1, <2>1, <2>2, SumRecursion
<1>7. SumOf(f, T \ {m}) = f[y] + SumOf(f, (T \ {m}) \ {y})
  BY <1>b, <1>4, <1>5, <1>6
<1>8. SumOf(f, T \ {y}) = f[m] + SumOf(f, (T \ {y}) \ {m})
  BY <1>b, <1>4, <1>5, <1>6
<1>9. (T \ {m}) \ {y} = (T \ {y}) \ {m}
  OBVIOUS
<1>10. /\ SumOf(f, (T \ {m}) \ {y}) \in Nat
       /\ f[y] \in Nat /\ f[m] \in Nat
  <2>1. (T \ {m}) \ {y} \in SUBSET S
    BY <1>3
  <2> QED
    BY <1>3, <1>4, <2>1, SumRecursion
<1> DEFINE rest == SumOf(f, (T \ {m}) \ {y})
           a == f[m]
           b == f[y]
<1>11. /\ rest \in Nat /\ a \in Nat /\ b \in Nat
       /\ SumOf(f, T) = a + (b + rest)
       /\ b + SumOf(f, T \ {y}) = b + (a + rest)
  <2>1. SumOf(f, T) = a + (b + rest)
    BY <1>4, <1>7
  <2>2. SumOf(f, T \ {y}) = a + rest
    BY <1>8, <1>9
  <2> QED
    BY <1>10, <2>1, <2>2
<1> HIDE DEF rest, a, b
<1>12. a + (b + rest) = b + (a + rest)
  BY <1>11
<1>13. SumOf(f, T) = b + SumOf(f, T \ {y})
  BY <1>11, <1>12
<1> QED
  BY <1>2, <1>13 DEF b

\* The sum over positions that are all moved by one.
LEMMA SumShift ==
    ASSUME NEW T \in SUBSET Nat, IsFiniteSet(T),
           NEW f, NEW g, \A i \in T : g[i] = f[i + 1] /\ g[i] \in Nat
    PROVE  SumOf(f, {i + 1 : i \in T}) = SumOf(g, T)
<1> DEFINE Up(U) == {i + 1 : i \in U}
           bad == {U \in SUBSET T : SumOf(f, Up(U)) # SumOf(g, U)}
<1> SUFFICES ASSUME bad # {} PROVE FALSE
  OBVIOUS
<1>1. PICK U \in bad : \A V \in bad : ~(Cardinality(V) < Cardinality(U))
  <2>1. bad \in SUBSET (SUBSET T)
    OBVIOUS
  <2> HIDE DEF bad
  <2> QED
    BY <2>1, LeastSet
<1>2. U \in SUBSET T /\ U \in SUBSET Nat /\ IsFiniteSet(U) /\ SumOf(f, Up(U)) # SumOf(g, U)
  BY FS_Subset
<1>b. \A V \in SUBSET T : V \notin bad => SumOf(f, Up(V)) = SumOf(g, V)
  OBVIOUS
<1> HIDE DEF bad
<1>3. IsFiniteSet(Up(U)) /\ (\A x \in Up(U) : f[x] \in Nat)
  <2>1. IsFiniteSet(Up(U))
    <3> DEFINE up == [i \in U |-> i + 1]
    <3>1. up \in Surjection(U, Up(U))
      BY DEF Surjection
    <3> QED
      BY <1>2, <3>1, FS_Surjection
  <2> QED
    BY <1>2, <2>1
<1>4. U # {}
  <2> SUFFICES ASSUME U = {} PROVE FALSE
    OBVIOUS
  <2>1. Up(U) = {}
    OBVIOUS
  <2>2. SumOf(f, Up(U)) = 0
    <3> HIDE DEF Up
    <3> QED
      BY <1>3, <2>1, SumRecursion
  <2>3. SumOf(g, U) = 0
    BY <1>2, SumRecursion
  <2> QED
    BY <1>2, <2>2, <2>3
<1>5. PICK i \in U : TRUE
  BY <1>4
<1> DEFINE V == U \ {i}
<1>6. V \in SUBSET T /\ Cardinality(V) < Cardinality(U)
  BY <1>2, SmallerWithout
<1>7. SumOf(f, Up(V)) = SumOf(g, V)
  BY <1>1, <1>6, <1>b
<1>8. Up(V) = Up(U) \ {i + 1}
  BY <1>2
<1>9. SumOf(g, U) = g[i] + SumOf(g, V)
  <2>1. \A j \in U : g[j] \in Nat
    BY <1>2
  <2> QED
    BY <1>2, <2>1, SumRemove
<1>10. SumOf(f, Up(U)) = f[i + 1] + SumOf(f, Up(V))
  <2>1. i + 1 \in Up(U)
    OBVIOUS
  <2>2. SumOf(f, Up(U)) = f[i + 1] + SumOf(f, Up(U) \ {i + 1})
    <3> HIDE DEF Up
    <3> QED
      BY <1>3, <2>1, SumRemove
  <2> QED
    BY <1>8, <2>2
<1> QED
  BY <1>2, <1>7, <1>9, <1>10

-----------------------------------------------------------------------------
USE DEF SeqNums, Indices, NoSeq, EmptySlot

-----------------------------------------------------------------------------
(* The ring and the sequence numbers.                                      *)

\* Every sequence number has a slot (size_t slot_idx = seq_num % MAX_SLOTS).
LEMMA SlotInRange ==
    ASSUME NEW s \in SeqNums
    PROVE  SlotOf(s) \in Indices
BY RingAssumption DEF SlotOf

\* next_play_seq_++ stays a sequence number.
LEMMA SeqIncType ==
    ASSUME NEW s \in SeqNums
    PROVE  SeqInc(s) \in SeqNums
BY RingAssumption DEF SeqInc

\* A sequence number is at distance 0 from itself and from no other.
LEMMA AheadZero ==
    ASSUME NEW s \in SeqNums, NEW p \in SeqNums
    PROVE  /\ Ahead(s, p) \in SeqNums
           /\ Ahead(s, p) = 0 <=> s = p
BY RingAssumption DEF Ahead

\* When the playhead moves by one, every other packet comes one nearer.
LEMMA AheadInc ==
    ASSUME NEW s \in SeqNums, NEW p \in SeqNums, s # p
    PROVE  Ahead(s, SeqInc(p)) = Ahead(s, p) - 1
BY RingAssumption DEF Ahead, SeqInc

\* A packet neither late nor out of reach is less than MAX_SLOTS ahead.
LEMMA DiffWindow ==
    ASSUME NEW s \in SeqNums, NEW p \in SeqNums,
           SeqDiff(s, p) \in (1 - MAX_SLOTS)..(MAX_SLOTS - 1),
           SeqDiff(s, p) \notin (1 - MAX_SLOTS)..(-1)
    PROVE  Ahead(s, p) < MAX_SLOTS
BY RingAssumption DEF Ahead, SeqDiff

\* Counting on from the playhead without the wrap reaches the packet's slot.
LEMMA UnwrappedSlot ==
    ASSUME NEW x \in SeqNums, NEW p \in SeqNums
    PROVE  p + Ahead(x, p) \in Int /\ (p + Ahead(x, p)) % MAX_SLOTS = SlotOf(x)
<1>1. CASE x >= p
  BY <1>1 DEF Ahead, SlotOf
<1>2. CASE x < p
  <2>1. p + Ahead(x, p) = x + SEQ_MOD
    BY <1>2, RingAssumption DEF Ahead
  <2>2. (x + SEQ_MOD) % MAX_SLOTS = x % MAX_SLOTS
    <3>1. x \in Int /\ SEQ_MOD \in Int /\ MAX_SLOTS \in Nat \ {0} /\ SEQ_MOD % MAX_SLOTS = 0
      BY RingAssumption
    <3> QED
      BY <3>1, ModAdd, Zenon
  <2> QED
    BY <2>1, <2>2, RingAssumption DEF SlotOf
<1> QED
  BY <1>1, <1>2

\* Two packets of one window in one slot are one packet: the window is no
\* longer than the ring, also where the sequence number wraps.
LEMMA SlotUnique ==
    ASSUME NEW s \in SeqNums, NEW t \in SeqNums, NEW p \in SeqNums,
           Ahead(s, p) < MAX_SLOTS, Ahead(t, p) < MAX_SLOTS,
           SlotOf(s) = SlotOf(t)
    PROVE  s = t
<1> DEFINE a == p + Ahead(s, p)
           b == p + Ahead(t, p)
<1>1. Ahead(s, p) \in SeqNums /\ Ahead(t, p) \in SeqNums
  BY AheadZero
<1>2. a \in Int /\ b \in Int /\ a % MAX_SLOTS = b % MAX_SLOTS
  BY UnwrappedSlot
<1>3. a - b < MAX_SLOTS /\ b - a < MAX_SLOTS
  BY <1>1, RingAssumption
<1> HIDE DEF a, b
<1>4. a = b
  <2>1. CASE a >= b
    BY <2>1, <1>2, <1>3, CongruentClose, RingAssumption
  <2>2. CASE a < b
    <3>1. b - a < MAX_SLOTS /\ a <= b /\ MAX_SLOTS \in Nat \ {0} /\ b % MAX_SLOTS = a % MAX_SLOTS
      BY <2>2, <1>2, <1>3, RingAssumption
    <3> QED
      BY <1>2, <3>1, CongruentClose
  <2> QED
    BY <2>1, <2>2, <1>2
<1>5. Ahead(s, p) = Ahead(t, p)
  BY <1>1, <1>4 DEF a, b
<1> QED
  BY <1>5, RingAssumption DEF Ahead

-----------------------------------------------------------------------------
\* Before the first packet the ring is empty.
FirstInv == ~has_first_packet => \A i \in Indices : ~slots[i].valid

IInv == TypeOK /\ WindowInv /\ OffsetInv /\ FirstInv

\* configure() leaves an empty ring.
LEMMA InitIInv == Init => IInv
<1> SUFFICES ASSUME Init PROVE IInv
  OBVIOUS
<1>1. slots \in [Indices -> [valid : BOOLEAN, seq : SeqNums, frames : Nat]]
  BY RingAssumption DEF Init
<1>2. \A i \in Indices : ~slots[i].valid
  BY DEF Init
<1>3. TypeOK
  <2>1. has_first_packet \in BOOLEAN /\ is_buffering \in BOOLEAN /\ startup_pending \in BOOLEAN
    BY DEF Init
  <2>2. next_play_seq \in SeqNums /\ last_arrived_seq \in SeqNums \cup {NoSeq}
    BY RingAssumption DEF Init
  <2>3. /\ hole_free_run \in 0..kStableArrivalCount
        /\ drain_age \in 0..kDrainInterval /\ startup_age \in 0..kDrainStartGrace
        /\ slot_frame_offset \in Nat /\ want \in Nat /\ to_drop \in Nat
    BY FramesAssumption, DrainAssumption DEF Init
  <2>4. pc \in {"idle", "drain", "play"}
    BY DEF Init
  <2>5. QED
    BY <1>1, <1>2, <2>1, <2>2, <2>3, <2>4 DEF TypeOK
<1>4. WindowInv /\ OffsetInv /\ FirstInv
  BY <1>2 DEF Init, WindowInv, OffsetInv, FirstInv
<1> QED
  BY <1>3, <1>4 DEF IInv

\* Invalidating the playhead's slot and moving on preserves all that concerns
\* the ring, whether the slot held the packet due, or none.
LEMMA LeaveSlotRing ==
    ASSUME IInv, LeaveSlot
    PROVE  /\ slots' \in [Indices -> [valid : BOOLEAN, seq : SeqNums, frames : Nat]]
           /\ \A i \in Indices : slots'[i].valid => slots'[i].frames \in FrameCounts
           /\ next_play_seq' \in SeqNums
           /\ slot_frame_offset' = 0
           /\ WindowInv'
           /\ OffsetInv'
           /\ has_first_packet' = has_first_packet => FirstInv'
<1> DEFINE k == SlotOf(next_play_seq)
<1>1. next_play_seq \in SeqNums /\ k \in Indices /\ slots \in [Indices -> [valid : BOOLEAN, seq : SeqNums, frames : Nat]]
  BY SlotInRange DEF IInv, TypeOK
<1>2. slots' = [slots EXCEPT ![k] = EmptySlot]
  BY DEF LeaveSlot
<1>3. next_play_seq' = SeqInc(next_play_seq) /\ next_play_seq' \in SeqNums /\ slot_frame_offset' = 0
  BY <1>1, SeqIncType DEF LeaveSlot
<1>4. slots' \in [Indices -> [valid : BOOLEAN, seq : SeqNums, frames : Nat]]
  <2>1. EmptySlot \in [valid : BOOLEAN, seq : SeqNums, frames : Nat]
    BY RingAssumption
  <2>2. QED
    BY <1>1, <1>2, <2>1
<1>5. \A i \in Indices : slots'[i].valid => i # k /\ slots'[i] = slots[i]
  BY <1>1, <1>2
<1>6. WindowInv'
  <2> SUFFICES ASSUME NEW i \in Indices, slots'[i].valid
               PROVE  /\ SlotOf(slots'[i].seq) = i
                      /\ Ahead(slots'[i].seq, next_play_seq') < MAX_SLOTS
    BY DEF WindowInv, SlotOf, Ahead
  <2>1. /\ slots'[i] = slots[i] /\ i # k
        /\ slots[i].seq \in SeqNums
        /\ SlotOf(slots[i].seq) = i
        /\ Ahead(slots[i].seq, next_play_seq) < MAX_SLOTS
    BY <1>1, <1>5 DEF IInv, WindowInv
  <2>2. slots[i].seq # next_play_seq
    BY <2>1
  <2>3. Ahead(slots[i].seq, next_play_seq') = Ahead(slots[i].seq, next_play_seq) - 1
    BY <1>1, <1>3, <2>1, <2>2, AheadInc
  <2>4. Ahead(slots[i].seq, next_play_seq) \in SeqNums
    BY <1>1, <2>1, AheadZero
  <2>5. Ahead(slots[i].seq, next_play_seq') < MAX_SLOTS
    BY <2>1, <2>3, <2>4, RingAssumption
  <2>6. QED
    BY <2>1, <2>5
<1>7. OffsetInv'
  BY <1>3 DEF OffsetInv
<1>8. \A i \in Indices : slots'[i].valid => slots'[i].frames \in FrameCounts
  BY <1>5 DEF IInv, TypeOK
<1>9. has_first_packet' = has_first_packet => FirstInv'
  BY <1>5 DEF IInv, FirstInv
<1> QED
  BY <1>3, <1>4, <1>6, <1>7, <1>8, <1>9

\* What the playhead's packet still holds is a positive number of frames.
LEMMA RemainingPositive ==
    ASSUME IInv, PlayheadLive
    PROVE  Remaining \in Nat \ {0}
<1>1. SlotOf(next_play_seq) \in Indices
  BY SlotInRange DEF IInv, TypeOK
<1>2. slots[SlotOf(next_play_seq)].frames \in Nat \ {0}
  BY <1>1, FramesAssumption DEF IInv, TypeOK, PlayheadLive, Live
<1>3. slot_frame_offset \in Nat
  BY DEF IInv, TypeOK
<1>4. slot_frame_offset > 0 => slot_frame_offset < slots[SlotOf(next_play_seq)].frames
  BY DEF IInv, OffsetInv
<1> QED
  BY ONLY <1>2, <1>3, <1>4 DEF Remaining

-----------------------------------------------------------------------------
(* push_packet                                                             *)

\* The ring and the playhead push_packet stores into, after the first-packet
\* and resync branches: a window like any other, with room for the packet.
LEMMA AfterResync ==
    ASSUME IInv, NEW seq \in SeqNums, ~IsLate(seq)
    PROVE  /\ RingAfterResync(seq) \in [Indices -> [valid : BOOLEAN, seq : SeqNums, frames : Nat]]
           /\ HeadAfterResync(seq) \in SeqNums
           /\ OffsetAfterResync(seq) \in Nat
           /\ \A i \in Indices : RingAfterResync(seq)[i].valid =>
                 /\ RingAfterResync(seq)[i] = slots[i]
                 /\ ~NeedsResync(seq)
                 /\ HeadAfterResync(seq) = next_play_seq
           /\ Ahead(seq, HeadAfterResync(seq)) < MAX_SLOTS
           /\ OffsetAfterResync(seq) > 0 =>
                 /\ ~NeedsResync(seq)
                 /\ HeadAfterResync(seq) = next_play_seq
                 /\ OffsetAfterResync(seq) = slot_frame_offset
<1> USE DEF RingAfterResync, HeadAfterResync, OffsetAfterResync, HeadFor
<1>1. CASE NeedsResync(seq)
  <2>1. [i \in Indices |-> EmptySlot] \in [Indices -> [valid : BOOLEAN, seq : SeqNums, frames : Nat]]
    BY RingAssumption
  <2>2. Ahead(seq, seq) < MAX_SLOTS
    BY RingAssumption DEF Ahead
  <2> QED
    BY <1>1, <2>1, <2>2
<1>2. CASE ~NeedsResync(seq)
  <2>1. Ahead(seq, HeadFor(seq)) < MAX_SLOTS
    <3>1. HeadFor(seq) \in SeqNums
      BY DEF IInv, TypeOK
    <3> QED
      BY <1>2, <3>1, DiffWindow DEF NeedsResync, IsLate
  <2>2. ~has_first_packet => slot_frame_offset = 0
    <3>1. SlotOf(next_play_seq) \in Indices
      BY SlotInRange DEF IInv, TypeOK
    <3> QED
      BY <3>1 DEF IInv, TypeOK, FirstInv, OffsetInv, Live
  <2>3. ~has_first_packet => \A i \in Indices : ~slots[i].valid
    BY DEF IInv, FirstInv
  <2> QED
    BY <1>2, <2>1, <2>2, <2>3 DEF IInv, TypeOK
<1> QED
  BY <1>1, <1>2

\* A stored packet keeps the invariant.
LEMMA PushStoredIInv ==
    ASSUME IInv, NEW seq \in SeqNums, NEW frames \in FrameCounts,
           PushStored(seq, frames)
    PROVE  IInv'
<1> DEFINE R == RingAfterResync(seq)
           H == HeadAfterResync(seq)
           O == OffsetAfterResync(seq)
           k == SlotOf(seq)
           stored == [valid |-> TRUE, seq |-> seq, frames |-> frames]
<1>1. ~IsLate(seq) /\ ~IsDuplicate(seq)
  BY DEF PushStored
<1>2. k \in Indices
  BY SlotInRange
<1>3. /\ R \in [Indices -> [valid : BOOLEAN, seq : SeqNums, frames : Nat]]
      /\ H \in SeqNums /\ O \in Nat
      /\ Ahead(seq, H) < MAX_SLOTS
      /\ \A i \in Indices : R[i].valid => R[i] = slots[i] /\ ~NeedsResync(seq) /\ H = next_play_seq
      /\ O > 0 => ~NeedsResync(seq) /\ H = next_play_seq /\ O = slot_frame_offset
  BY <1>1, AfterResync
<1>4. stored \in [valid : BOOLEAN, seq : SeqNums, frames : Nat] /\ stored.valid
        /\ stored.seq = seq /\ stored.frames = frames
  BY FramesAssumption
<1>5. slots' = [R EXCEPT ![k] = stored] /\ next_play_seq' = H /\ slot_frame_offset' = O
  BY DEF PushStored
<1> HIDE DEF R, H, O, k, stored
<1>6. slots' \in [Indices -> [valid : BOOLEAN, seq : SeqNums, frames : Nat]]
  BY <1>2, <1>3, <1>4, <1>5
<1>7. slots'[k] = stored /\ \A i \in Indices \ {k} : slots'[i] = R[i]
  BY <1>2, <1>3, <1>5
<1>8. TypeOK'
  <2>1. \A i \in Indices : slots'[i].valid => slots'[i].frames \in FrameCounts
    BY <1>3, <1>4, <1>7 DEF IInv, TypeOK
  <2>2. hole_free_run' \in 0..kStableArrivalCount /\ last_arrived_seq' \in SeqNums
    BY FramesAssumption DEF PushStored, RunWith, IInv, TypeOK
  <2>3. has_first_packet' \in BOOLEAN /\ is_buffering' \in BOOLEAN /\ startup_pending' \in BOOLEAN
    BY DEF PushStored
  <2>4. startup_age' \in 0..kDrainStartGrace /\ drain_age' \in 0..kDrainInterval
    BY DrainAssumption DEF PushStored, IInv, TypeOK
  <2>5. pc' \in {"idle", "drain", "play"} /\ want' \in Nat /\ to_drop' \in Nat
    BY DEF PushStored, popVars, IInv, TypeOK
  <2> QED
    BY <1>3, <1>5, <1>6, <2>1, <2>2, <2>3, <2>4, <2>5 DEF TypeOK
<1>9. WindowInv'
  <2> SUFFICES ASSUME NEW i \in Indices, slots'[i].valid
               PROVE  /\ SlotOf(slots'[i].seq) = i
                      /\ Ahead(slots'[i].seq, next_play_seq') < MAX_SLOTS
    BY DEF WindowInv, SlotOf, Ahead
  <2>1. CASE i = k
    BY <2>1, <1>3, <1>4, <1>5, <1>7 DEF k
  <2>2. CASE i # k
    <3>1. slots'[i] = slots[i] /\ next_play_seq' = next_play_seq
      BY <2>2, <1>3, <1>5, <1>7
    <3> QED
      BY <3>1 DEF IInv, WindowInv
  <2> QED
    BY <2>1, <2>2
<1>10. OffsetInv'
  <2> SUFFICES ASSUME slot_frame_offset' > 0
               PROVE  /\ slots'[SlotOf(next_play_seq')].valid
                      /\ slots'[SlotOf(next_play_seq')].seq = next_play_seq'
                      /\ slot_frame_offset' < slots'[SlotOf(next_play_seq')].frames
    BY DEF OffsetInv, Live, SlotOf
  <2>1. ~NeedsResync(seq) /\ H = next_play_seq /\ O = slot_frame_offset
    BY <1>3, <1>5
  <2>2. Live(slots, next_play_seq) /\ slot_frame_offset < slots[SlotOf(next_play_seq)].frames
    BY <2>1, <1>5 DEF IInv, OffsetInv
  <2>3. seq # next_play_seq
    BY <1>1, <2>1, <2>2 DEF IsDuplicate
  <2>4. SlotOf(next_play_seq) # k
    <3>1. next_play_seq \in SeqNums /\ Ahead(next_play_seq, next_play_seq) < MAX_SLOTS
      BY RingAssumption DEF IInv, TypeOK, Ahead
    <3> QED
      BY <1>3, <2>1, <2>3, <3>1, SlotUnique DEF k
  <2>5. SlotOf(next_play_seq) \in Indices
    BY SlotInRange DEF IInv, TypeOK
  <2>6. R = slots
    BY <2>1 DEF R, RingAfterResync
  <2>7. slots'[SlotOf(next_play_seq)] = slots[SlotOf(next_play_seq)]
    BY <1>7, <2>4, <2>5, <2>6
  <2>8. next_play_seq' = next_play_seq /\ slot_frame_offset' = slot_frame_offset
    BY <1>5, <2>1
  <2> QED
    BY <2>2, <2>7, <2>8 DEF Live
<1>11. FirstInv'
  BY DEF PushStored, FirstInv
<1> QED
  BY <1>8, <1>9, <1>10, <1>11 DEF IInv

-----------------------------------------------------------------------------
(* pop_frames, and the theorems                                            *)

\* The offset moves on inside the packet at the playhead.
LEMMA WithinIInv ==
    ASSUME IInv, PlayheadLive, NEW n \in Nat, n < Remaining,
           slot_frame_offset' = slot_frame_offset + n,
           UNCHANGED <<slots, next_play_seq, gateVars>>
    PROVE  slot_frame_offset' \in Nat /\ WindowInv' /\ OffsetInv' /\ FirstInv'
<1>1. SlotOf(next_play_seq) \in Indices
  BY SlotInRange DEF IInv, TypeOK
<1>2. slots[SlotOf(next_play_seq)].frames \in Nat
  BY <1>1 DEF IInv, TypeOK
<1>3. slot_frame_offset' \in Nat /\ slot_frame_offset' < slots[SlotOf(next_play_seq)].frames
  BY <1>2 DEF Remaining, IInv, TypeOK
<1>4. OffsetInv'
  BY <1>3 DEF OffsetInv, PlayheadLive, Live, SlotOf
<1>5. WindowInv' /\ FirstInv'
  BY DEF IInv, WindowInv, FirstInv, SlotOf, Ahead, gateVars
<1> QED
  BY <1>3, <1>4, <1>5

\* One step of the jitter buffer preserves the inductive invariant.
LEMMA NextIInv ==
    ASSUME IInv, [Next]_vars
    PROVE  IInv'
<1> USE DEF popVars, clockVars, gateVars, ringVars
<1>1. CASE UNCHANGED vars
  BY <1>1 DEF vars, IInv, TypeOK, WindowInv, OffsetInv, FirstInv, Live, SlotOf, Ahead
<1>2. CASE Push
  <2>1. CASE \E seq \in SeqNums : PushDropped(seq)
    BY <2>1, <1>1 DEF PushDropped
  <2>2. CASE \E seq \in SeqNums, frames \in FrameCounts : PushStored(seq, frames)
    BY <2>2, PushStoredIInv
  <2> QED
    BY <1>2, <2>1, <2>2 DEF Push
<1>3. CASE PopSilence
  BY <1>3, <1>1 DEF PopSilence
<1>4. ASSUME NEW n \in PopSizes, PopStart(n)
      PROVE  IInv'
  <2>1. pc' \in {"idle", "drain", "play"} /\ want' \in Nat
    BY <1>4, FramesAssumption DEF PopStart
  <2>2. to_drop' \in Nat
    BY <1>4, DrainAssumption DEF PopStart, DrainAmount, IInv, TypeOK
  <2>3. drain_age' \in 0..kDrainInterval
    BY <1>4, DrainAssumption DEF PopStart, IInv, TypeOK
  <2>4. UNCHANGED <<ringVars, gateVars, is_buffering, startup_age>>
    BY <1>4 DEF PopStart
  <2>5. TypeOK'
    BY <2>1, <2>2, <2>3, <2>4 DEF IInv, TypeOK
  <2>6. WindowInv' /\ OffsetInv' /\ FirstInv'
    BY <2>4 DEF IInv, WindowInv, OffsetInv, FirstInv, Live, SlotOf, Ahead
  <2> QED
    BY <2>5, <2>6 DEF IInv
<1>5. CASE DrainWithin
  <2>1. /\ PlayheadLive /\ to_drop \in Nat /\ to_drop < Remaining
        /\ slot_frame_offset' = slot_frame_offset + to_drop
        /\ UNCHANGED <<slots, next_play_seq, gateVars>>
        /\ UNCHANGED <<is_buffering, clockVars, want>>
        /\ to_drop' = 0 /\ pc' = "play"
    BY <1>5 DEF DrainWithin, IInv, TypeOK
  <2>2. slot_frame_offset' \in Nat /\ WindowInv' /\ OffsetInv' /\ FirstInv'
    BY <2>1, WithinIInv
  <2> QED
    BY <2>1, <2>2 DEF IInv, TypeOK
<1>6. CASE PlayWithin
  <2>1. /\ PlayheadLive /\ want \in Nat /\ want < Remaining
        /\ slot_frame_offset' = slot_frame_offset + want
        /\ UNCHANGED <<slots, next_play_seq, gateVars>>
        /\ UNCHANGED <<is_buffering, clockVars, to_drop>>
        /\ want' \in Nat /\ pc' \in {"idle", "drain", "play"}
    BY <1>6 DEF PlayWithin, Deliver, IInv, TypeOK
  <2>2. slot_frame_offset' \in Nat /\ WindowInv' /\ OffsetInv' /\ FirstInv'
    BY <2>1, WithinIInv
  <2> QED
    BY <2>1, <2>2 DEF IInv, TypeOK
<1>7. ASSUME LeaveSlot,
             UNCHANGED <<gateVars, is_buffering, clockVars>>,
             pc' \in {"idle", "drain", "play"}, want' \in Nat, to_drop' \in Nat
      PROVE  IInv'
  BY <1>7, LeaveSlotRing DEF IInv, TypeOK
<1>8. CASE DrainPast
  <2>1. to_drop' \in Nat
    <3>1. CASE PlayheadLive
      BY <1>8, <3>1, RemainingPositive DEF DrainPast, IInv, TypeOK
    <3>2. CASE ~PlayheadLive
      BY <1>8, <3>2 DEF DrainPast, IInv, TypeOK
    <3> QED
      BY <3>1, <3>2
  <2>2. pc' \in {"idle", "drain", "play"} /\ want' \in Nat
    BY <1>8 DEF DrainPast, IInv, TypeOK
  <2> QED
    BY <1>7, <1>8, <2>1, <2>2 DEF DrainPast
<1>9. CASE PlayPast
  <2>1. want' \in Nat /\ to_drop' \in Nat /\ pc' \in {"idle", "drain", "play"}
    BY <1>9, RemainingPositive DEF PlayPast, Deliver, IInv, TypeOK
  <2> QED
    BY <1>7, <1>9, <2>1 DEF PlayPast
<1>10. CASE PlayConceal
  <2>1. want' \in Nat /\ to_drop' \in Nat /\ pc' \in {"idle", "drain", "play"}
    BY <1>10, FramesAssumption DEF PlayConceal, Deliver, IInv, TypeOK
  <2> QED
    BY <1>7, <1>10, <2>1 DEF PlayConceal
<1>11. CASE PlayDry
  <2>1. want' \in Nat /\ pc' \in {"idle", "drain", "play"} /\ is_buffering' \in BOOLEAN
    BY <1>11 DEF PlayDry, Deliver, IInv, TypeOK
  <2>2. UNCHANGED <<ringVars, gateVars, clockVars, to_drop>>
    BY <1>11 DEF PlayDry
  <2>3. WindowInv' /\ OffsetInv' /\ FirstInv'
    BY <2>2 DEF IInv, WindowInv, OffsetInv, FirstInv, Live, SlotOf, Ahead
  <2> QED
    BY <2>1, <2>2, <2>3 DEF IInv, TypeOK
<1>12. CASE Tick
  <2>1. drain_age' \in 0..kDrainInterval /\ startup_age' \in 0..kDrainStartGrace
    BY <1>12, DrainAssumption DEF Tick, IInv, TypeOK
  <2>2. UNCHANGED <<ringVars, gateVars, is_buffering, popVars>>
    BY <1>12 DEF Tick
  <2>3. WindowInv' /\ OffsetInv' /\ FirstInv'
    BY <2>2 DEF IInv, WindowInv, OffsetInv, FirstInv, Live, SlotOf, Ahead
  <2> QED
    BY <2>1, <2>2, <2>3 DEF IInv, TypeOK
<1> QED
  BY <1>1, <1>2, <1>3, <1>4, <1>5, <1>6, <1>8, <1>9, <1>10, <1>11, <1>12
     DEF Next, Pop, PopStep

\* It holds in every state.
LEMMA SpecIInv == Spec => []IInv
BY InitIInv, NextIInv, PTL DEF Spec

\* The state of the buffer keeps its type; in particular slot_frame_offset_,
\* the frames wanted and the frames to drop never go below zero, which as size_t
\* they would do by wrapping.
THEOREM TypeCorrect == Spec => []TypeOK
BY SpecIInv, PTL DEF IInv

\* Every packet held is in its slot and in the window ahead of the playhead.
THEOREM WindowCorrect == Spec => []WindowInv
BY SpecIInv, PTL DEF IInv

\* The offset into the playhead's packet stays inside that packet, so the memcpy
\* of pop_frames reads inside pcm_data.
THEOREM OffsetCorrect == Spec => []OffsetInv
BY SpecIInv, PTL DEF IInv

-----------------------------------------------------------------------------
(* Action properties                                                       *)

\* Leaving a slot only ever discards the packet the playhead is at.
LEMMA LeaveSlotDiscards ==
    ASSUME IInv, LeaveSlot,
           NEW i \in Indices, slots[i].valid, slots'[i] # slots[i]
    PROVE  next_play_seq' = SeqInc(slots[i].seq) /\ ~slots'[i].valid
<1>1. i = SlotOf(next_play_seq) /\ ~slots'[i].valid
  BY DEF LeaveSlot, IInv, TypeOK
<1>2. /\ slots[i].seq \in SeqNums /\ next_play_seq \in SeqNums
      /\ SlotOf(slots[i].seq) = SlotOf(next_play_seq)
      /\ Ahead(slots[i].seq, next_play_seq) < MAX_SLOTS
      /\ Ahead(next_play_seq, next_play_seq) < MAX_SLOTS
  BY <1>1, RingAssumption DEF IInv, TypeOK, WindowInv, Ahead
<1>3. slots[i].seq = next_play_seq
  BY <1>2, SlotUnique
<1> QED
  BY <1>1, <1>3 DEF LeaveSlot

\* Storing a packet takes the slot of no other, unless it empties the buffer.
LEMMA PushStoredDiscards ==
    ASSUME IInv, NEW seq \in SeqNums, NEW frames \in FrameCounts,
           PushStored(seq, frames),
           NEW i \in Indices, slots[i].valid, slots'[i] # slots[i]
    PROVE  \A j \in Indices : slots'[j].valid => slots'[j].seq = next_play_seq'
<1> DEFINE stored == [valid |-> TRUE, seq |-> seq, frames |-> frames]
<1>1. SlotOf(seq) \in Indices /\ slots \in [Indices -> [valid : BOOLEAN, seq : SeqNums, frames : Nat]]
  BY SlotInRange DEF IInv, TypeOK
<1>2. slots' = [RingAfterResync(seq) EXCEPT ![SlotOf(seq)] = stored]
  BY DEF PushStored
<1>3. CASE NeedsResync(seq)
  <2>1. slots' = [[j \in Indices |-> EmptySlot] EXCEPT ![SlotOf(seq)] = stored]
    BY <1>2, <1>3 DEF RingAfterResync
  <2>2. next_play_seq' = seq
    BY <1>3 DEF PushStored, HeadAfterResync
  <2> QED
    BY <1>1, <2>1, <2>2
<1>4. CASE ~NeedsResync(seq)
  <2>1. slots' = [slots EXCEPT ![SlotOf(seq)] = stored]
    BY <1>2, <1>4 DEF RingAfterResync
  <2>2. i = SlotOf(seq)
    BY <1>1, <2>1
  <2>3. has_first_packet
    BY DEF IInv, FirstInv
  <2>4. HeadAfterResync(seq) = next_play_seq
    BY <1>4, <2>3 DEF HeadAfterResync, HeadFor
  <2>5. Ahead(seq, next_play_seq) < MAX_SLOTS
    BY <2>4, AfterResync DEF PushStored
  <2>6. /\ slots[i].seq \in SeqNums /\ next_play_seq \in SeqNums
        /\ SlotOf(slots[i].seq) = SlotOf(seq)
        /\ Ahead(slots[i].seq, next_play_seq) < MAX_SLOTS
    BY <1>1, <2>2 DEF IInv, TypeOK, WindowInv
  <2>7. slots[i].seq = seq
    BY <2>5, <2>6, SlotUnique
  <2>8. IsDuplicate(seq)
    BY <1>4, <2>2, <2>7 DEF IsDuplicate, Live
  <2> QED
    BY <2>8 DEF PushStored
<1> QED
  BY <1>3, <1>4

\* No packet waiting to be played is ever overwritten by another: it goes when
\* the playhead passes it, or with all the others in a resync.
THEOREM LiveNotOverwritten == Spec => NoLiveOverwrite
<1> DEFINE A == \A i \in Indices :
          slots[i].valid /\ slots'[i] # slots[i] =>
             \/ next_play_seq' = SeqInc(slots[i].seq) /\ ~slots'[i].valid
             \/ \A j \in Indices : slots'[j].valid => slots'[j].seq = next_play_seq'
<1>1. ASSUME IInv, [Next]_vars
      PROVE  [A]_vars
  <2> USE DEF ringVars
  <2> SUFFICES ASSUME NEW i \in Indices, slots[i].valid, slots'[i] # slots[i]
               PROVE  \/ next_play_seq' = SeqInc(slots[i].seq) /\ ~slots'[i].valid
                      \/ \A j \in Indices : slots'[j].valid => slots'[j].seq = next_play_seq'
    OBVIOUS
  <2>1. CASE LeaveSlot
    BY <1>1, <2>1, LeaveSlotDiscards
  <2>2. CASE \E seq \in SeqNums, frames \in FrameCounts : PushStored(seq, frames)
    BY <1>1, <2>2, PushStoredDiscards
  <2>3. CASE UNCHANGED slots
    BY <2>3
  <2>4. UNCHANGED slots \/ LeaveSlot
          \/ \E seq \in SeqNums, frames \in FrameCounts : PushStored(seq, frames)
    BY <1>1 DEF Next, vars, Push, Pop, PopStep, PushDropped, PopSilence, PopStart,
                DrainWithin, DrainPast, PlayWithin, PlayPast, PlayConceal, PlayDry, Tick
  <2> QED
    BY <2>1, <2>2, <2>3, <2>4
<1> QED
  BY <1>1, SpecIInv, PTL DEF Spec, NoLiveOverwrite

\* The player is only inside pop_frames' loops when not buffering.
PopInv == pc # "idle" => ~is_buffering

\* It holds in every state.
LEMMA SpecPopInv == Spec => []PopInv
<1>1. Init => PopInv
  BY DEF Init, PopInv
<1>2. ASSUME IInv, PopInv, [Next]_vars
      PROVE  PopInv'
  BY <1>2 DEF PopInv, IInv, TypeOK, Next, vars, popVars, Push, Pop, PopStep, PushDropped,
     PushStored, PopSilence, PopStart, DrainWithin, DrainPast, PlayWithin, PlayPast,
     PlayConceal, PlayDry, Tick, Deliver
<1> QED
  BY <1>1, <1>2, SpecIInv, PTL DEF Spec

\* A dry-out leaves no packet behind: the scan over the other slots, and the
\* window, together see every packet the ring holds.
THEOREM DryOnlyWhenEmpty == Spec => DryMeansEmpty
<1> DEFINE A == pc = "play" /\ is_buffering' => ValidSlots(slots) = {}
<1>1. ASSUME IInv, PopInv, [Next]_vars
      PROVE  [A]_vars
  <2> SUFFICES ASSUME pc = "play", is_buffering', NEW i \in Indices, slots[i].valid
               PROVE  FALSE
    BY DEF ValidSlots
  <2>1. ~is_buffering
    BY <1>1 DEF PopInv
  <2>2. PlayDry
    BY <1>1, <2>1 DEF Next, vars, Push, Pop, PopStep, PushDropped, PushStored, PopSilence,
       PopStart, DrainWithin, DrainPast, PlayWithin, PlayPast, PlayConceal, Tick
  <2>3. /\ slots[i].seq \in SeqNums /\ next_play_seq \in SeqNums
        /\ SlotOf(slots[i].seq) = i
        /\ Ahead(slots[i].seq, next_play_seq) < MAX_SLOTS
        /\ Ahead(slots[i].seq, next_play_seq) \in SeqNums
    BY <1>1, AheadZero DEF IInv, TypeOK, WindowInv
  <2>4. slots[i].seq # next_play_seq
    BY <2>2, <2>3 DEF PlayDry, PlayheadLive, Live
  <2>5. Ahead(slots[i].seq, next_play_seq) \in 1..(MAX_SLOTS - 1)
    <3>1. Ahead(slots[i].seq, next_play_seq) # 0
      BY <2>3, <2>4, AheadZero
    <3> QED
      BY <2>3, <3>1, RingAssumption
  <2>6. SlotOf(next_play_seq + Ahead(slots[i].seq, next_play_seq)) = i
    BY <2>3, UnwrappedSlot DEF SlotOf
  <2>7. HasFuturePackets
    BY <2>5, <2>6 DEF HasFuturePackets
  <2> QED
    BY <2>2, <2>7 DEF PlayDry
<1> QED
  BY <1>1, SpecIInv, SpecPopInv, PTL DEF Spec, DryMeansEmpty

-----------------------------------------------------------------------------
(* The drain.  The frames buffered without a hole are a sum over the run   *)
(* of packets from the playhead on, of which one step of the drain takes   *)
(* the first term.                                                         *)

\* Frames of the packet i after the playhead, as a function to sum over.
FramesFrom(ring, head) == [i \in Indices |-> ring[SlotOf(head + i)].frames]

\* The frames the source counts from the playhead on are a sum over the run.
LEMMA ContiguousIsSum ==
    ASSUME NEW ring \in [Indices -> [valid : BOOLEAN, seq : SeqNums, frames : Nat]],
           NEW head \in SeqNums
    PROVE  /\ ContiguousFrames(ring, head) = SumOf(FramesFrom(ring, head), ContiguousRun(ring, head))
           /\ \A i \in Indices : FramesFrom(ring, head)[i] \in Nat
           /\ ContiguousRun(ring, head) \in SUBSET Indices
           /\ IsFiniteSet(ContiguousRun(ring, head))
<1> DEFINE run == ContiguousRun(ring, head)
           f == FramesFrom(ring, head)
<1>1. run \in SUBSET Indices /\ IsFiniteSet(run)
  <2>1. run \in SUBSET Indices
    BY DEF ContiguousRun
  <2>2. IsFiniteSet(Indices)
    BY RingAssumption, FS_Interval
  <2> QED
    BY <2>1, <2>2, FS_Subset
<1>2. \A i \in Indices : f[i] = ring[SlotOf(head + i)].frames /\ f[i] \in Nat
  <2> SUFFICES ASSUME NEW i \in Indices PROVE f[i] = ring[SlotOf(head + i)].frames /\ f[i] \in Nat
    OBVIOUS
  <2>1. SlotOf(head + i) \in Indices
    BY RingAssumption DEF SlotOf
  <2> QED
    BY <2>1 DEF FramesFrom
<1> DEFINE body(g) == [s \in SUBSET run |->
                         IF s = {} THEN 0
                         ELSE ring[SlotOf(head + Member(s))].frames + g[s \ {Member(s)}]]
           fun == CHOOSE g : g = body(g)
<1>3. ContiguousFrames(ring, head) = fun[run]
  BY DEF ContiguousFrames, MapThenSumSet, MapThenFoldSet, Member
<1>4. \A g : body(g) = SumBody(f, run, g)
  <2> SUFFICES ASSUME NEW g, NEW s \in SUBSET run, s # {}
               PROVE  ring[SlotOf(head + Member(s))].frames = f[Member(s)]
    BY DEF SumBody
  <2>1. Member(s) \in run
    BY DEF Member
  <2> HIDE DEF run, f
  <2> QED
    BY <1>1, <1>2, <2>1
<1>5. \A x \in run : f[x] \in Nat
  BY <1>1, <1>2
<1>6. PICK g : g = SumBody(f, run, g)
  <2> HIDE DEF run, f
  <2> QED
    BY <1>1, <1>5, SumFunExists
<1>7. fun = SumBody(f, run, fun)
  <2>1. g = body(g)
    BY <1>4, <1>6
  <2>2. fun = body(fun)
    BY <2>1
  <2> QED
    BY <1>4, <2>2
<1> HIDE DEF run, f, fun
<1>8. fun[run] = SumFun(f, run)[run]
  <2>1. SumFun(f, run) = SumBody(f, run, SumFun(f, run))
    BY <1>1, <1>5, SumFunIs
  <2> QED
    BY <1>1, <1>7, <2>1, SumBodyAgree
<1>9. ContiguousFrames(ring, head) = SumOf(f, run)
  BY <1>3, <1>8, SumIs
<1> QED
  BY <1>1, <1>2, <1>9 DEF run, f

\* While the playhead's packet is there the run is that packet and the run behind it.
LEMMA RunAfterLeaving ==
    ASSUME IInv, PlayheadLive, LeaveSlot
    PROVE  /\ ContiguousFrames(slots', next_play_seq') \in Nat
           /\ ContiguousFrames(slots, next_play_seq) =
                slots[SlotOf(next_play_seq)].frames
                  + IF next_play_seq = SEQ_MOD - 1 THEN 0
                    ELSE ContiguousFrames(slots', next_play_seq')
<1> DEFINE run == ContiguousRun(slots, next_play_seq)
           rest == ContiguousRun(slots', next_play_seq')
           f == FramesFrom(slots, next_play_seq)
           g == FramesFrom(slots', next_play_seq')
           k == SlotOf(next_play_seq)
<1>1. /\ slots \in [Indices -> [valid : BOOLEAN, seq : SeqNums, frames : Nat]]
      /\ slots' \in [Indices -> [valid : BOOLEAN, seq : SeqNums, frames : Nat]]
      /\ next_play_seq \in SeqNums /\ next_play_seq' \in SeqNums
      /\ next_play_seq' = SeqInc(next_play_seq)
  BY LeaveSlotRing DEF IInv, TypeOK, LeaveSlot
<1>2. /\ run \in SUBSET Indices /\ IsFiniteSet(run) /\ (\A i \in Indices : f[i] \in Nat)
      /\ ContiguousFrames(slots, next_play_seq) = SumOf(f, run)
      /\ rest \in SUBSET Indices /\ IsFiniteSet(rest) /\ (\A i \in Indices : g[i] \in Nat)
      /\ ContiguousFrames(slots', next_play_seq') = SumOf(g, rest)
  BY <1>1, ContiguousIsSum
<1>3. SumOf(g, rest) \in Nat
  <2> HIDE DEF g, rest
  <2> QED
    BY <1>2, SumRecursion
<1>4. 0 \in Indices /\ next_play_seq + 0 = next_play_seq
  BY <1>1, RingAssumption
<1>5. f[0] = slots[k].frames
  BY <1>4 DEF FramesFrom
<1>6. 0 \in run
  <2>1. \A j \in 0..0 : next_play_seq + j = next_play_seq
    BY <1>1, RingAssumption
  <2>2. next_play_seq < SEQ_MOD /\ Live(slots, next_play_seq)
    BY <1>1, RingAssumption DEF PlayheadLive
  <2> QED
    BY <1>4, <2>1, <2>2 DEF ContiguousRun
<1>7. SumOf(f, run) = f[0] + SumOf(f, run \ {0})
  <2> HIDE DEF f, run
  <2> QED
    BY <1>2, <1>6, SumRemove
<1>8. CASE next_play_seq = SEQ_MOD - 1
  <2>1. run \ {0} = {}
    <3> SUFFICES ASSUME NEW i \in run, i # 0 PROVE FALSE
      OBVIOUS
    <3>1. i \in Indices /\ next_play_seq + i < SEQ_MOD
      <4>1. i \in Indices /\ i \in 0..i
        BY <1>2, RingAssumption
      <4> QED
        BY <4>1 DEF ContiguousRun
    <3> QED
      BY <1>8, <3>1, RingAssumption
  <2>2. SumOf(f, run \ {0}) = 0
    <3>1. run \ {0} \in SUBSET run /\ (\A i \in run : f[i] \in Nat)
      BY <1>2
    <3> HIDE DEF f, run
    <3> QED
      BY <1>2, <2>1, <3>1, SumRecursion
  <2> QED
    BY <1>2, <1>3, <1>5, <1>7, <1>8, <2>2, <1>1
<1>9. CASE next_play_seq # SEQ_MOD - 1
  <2>1. next_play_seq' = next_play_seq + 1
    BY <1>1, <1>9 DEF SeqInc
  <2>2. slots' = [slots EXCEPT ![k] = EmptySlot] /\ k \in Indices
    BY <1>1, SlotInRange DEF LeaveSlot
  \* Emptying the playhead's slot takes no other packet.
  <2>3. ASSUME NEW j \in Nat, next_play_seq + 1 + j < SEQ_MOD
        PROVE  /\ Live(slots', next_play_seq' + j) <=> Live(slots, next_play_seq + (j + 1))
               /\ Live(slots, next_play_seq + (j + 1)) => j + 1 \in Indices
               /\ Live(slots, next_play_seq + (j + 1)) =>
                    slots'[SlotOf(next_play_seq' + j)] = slots[SlotOf(next_play_seq + (j + 1))]
    <3> DEFINE u == next_play_seq + (j + 1)
    <3>1. u \in SeqNums /\ next_play_seq' + j = u /\ SlotOf(u) \in Indices /\ u # next_play_seq
      <4>1. u \in SeqNums /\ next_play_seq' + j = u /\ u # next_play_seq
        BY <1>1, <2>1, <2>3, RingAssumption
      <4> QED
        BY <4>1, SlotInRange
    <3>2. Ahead(u, next_play_seq) = j + 1
      BY <1>1, <3>1 DEF Ahead
    <3> HIDE DEF u
    <3>3. ASSUME Live(slots, u)
          PROVE  j + 1 \in Indices /\ SlotOf(u) # k
      <4>1. Ahead(u, next_play_seq) < MAX_SLOTS
        BY <3>1, <3>3 DEF Live, IInv, WindowInv
      <4>2. Ahead(next_play_seq, next_play_seq) < MAX_SLOTS
        BY <1>1, AheadZero, RingAssumption
      <4>3. SlotOf(u) # k
        BY <1>1, <3>1, <4>1, <4>2, SlotUnique
      <4> QED
        BY <3>2, <4>1, <4>3, RingAssumption
    <3>4. SlotOf(u) # k => slots'[SlotOf(u)] = slots[SlotOf(u)]
      BY <2>2, <3>1, <1>1
    <3>5. SlotOf(u) = k => ~slots'[SlotOf(u)].valid
      BY <2>2, <1>1
    <3>6. Live(slots', u) <=> Live(slots, u)
      BY <3>3, <3>4, <3>5 DEF Live
    <3> QED
      BY <3>1, <3>3, <3>4, <3>6 DEF u
  <2>4. run \ {0} = {i + 1 : i \in rest}
    <3>1. ASSUME NEW i \in rest PROVE i + 1 \in run
      <4>1. i \in Indices /\ \A j \in 0..i : next_play_seq' + j < SEQ_MOD /\ Live(slots', next_play_seq' + j)
        BY DEF ContiguousRun
      <4>2. i \in Nat /\ i \in 0..i
        BY <4>1, RingAssumption
      <4>3. ASSUME NEW j \in 0..i
            PROVE  /\ next_play_seq + (j + 1) < SEQ_MOD /\ Live(slots, next_play_seq + (j + 1))
                   /\ j + 1 \in Indices
        <5>1. j \in Nat /\ next_play_seq + 1 + j < SEQ_MOD /\ Live(slots', next_play_seq' + j)
          <6>1. j \in Nat /\ j \in 0..i
            BY <4>2
          <6>2. next_play_seq' + j < SEQ_MOD /\ Live(slots', next_play_seq' + j)
            BY <4>1, <6>1
          <6>3. next_play_seq' = next_play_seq + 1
            BY <1>1, <2>1
          <6> QED
            BY <6>1, <6>2, <6>3
        <5> QED
          BY <1>1, <2>3, <5>1, RingAssumption
      <4>4. i + 1 \in Indices
        BY <4>2, <4>3
      <4>5. ASSUME NEW j \in 0..(i + 1)
            PROVE  next_play_seq + j < SEQ_MOD /\ Live(slots, next_play_seq + j)
        <5>1. CASE j = 0
          BY <1>1, <5>1, RingAssumption DEF PlayheadLive
        <5>2. CASE j # 0
          <6>1. j - 1 \in 0..i /\ (j - 1) + 1 = j
            BY <4>2, <5>2
          <6> QED
            BY <4>3, <6>1
        <5> QED
          BY <5>1, <5>2
      <4> QED
        BY <4>4, <4>5 DEF ContiguousRun
    <3>2. ASSUME NEW i \in run, i # 0 PROVE i - 1 \in rest
      <4>1. i \in Indices /\ \A j \in 0..i : next_play_seq + j < SEQ_MOD /\ Live(slots, next_play_seq + j)
        BY DEF ContiguousRun
      <4>2. i \in Nat \ {0} /\ i - 1 \in Indices
        BY <3>2, <4>1, RingAssumption
      <4>3. ASSUME NEW j \in 0..(i - 1)
            PROVE  next_play_seq' + j < SEQ_MOD /\ Live(slots', next_play_seq' + j)
        <5>1. j \in Nat /\ j + 1 \in 0..i
          BY <4>2
        <5>2. next_play_seq + (j + 1) < SEQ_MOD /\ Live(slots, next_play_seq + (j + 1))
          BY <4>1, <5>1
        <5>3. next_play_seq + 1 + j < SEQ_MOD /\ next_play_seq' + j < SEQ_MOD
          BY <1>1, <2>1, <5>1, <5>2, RingAssumption
        <5> QED
          BY <2>3, <5>1, <5>2, <5>3
      <4> QED
        BY <4>2, <4>3 DEF ContiguousRun
    <3>3. \A i \in rest : i \in Nat
      BY <1>2, RingAssumption
    <3>4. \A i \in run : i \in Nat
      BY <1>2, RingAssumption
    <3> HIDE DEF run, rest
    <3>5. ASSUME NEW i \in run, i # 0 PROVE i \in {x + 1 : x \in rest}
      <4>1. i - 1 \in rest /\ i = (i - 1) + 1
        BY <3>2, <3>4, <3>5
      <4> QED
        BY <4>1
    <3>6. ASSUME NEW i \in rest PROVE i + 1 \in run \ {0}
      BY <3>1, <3>3
    <3> QED
      BY <3>5, <3>6
  <2>5. \A i \in rest : g[i] = f[i + 1] /\ g[i] \in Nat
    <3> SUFFICES ASSUME NEW i \in rest PROVE g[i] = f[i + 1] /\ g[i] \in Nat
      OBVIOUS
    <3>1. i \in Indices /\ i + 1 \in Indices /\ i \in Nat
      <4>1. i + 1 \in run
        BY <2>4
      <4> HIDE DEF run, rest
      <4> QED
        BY <1>2, <4>1, RingAssumption
    <3>2. next_play_seq' + i < SEQ_MOD /\ Live(slots', next_play_seq' + i)
      <4>1. i \in 0..i
        BY <3>1
      <4> QED
        BY <4>1 DEF ContiguousRun
    <3>3. next_play_seq + 1 + i < SEQ_MOD
      BY <1>1, <2>1, <3>1, <3>2, RingAssumption
    <3>4. slots'[SlotOf(next_play_seq' + i)] = slots[SlotOf(next_play_seq + (i + 1))]
      BY <2>3, <3>1, <3>2, <3>3
    <3> QED
      BY <1>2, <3>1, <3>4 DEF FramesFrom
  <2>6. SumOf(f, {i + 1 : i \in rest}) = SumOf(g, rest)
    <3>1. rest \in SUBSET Nat
      BY <1>2, RingAssumption
    <3> HIDE DEF f, g, rest
    <3> QED
      BY <1>2, <2>5, <3>1, SumShift
  <2>7. SumOf(f, run) = f[0] + SumOf(g, rest)
    BY <1>7, <2>4, <2>6
  <2> HIDE DEF f, g, run, rest
  <2> QED
    BY <1>2, <1>3, <1>5, <1>9, <2>7
<1> QED
  BY <1>8, <1>9

\* The drain has something to shed, and everything it sheds is there.
DrainInv == pc = "drain" => to_drop > 0

\* The frames from the playhead on, of which its packet has some; none if it is missing.
LEMMA FramesType ==
    ASSUME IInv
    PROVE  /\ ContiguousFrames(slots, next_play_seq) \in Nat
           /\ PlayheadLive => /\ ContiguousFrames(slots, next_play_seq) >= slots[SlotOf(next_play_seq)].frames
                              /\ slots[SlotOf(next_play_seq)].frames \in Nat
           /\ ~PlayheadLive => ContiguousFrames(slots, next_play_seq) = 0 /\ slot_frame_offset = 0
           /\ slot_frame_offset \in Nat
<1> DEFINE run == ContiguousRun(slots, next_play_seq)
           f == FramesFrom(slots, next_play_seq)
<1>1. /\ slots \in [Indices -> [valid : BOOLEAN, seq : SeqNums, frames : Nat]]
      /\ next_play_seq \in SeqNums /\ slot_frame_offset \in Nat
  BY DEF IInv, TypeOK
<1>2. /\ run \in SUBSET Indices /\ IsFiniteSet(run) /\ (\A i \in Indices : f[i] \in Nat)
      /\ ContiguousFrames(slots, next_play_seq) = SumOf(f, run)
  BY <1>1, ContiguousIsSum
<1>3. /\ SumOf(f, run) \in Nat
      /\ run = {} => SumOf(f, run) = 0
      /\ \A i \in run : /\ SumOf(f, run) = f[i] + SumOf(f, run \ {i})
                        /\ SumOf(f, run \ {i}) \in Nat
  <2>1. \A i \in run : f[i] \in Nat
    BY <1>2
  <2>2. run \in SUBSET run /\ \A i \in run : run \ {i} \in SUBSET run
    OBVIOUS
  <2>a. IsFiniteSet(run)
    BY <1>2
  <2> HIDE DEF f, run
  <2>3. SumOf(f, run) \in Nat /\ (run = {} => SumOf(f, run) = 0)
    BY ONLY <2>a, <2>1, <2>2, SumRecursion
  <2>4. \A i \in run : SumOf(f, run \ {i}) \in Nat
    BY <1>2, <2>1, <2>2, SumRecursion
  <2>5. \A i \in run : SumOf(f, run) = f[i] + SumOf(f, run \ {i})
    BY <1>2, <2>1, SumRemove
  <2> QED
    BY <2>3, <2>4, <2>5
<1>4. 0 \in Indices /\ next_play_seq + 0 = next_play_seq
  BY <1>1, RingAssumption
<1>5. f[0] = slots[SlotOf(next_play_seq)].frames
  BY <1>4 DEF FramesFrom
<1>6. ASSUME PlayheadLive PROVE 0 \in run
  <2>1. \A j \in 0..0 : next_play_seq + j = next_play_seq
    BY <1>1, RingAssumption
  <2>2. next_play_seq < SEQ_MOD /\ Live(slots, next_play_seq)
    BY <1>1, <1>6, RingAssumption DEF PlayheadLive
  <2> QED
    BY <1>4, <2>1, <2>2 DEF ContiguousRun
<1>7. ASSUME ~PlayheadLive PROVE run = {}
  <2> SUFFICES ASSUME NEW i \in run PROVE FALSE
    OBVIOUS
  <2>1. i \in Nat /\ 0 \in 0..i
    BY <1>2, RingAssumption
  <2>2. Live(slots, next_play_seq + 0)
    BY <2>1 DEF ContiguousRun
  <2> QED
    BY <1>4, <1>7, <2>2 DEF PlayheadLive
<1>8. ~PlayheadLive => slot_frame_offset = 0
  BY <1>1 DEF IInv, OffsetInv, PlayheadLive
<1>9. PlayheadLive => SumOf(f, run) >= f[0] /\ f[0] \in Nat
  <2>1. PlayheadLive => /\ SumOf(f, run) = f[0] + SumOf(f, run \ {0})
                        /\ SumOf(f, run \ {0}) \in Nat
    BY <1>3, <1>6
  <2>2. f[0] \in Nat
    BY <1>2, <1>4
  <2> HIDE DEF f, run
  <2> QED
    BY <1>3, <2>1, <2>2
<1> HIDE DEF f, run
<1> QED
  BY <1>1, <1>2, <1>3, <1>5, <1>7, <1>8, <1>9

\* The offset is inside the first packet of the run, so the branch for a total below it
\* is never taken.
LEMMA AvailableIs ==
    ASSUME IInv
    PROVE  /\ available_frames = ContiguousFrames(slots, next_play_seq) - slot_frame_offset
           /\ available_frames \in Nat
<1> DEFINE total == ContiguousFrames(slots, next_play_seq)
<1>1. slot_frame_offset > 0 => slot_frame_offset < slots[SlotOf(next_play_seq)].frames /\ PlayheadLive
  BY DEF IInv, OffsetInv, PlayheadLive
<1>2. total \in Nat /\ slot_frame_offset \in Nat /\ total >= slot_frame_offset
  BY <1>1, FramesType
<1>3. available_frames = IF total >= slot_frame_offset THEN total - slot_frame_offset ELSE total
  BY DEF available_frames
<1> HIDE DEF total
<1>4. available_frames = total - slot_frame_offset /\ available_frames \in Nat
  BY <1>2, <1>3
<1> QED
  BY <1>4 DEF total

\* Every step keeps what a drain has left to shed buffered.
LEMMA DrainStep ==
    ASSUME IInv, IInv', DrainInv, DrainKeepsTarget, [Next]_vars
    PROVE  DrainInv' /\ DrainKeepsTarget'
<1>1. to_drop \in Nat /\ to_drop' \in Nat /\ target_buffer_frames \in Nat /\ DrainMargin \in Nat
  BY FramesAssumption, DrainAssumption DEF IInv, TypeOK
<1>2. CASE \E n \in PopSizes : PopStart(n)
  <2>1. UNCHANGED <<slots, next_play_seq, slot_frame_offset>>
    BY <1>2 DEF PopStart, ringVars
  <2>2. available_frames' = available_frames
    BY <2>1 DEF available_frames, ContiguousFrames, ContiguousRun, Live, SlotOf, MapThenSumSet, MapThenFoldSet
  <2>3. ASSUME pc' = "drain" PROVE DrainDue /\ to_drop' = DrainAmount
    <3>1. IF DrainDue THEN to_drop' = DrainAmount ELSE pc' = "play"
      BY <1>2 DEF PopStart
    <3> QED
      BY <2>3, <3>1
  <2>4. available_frames \in Nat
    BY AvailableIs
  <2>5. DrainDue => DrainAmount > 0 /\ available_frames >= DrainAmount + target_buffer_frames + DrainMargin
    <3> DEFINE chunk == IF LargeExcess THEN kDrainFastChunkFrames ELSE kDrainChunkFrames
               excess == available_frames - target_buffer_frames - DrainMargin
    <3>1. chunk \in Nat \ {0}
      BY DrainAssumption
    <3>2. DrainAmount = IF excess \in 0..chunk THEN excess ELSE chunk
      BY DEF DrainAmount
    <3>3. DrainDue => excess > 0
      BY <1>1, <2>4 DEF DrainDue
    <3> HIDE DEF chunk
    <3> QED
      BY <1>1, <2>4, <3>1, <3>2, <3>3
  <2> QED
    BY <2>2, <2>3, <2>5 DEF DrainInv, DrainKeepsTarget
<1>3. CASE DrainPast
  <2>1. pc = "drain" /\ ~(PlayheadLive /\ to_drop < Remaining) /\ LeaveSlot
    BY <1>3 DEF DrainPast
  <2>2. to_drop > 0 /\ available_frames >= to_drop + target_buffer_frames + DrainMargin
    BY <2>1 DEF DrainInv, DrainKeepsTarget
  <2>3. PlayheadLive
    BY <1>1, <2>2, AvailableIs, FramesType
  <2>4. Remaining \in Nat \ {0} /\ Remaining = slots[SlotOf(next_play_seq)].frames - slot_frame_offset
    BY <2>3, RemainingPositive DEF Remaining
  <2>5. to_drop' = to_drop - Remaining /\ (pc' = "drain" => to_drop' # 0)
    BY <1>3, <2>3 DEF DrainPast
  <2>6. available_frames' = ContiguousFrames(slots', next_play_seq') /\ available_frames' \in Nat
    <3>1. slot_frame_offset' = 0
      BY <2>1 DEF LeaveSlot
    <3>2. available_frames' = (IF ContiguousFrames(slots', next_play_seq') >= slot_frame_offset'
                               THEN ContiguousFrames(slots', next_play_seq') - slot_frame_offset'
                               ELSE ContiguousFrames(slots', next_play_seq'))
      BY DEF available_frames
    <3>3. ContiguousFrames(slots', next_play_seq') \in Nat
      BY <2>1, <2>3, RunAfterLeaving
    <3> QED
      BY <3>1, <3>2, <3>3
  <2>7. available_frames = Remaining + IF next_play_seq = SEQ_MOD - 1 THEN 0 ELSE available_frames'
    <3>1. available_frames = ContiguousFrames(slots, next_play_seq) - slot_frame_offset
      BY AvailableIs
    <3>2. ContiguousFrames(slots, next_play_seq) =
            slots[SlotOf(next_play_seq)].frames
              + IF next_play_seq = SEQ_MOD - 1 THEN 0 ELSE available_frames'
      BY <2>1, <2>3, <2>6, RunAfterLeaving
    <3>3. slots[SlotOf(next_play_seq)].frames \in Nat /\ slot_frame_offset \in Nat
      BY <2>3, FramesType
    <3> QED
      BY <2>4, <2>6, <3>1, <3>2, <3>3
  <2>8. to_drop >= Remaining
    BY <1>1, <2>1, <2>3, <2>4
  <2>9. ASSUME pc' = "drain" PROVE to_drop' > 0 /\ available_frames' >= to_drop' + target_buffer_frames + DrainMargin
    BY <1>1, <2>2, <2>4, <2>5, <2>6, <2>7, <2>8, <2>9
  <2> QED
    BY <2>9 DEF DrainInv, DrainKeepsTarget
<1>4. CASE DrainWithin \/ PlayWithin \/ PlayPast \/ PlayConceal \/ PlayDry
  <2>1. pc' # "drain"
    BY <1>4 DEF DrainWithin, PlayWithin, PlayPast, PlayConceal, PlayDry, Deliver
  <2> QED
    BY <2>1 DEF DrainInv, DrainKeepsTarget
<1>5. CASE Push \/ PopSilence \/ Tick
  <2>1. pc' = "idle"
    BY <1>5 DEF Push, PushDropped, PushStored, PopSilence, Tick, vars, popVars
  <2> QED
    BY <2>1 DEF DrainInv, DrainKeepsTarget
<1>6. CASE UNCHANGED vars
  <2>1. UNCHANGED <<pc, to_drop, slots, next_play_seq, slot_frame_offset>>
    BY <1>6 DEF vars, popVars, ringVars
  <2>2. available_frames' = available_frames
    BY <2>1 DEF available_frames, ContiguousFrames, ContiguousRun, Live, SlotOf, MapThenSumSet, MapThenFoldSet
  <2> QED
    BY <2>1, <2>2 DEF DrainInv, DrainKeepsTarget
<1> QED
  BY <1>2, <1>3, <1>4, <1>5, <1>6 DEF Next, Pop, PopStep

\* So it is in every state.
LEMMA SpecDrain == Spec => [](DrainInv /\ DrainKeepsTarget)
<1>1. Init => DrainInv /\ DrainKeepsTarget
  BY DEF Init, DrainInv, DrainKeepsTarget
<1> QED
  BY <1>1, DrainStep, SpecIInv, PTL DEF Spec

\* advance_playhead_locked sheds frames of packets that are there without a hole, and
\* leaves the target and the margin: whatever arrived in whatever order.
THEOREM DrainLeavesTarget == Spec => []DrainKeepsTarget
  BY SpecDrain, PTL

-----------------------------------------------------------------------------
(* The path of the sound (AudioPath).  The buffer inside it behaves as the *)
(* one above, so that what holds for every order of arrivals holds for the *)
(* packets of this server through this network.                            *)

\* A packet: its number, how many were made up to it, and its session.
Packets == [seq : SeqNums, id : Nat, born : Nat]

\* Every packet on its way has a sequence number, and the callback cuts a packet off
\* the chunk buffer only when it holds one.  (The flags need no type.)
PathTypes ==
    /\ chunk_buffer \in Seq(Nat) /\ net \in Seq(Packets) /\ packet \in Packets
    /\ source \in {"server", "any"}
    /\ session \in Nat /\ faults \in Nat /\ refused \in Nat /\ last_played \in Nat
    /\ sequence_number \in SeqNums
    /\ net_pc \in {"idle", "accepted", "numbered", "cleared"}
    /\ capture_pc \in {"out", "entered", "chunking", "sending"}
    /\ capture_pc = "chunking" => Len(chunk_buffer) >= frames_per_packet
    /\ content \in [Indices -> Nat]

\* What leaves the network is a packet.
LEMMA ReceivedIsPacket ==
    ASSUME net \in Seq(Packets)
    PROVE  /\ net # <<>> => Head(net) \in Packets /\ Tail(net) \in Seq(Packets)
           /\ Len(net) > 1 => net[2] \in Packets /\ RemoveAt(net, 2) \in Seq(Packets)
<1>1. net # <<>> => Head(net) \in Packets /\ Tail(net) \in Seq(Packets)
  OBVIOUS
<1>2. Len(net) > 1 => net[2] \in Packets /\ RemoveAt(net, 2) \in Seq(Packets)
  <2> SUFFICES ASSUME Len(net) > 1
               PROVE  net[2] \in Packets /\ RemoveAt(net, 2) \in Seq(Packets)
    OBVIOUS
  <2>1. Len(net) \in Nat /\ net[2] \in Packets
    OBVIOUS
  <2>2. SubSeq(net, 1, 2 - 1) \in Seq(Packets)
    BY <2>1
  <2>3. SubSeq(net, 2 + 1, Len(net)) \in Seq(Packets)
    BY <2>1
  <2> QED
    BY <2>1, <2>2, <2>3 DEF RemoveAt
<1> QED
  BY <1>1, <1>2

\* What happens to the jitter buffer is one of its own steps.
LEMMA BufferStep ==
    ASSUME PathTypes, [PathNext]_pathVars
    PROVE  [Next]_vars
<1>1. ASSUME NEW p \in Packets, PushReceived(p)
      PROVE  Push
  <2>1. p.seq \in SeqNums /\ frames_per_packet \in FrameCounts
    BY PathAssumption DEF Packets, PathAssumption
  <2> QED
    BY <1>1, <2>1 DEF PushReceived, Push
<1>2. CASE Receive
  BY <1>1, <1>2, ReceivedIsPacket DEF Receive, PathTypes, Next
<1>3. CASE ReceiveOvertaking
  BY <1>1, <1>3, ReceivedIsPacket DEF ReceiveOvertaking, PathTypes, Next
<1>4. CASE PlayAsks
  BY <1>4, PathAssumption DEF PathAssumption, PlayAsks, Pop, Next
<1>5. CASE ReceiveAny \/ Play
  BY <1>5 DEF ReceiveAny, Play, Next
<1>6. CASE SessionStep \/ CaptureStep \/ Lose \/ UNCHANGED pathVars
  BY <1>6 DEF SessionStep, CaptureStep, Lose, pathVars
<1> QED
  BY <1>2, <1>3, <1>4, <1>5, <1>6 DEF PathNext
-----------------------------------------------------------------------------
(* The types                                                               *)

\* Every session starts with a sequence number.
LEMMA FirstNumber == 0 \in SeqNums
  BY RingAssumption

\* handle_connect_req and disconnect_client.
LEMMA SessionTypes ==
    ASSUME PathTypes, SessionStep
    PROVE  PathTypes'
<1>1. /\ UNCHANGED <<source, faults, refused, last_played, chunk_buffer, capture_pc, packet,
                     net, content>>
      /\ sequence_number' \in {sequence_number, 0}
      /\ session' \in {session, session + 1}
      /\ net_pc' \in {"idle", "accepted", "numbered", "cleared"}
  BY DEF SessionStep, ConnectAccept, ConnectReset, CaptureRefused, ConnectStream,
     DisconnectClear, DisconnectListen, netVars, heardVars
<1> QED
  BY <1>1, FirstNumber DEF PathTypes

\* on_audio_captured.
LEMMA CaptureTypes ==
    ASSUME PathTypes, CaptureStep
    PROVE  PathTypes'
<1> USE DEF PathTypes
<1>1. UNCHANGED <<source, streaming, active_client, net_pc, session, refused, last_played,
                  content>>
  BY DEF CaptureStep, heardVars
<1>2. CASE CaptureEnter
  BY <1>1, <1>2 DEF CaptureEnter, netVars
<1>3. CASE CaptureAppend
  <2>1. [i \in 1..CaptureFrames |-> session] \in Seq(Nat)
    <3>1. CaptureFrames \in Nat /\ session \in Nat
      BY PathAssumption
    <3> QED
      BY ONLY <3>1
  <2>2. \A x \in Seq(Nat) : chunk_buffer \o x \in Seq(Nat)
    OBVIOUS
  <2>3. chunk_buffer' \in Seq(Nat)
    BY <1>3, <2>1, <2>2 DEF CaptureAppend
  <2> QED
    BY <1>1, <1>3, <2>3 DEF CaptureAppend, AfterChunking, netVars
<1>4. CASE PacketTake
  <2>1. Len(chunk_buffer) >= frames_per_packet /\ frames_per_packet \in Nat \ {0}
    BY <1>4, FramesAssumption DEF PacketTake
  <2>2. Head(chunk_buffer) \in Nat
    BY <2>1
  <2>3. SubSeq(chunk_buffer, frames_per_packet + 1, Len(chunk_buffer)) \in Seq(Nat)
    BY <2>1
  <2>4. packet' \in Packets
    BY <1>4, <2>2, SMTT(30) DEF PacketTake, Packets
  <2> QED
    BY <1>1, <1>4, <2>3, <2>4, SeqIncType DEF PacketTake, netVars
<1>5. CASE PacketSend
  <2>1. Append(net, packet) \in Seq(Packets)
    OBVIOUS
  <2>2. /\ UNCHANGED <<chunk_buffer, sequence_number, packet>>
        /\ \/ net' = Append(net, packet) /\ faults' = faults
           \/ net' = net /\ faults' = faults + 1
        /\ capture_pc' = AfterChunking
    BY <1>5 DEF PacketSend
  <2>3. net' \in Seq(Packets)
    BY <2>1, <2>2, Zenon
  <2> QED
    BY <1>1, <2>2, <2>3 DEF AfterChunking
<1> QED
  BY <1>2, <1>3, <1>4, <1>5 DEF CaptureStep

\* The network and the client's threads.
LEMMA ClientTypes ==
    ASSUME TypeOK, PathTypes,
           Lose \/ Receive \/ ReceiveOvertaking \/ ReceiveAny \/ Play \/ PlayAsks
    PROVE  PathTypes'
<1> USE DEF PathTypes
<1>1. UNCHANGED <<source, serverVars>>
  BY DEF Lose, Receive, ReceiveOvertaking, ReceiveAny, Play, PlayAsks
<1>2. ASSUME NEW p \in Packets, PushReceived(p)
      PROVE  content' \in [Indices -> Nat] /\ refused' \in Nat /\ last_played' \in Nat
  <2>1. [content EXCEPT ![SlotOf(p.seq)] = p.id] \in [Indices -> Nat]
    BY DEF Packets
  <2>2. \A new \in [Indices -> Nat] : ContentWith(new) \in [Indices -> Nat]
    BY DEF ContentWith
  <2>3. content' \in [Indices -> Nat]
    BY <1>2, <2>1, <2>2, Zenon DEF PushReceived
  <2>4. refused' \in {refused + 1, 0} /\ last_played' = last_played
    BY <1>2 DEF PushReceived
  <2> QED
    BY <2>3, <2>4
<1>3. CASE Lose
  BY <1>1, <1>3, ReceivedIsPacket DEF Lose, serverVars, heardVars
<1>4. CASE Receive
  BY <1>1, <1>2, <1>4, ReceivedIsPacket DEF Receive, serverVars
<1>5. CASE ReceiveOvertaking
  BY <1>1, <1>2, <1>5, ReceivedIsPacket DEF ReceiveOvertaking, serverVars
<1>6. CASE ReceiveAny \/ PlayAsks
  BY <1>1, <1>6 DEF ReceiveAny, PlayAsks, serverVars, netVars, heardVars
<1>7. CASE Play
  <2>1. content[SlotOf(next_play_seq)] \in Nat
    BY SlotInRange DEF TypeOK
  <2>2. content' \in [Indices -> Nat] /\ last_played' \in Nat
    BY <1>7, <2>1 DEF Play, ContentWith
  <2> QED
    BY <1>1, <1>7, <2>2 DEF Play, serverVars, netVars
<1> QED
  BY <1>3, <1>4, <1>5, <1>6, <1>7

\* The jitter buffer inside the path keeps its invariant.
LEMMA PathInvariant == PathSpec => [](IInv /\ PathTypes)
<1>1. PathInit => IInv /\ PathTypes
  <2>1. NoPacket \in Packets /\ <<>> \in Seq(Packets) /\ <<>> \in Seq(Nat)
    BY FirstNumber DEF NoPacket, Packets
  <2>2. PathInit => PathTypes
    BY <2>1, FirstNumber DEF PathInit, PathTypes
  <2> QED
    BY <2>2, InitIInv DEF PathInit
<1>2. IInv /\ PathTypes /\ [PathNext]_pathVars => (IInv /\ PathTypes)'
  <2> SUFFICES ASSUME IInv, PathTypes, [PathNext]_pathVars
               PROVE  IInv' /\ PathTypes'
    OBVIOUS
  <2>1. IInv'
    BY BufferStep, NextIInv
  <2>2. CASE UNCHANGED pathVars
    BY <2>1, <2>2 DEF pathVars, serverVars, netVars, heardVars, PathTypes
  <2> QED
    BY <2>1, <2>2, SessionTypes, CaptureTypes, ClientTypes DEF PathNext, IInv
<1> QED
  BY <1>1, <1>2, PTL DEF PathSpec

-----------------------------------------------------------------------------
(* The theorems                                                            *)

\* Whatever the server's threads and the network do, the client's jitter buffer sees
\* only pushes and pops as JitterBuffer allows them: AudioPath implements JitterBuffer.
THEOREM PathImplementsBuffer == PathSpec => Spec
<1>1. PathInit => Init
  BY DEF PathInit
<1>2. PathTypes /\ [PathNext]_pathVars => [Next]_vars
  BY BufferStep
<1> QED
  BY <1>1, <1>2, PathInvariant, PTL DEF PathSpec, Spec

\* So the packets of a real server, in sessions that restart the numbers and through a
\* network that loses and reorders, stay in their slots and in the window, the offset
\* stays inside the packet at the playhead, and a drain leaves the target buffered.
THEOREM PathBufferCorrect == PathSpec => [](WindowInv /\ OffsetInv /\ DrainKeepsTarget)
  BY PathImplementsBuffer, WindowCorrect, OffsetCorrect, DrainLeavesTarget, PTL

\* And no waiting packet of such a session is overwritten, and none is stranded when
\* playback runs dry.
THEOREM PathLosesNothing == PathSpec => NoLiveOverwrite /\ DryMeansEmpty
  BY PathImplementsBuffer, LiveNotOverwritten, DryOnlyWhenEmpty, PTL

-----------------------------------------------------------------------------
(* The order of playing.  The packets held and the packets to come, those  *)
(* in flight and the next one the callback makes, are taken together.  In  *)
(* one session the playhead stands for an id, with which a number's        *)
(* distance is an id's as long as the faults cannot bring them MAX_SLOTS   *)
(* apart (InStep).  Over several sessions nothing may be lost; then the    *)
(* arriving numbers go up by one or restart at 0, and what is held has     *)
(* holes only between the last number of one session and the 0 of the      *)
(* next, where nothing that is still to come falls in (InOrder).           *)

\* The packets held: their ids, by sequence number.
HeldIds == [u \in {s \in SeqNums : Live(slots, s)} |-> content[SlotOf(u)]]

\* The packets to come, in the order they were made: those in flight, and the one that
\* is being sent or will be made next.
NextMade == IF capture_pc = "sending" THEN [seq |-> packet.seq, id |-> packet.id]
                                      ELSE [seq |-> sequence_number, id |-> packet.id + 1]

Count == Len(net) + 1

Coming == [i \in 1..Count |-> IF i < Count THEN [seq |-> net[i].seq, id |-> net[i].id]
                                           ELSE NextMade]

\* Ids only grow, and of f packets lost or overtaken each leaves a gap of one.
Growing(c, n, f) ==
    \A i, j \in 1..n : i < j => c[i].id < c[j].id /\ c[j].id <= c[i].id + (j - i) + f

\* In the first session a packet's number is its id less one, wrapped.
Numbered(c, n) == \A i \in 1..n : c[i].id > 0 /\ c[i].seq = (c[i].id - 1) % SEQ_MOD

\* The playhead stands for the id H: what is held is as far ahead in ids as in numbers,
\* and what is to come is close enough for its number to mean its id.
InStep(v, head, last, c, n, f, H) ==
    /\ head = (H - 1) % SEQ_MOD
    /\ last <= H /\ H <= c[n].id
    /\ \A u \in DOMAIN v : v[u] = H + Ahead(u, head) /\ v[u] < c[n].id
    /\ H <= c[1].id + f + 1 /\ \A u \in DOMAIN v : v[u] <= c[1].id + f
    /\ \A i \in 2..n : H <= c[i].id /\ \A u \in DOMAIN v : v[u] < c[i].id
    /\ \A i \in 1..n : c[i].id <= H + MAX_SLOTS + f + (i - 1)

\* A number is followed by the next one, or by 0 when a session began.
Chained(c, n) == \A i \in 1..(n - 1) : c[i + 1].seq \in {SeqInc(c[i].seq), 0}

\* Numbers missing in front of one that is held.
Holes(v, head) ==
    {u \in SeqNums \ DOMAIN v : \E t \in DOMAIN v : Ahead(u, head) < Ahead(t, head)}

\* A number that a new session, which counts from 0, is past.
BeforeZero(u, head) ==
    Ahead(u, head) < Ahead(0, head) /\ Ahead(0, head) <= SEQ_MOD - MAX_SLOTS

\* What is held is in the order it was made, with holes only where numbers were
\* restarted.
Sorted(v, head) ==
    /\ \A u \in Holes(v, head) : BeforeZero(u, head)
    /\ \A t, u \in DOMAIN v : Ahead(t, head) < Ahead(u, head) => v[t] < v[u]

\* The number s comes after the holes; and it fills the ring on, or is so far from all
\* that is held that it is late or a reason to resync.
Fits(v, head, s) ==
    /\ \A u \in Holes(v, head) : /\ Ahead(u, head) < Ahead(s, head)
                                 /\ Ahead(s, head) <= SEQ_MOD - MAX_SLOTS
    /\ \/ /\ Ahead(s, head) <= MAX_SLOTS
          /\ \A u \in SeqNums \ DOMAIN v : Ahead(u, head) < Ahead(s, head) => BeforeZero(u, head)
       \/ /\ Ahead(s, head) >= MAX_SLOTS
          /\ \A t \in DOMAIN v : Ahead(s, head) >= Ahead(t, head) + MAX_SLOTS + 1

\* Without loss: what is held is sorted, the next packet to arrive fits behind it or is the
\* first of a session, and what was played is older than all of these.
InOrder(v, head, last, c, n) ==
    /\ Sorted(v, head)
    /\ c[1].seq = 0 \/ Fits(v, head, c[1].seq)
    /\ last <= c[1].id
    /\ \A u \in DOMAIN v : last <= v[u] /\ v[u] < c[1].id

\* Before the first CONNECT_REQ is through nothing is made.
StartInv ==
    /\ source = "any" => session = 0
    /\ session = 0 => net_pc = "idle"
    /\ session = 0 \/ (session = 1 /\ net_pc \in {"accepted", "numbered"}) =>
          /\ ~streaming /\ capture_pc = "out"
          /\ net = <<>> /\ packet.id = 0 /\ sequence_number = 0
          /\ last_played = 0 /\ \A i \in Indices : content[i] = 0
    /\ ~has_first_packet => last_played = 0

\* Of the packets to come.
ComingInv ==
    /\ Growing(Coming, Count, faults)
    /\ session <= 1 => /\ Numbered(Coming, Count)
                       /\ capture_pc = "sending" => sequence_number = packet.id % SEQ_MOD
    /\ faults = 0 => /\ Chained(Coming, Count)
                     /\ capture_pc = "sending" => sequence_number \in {SeqInc(packet.seq), 0}

\* Of the packets to come with those held: the ids stand in step with the numbers while one
\* session is heard, and in order while nothing is lost.
HeardInv ==
    source = "server" /\ has_first_packet =>
      /\ session <= 1 /\ faults < MAX_SLOTS - 1 =>
           \E H \in 1..Coming[Count].id :
              InStep(HeldIds, next_play_seq, last_played, Coming, Count, faults, H)
      /\ faults = 0 => InOrder(HeldIds, next_play_seq, last_played, Coming, Count)

\* The numbers go round the ring three times at least.
LEMMA ThreeRings ==
    MAX_SLOTS \in Nat \ {0} /\ SEQ_MOD \in Nat /\ SEQ_MOD >= 3 * MAX_SLOTS
<1> DEFINE q == SEQ_MOD \div MAX_SLOTS
<1>1. q \in Int /\ SEQ_MOD = MAX_SLOTS * q
  BY DivMod, RingAssumption
<1> HIDE DEF q
<1>2. CASE q >= 3
  <2>1. PICK r \in Nat : q = r + 3
    BY <1>1, <1>2
  <2>2. MAX_SLOTS * q = MAX_SLOTS * r + 3 * MAX_SLOTS /\ MAX_SLOTS * r >= 0
    BY <2>1, RingAssumption
  <2> QED
    BY <1>1, <2>2, RingAssumption
<1>3. CASE q < 3
  <2>1. PICK r \in Nat : q = 2 - r
    BY <1>1, <1>3
  <2>2. MAX_SLOTS * q = 2 * MAX_SLOTS - MAX_SLOTS * r /\ MAX_SLOTS * r >= 0
    BY <2>1, RingAssumption
  <2> QED
    BY <1>1, <2>2, RingAssumption
<1> QED
  BY <1>1, <1>2, <1>3

\* Distances from a playhead tell numbers apart, and grow by one from number to number.
LEMMA Distances ==
    ASSUME NEW head \in SeqNums, NEW s \in SeqNums
    PROVE  /\ Ahead(s, head) \in 0..(SEQ_MOD - 1)
           /\ Ahead(head, head) = 0
           /\ \A t \in SeqNums : Ahead(t, head) = Ahead(s, head) => t = s
           /\ SeqInc(s) \in SeqNums
           /\ Ahead(SeqInc(s), head) = IF Ahead(s, head) = SEQ_MOD - 1 THEN 0 ELSE Ahead(s, head) + 1
BY RingAssumption DEF Ahead, SeqInc

\* When the playhead moves on, what it was at is as far away as can be.
LEMMA DistancesInc ==
    ASSUME NEW head \in SeqNums, NEW s \in SeqNums
    PROVE  Ahead(s, SeqInc(head)) = IF s = head THEN SEQ_MOD - 1 ELSE Ahead(s, head) - 1
BY RingAssumption DEF Ahead, SeqInc

-----------------------------------------------------------------------------
\* The playhead leaves a slot of a ring that holds something.
LEMMA OrderLeave ==
    ASSUME NEW head \in SeqNums, NEW v, NEW w,
           DOMAIN v \in SUBSET SeqNums, DOMAIN v # {},
           \A u \in DOMAIN v : v[u] \in Nat /\ Ahead(u, head) < MAX_SLOTS,
           DOMAIN w = DOMAIN v \ {head}, \A u \in DOMAIN w : w[u] = v[u],
           Sorted(v, head)
    PROVE  /\ Sorted(w, SeqInc(head))
           /\ \A s \in SeqNums : Fits(v, head, s) => Fits(w, SeqInc(head), s)
<1> DEFINE next == SeqInc(head)
<1>1. /\ next \in SeqNums /\ 0 \in SeqNums
      /\ \A u \in SeqNums : /\ Ahead(u, head) \in 0..(SEQ_MOD - 1)
                            /\ Ahead(u, next) = IF u = head THEN SEQ_MOD - 1 ELSE Ahead(u, head) - 1
                            /\ Ahead(u, head) = 0 <=> u = head
  <2>1. next \in SeqNums /\ 0 \in SeqNums /\ Ahead(head, head) = 0
    BY Distances, FirstNumber
  <2>2. ASSUME NEW u \in SeqNums
        PROVE  /\ Ahead(u, head) \in 0..(SEQ_MOD - 1)
               /\ Ahead(u, next) = IF u = head THEN SEQ_MOD - 1 ELSE Ahead(u, head) - 1
               /\ Ahead(u, head) = 0 <=> u = head
    BY AheadZero, DistancesInc
  <2> QED
    BY <2>1, <2>2
<1> HIDE DEF next
<1>2. ASSUME NEW u \in SeqNums, u # head, BeforeZero(u, head)
      PROVE  BeforeZero(u, next)
  BY <1>1, <1>2, ThreeRings DEF BeforeZero
<1>3. ASSUME NEW u \in Holes(w, next)
      PROVE  u \in SeqNums /\ u # head /\ u \in Holes(v, head)
  <2>1. u \in SeqNums /\ u \notin DOMAIN w
    BY DEF Holes
  <2>2. PICK t \in DOMAIN w : Ahead(u, next) < Ahead(t, next)
    BY DEF Holes
  <2>3. t \in SeqNums /\ t # head /\ t \in DOMAIN v
    OBVIOUS
  <2>4. u # head
    BY <1>1, <2>1, <2>2, <2>3, ThreeRings
  <2>5. Ahead(u, head) < Ahead(t, head)
    BY <1>1, <2>1, <2>2, <2>3, <2>4, ThreeRings
  <2> QED
    BY <2>1, <2>3, <2>4, <2>5 DEF Holes
<1>4. Sorted(w, next)
  <2>1. \A u \in Holes(w, next) : BeforeZero(u, next)
    BY <1>2, <1>3 DEF Sorted
  <2>2. ASSUME NEW t \in DOMAIN w, NEW u \in DOMAIN w, Ahead(t, next) < Ahead(u, next)
        PROVE  w[t] < w[u]
    <3>1. t \in SeqNums /\ u \in SeqNums /\ t # head /\ u # head /\ t \in DOMAIN v /\ u \in DOMAIN v
      OBVIOUS
    <3>2. Ahead(t, head) < Ahead(u, head)
      BY <1>1, <2>2, <3>1, ThreeRings
    <3> QED
      BY <3>1, <3>2 DEF Sorted
  <2> QED
    BY <2>1, <2>2 DEF Sorted
<1>5. ASSUME NEW s \in SeqNums, Fits(v, head, s)
      PROVE  Fits(w, next, s)
  <2>1. CASE s = head
    <3>1. Holes(v, head) = {}
      <4> SUFFICES ASSUME NEW u \in Holes(v, head) PROVE FALSE
        OBVIOUS
      <4>1. u \in SeqNums /\ Ahead(u, head) < Ahead(s, head)
        BY <1>5 DEF Fits, Holes
      <4> QED
        BY <1>1, <2>1, <4>1, ThreeRings
    <3>2. Holes(w, next) = {}
      BY <1>3, <3>1
    <3>3. \A t \in DOMAIN w : Ahead(s, next) >= Ahead(t, next) + MAX_SLOTS + 1
      <4> SUFFICES ASSUME NEW t \in DOMAIN w PROVE Ahead(s, next) >= Ahead(t, next) + MAX_SLOTS + 1
        OBVIOUS
      <4>1. t \in DOMAIN v /\ t \in SeqNums /\ t # head /\ Ahead(t, head) < MAX_SLOTS
        OBVIOUS
      <4> QED
        BY <1>1, <2>1, <4>1, ThreeRings
    <3>4. Ahead(s, next) >= MAX_SLOTS
      BY <1>1, <2>1, ThreeRings
    <3> QED
      BY <3>2, <3>3, <3>4 DEF Fits
  <2>2. CASE s # head
    <3>1. ASSUME NEW u \in Holes(w, next)
          PROVE  Ahead(u, next) < Ahead(s, next) /\ Ahead(s, next) <= SEQ_MOD - MAX_SLOTS
      <4>1. u \in SeqNums /\ u # head /\ Ahead(u, head) < Ahead(s, head) /\ Ahead(s, head) <= SEQ_MOD - MAX_SLOTS
        BY <1>3, <1>5 DEF Fits
      <4> QED
        BY <1>1, <2>2, <4>1, ThreeRings
    <3>2. ASSUME Ahead(s, head) <= MAX_SLOTS,
                 \A u \in SeqNums \ DOMAIN v : Ahead(u, head) < Ahead(s, head) => BeforeZero(u, head)
          PROVE  /\ Ahead(s, next) <= MAX_SLOTS
                 /\ \A u \in SeqNums \ DOMAIN w : Ahead(u, next) < Ahead(s, next) => BeforeZero(u, next)
      <4>1. Ahead(s, next) <= MAX_SLOTS
        BY <1>1, <2>2, <3>2, ThreeRings
      <4>2. ASSUME NEW u \in SeqNums \ DOMAIN w, Ahead(u, next) < Ahead(s, next)
            PROVE  BeforeZero(u, next)
        <5>1. u # head
          BY <1>1, <2>2, <4>2, ThreeRings
        <5>2. u \notin DOMAIN v /\ Ahead(u, head) < Ahead(s, head)
          BY <1>1, <2>2, <4>2, <5>1, ThreeRings
        <5> QED
          BY <1>2, <3>2, <5>1, <5>2
      <4> QED
        BY <4>1, <4>2
    <3>3. ASSUME Ahead(s, head) >= MAX_SLOTS,
                 \A t \in DOMAIN v : Ahead(s, head) >= Ahead(t, head) + MAX_SLOTS + 1
          PROVE  /\ Ahead(s, next) >= MAX_SLOTS
                 /\ \A t \in DOMAIN w : Ahead(s, next) >= Ahead(t, next) + MAX_SLOTS + 1
      <4>1. PICK x \in DOMAIN v : TRUE
        OBVIOUS
      <4>2. Ahead(s, next) >= MAX_SLOTS
        BY <1>1, <2>2, <3>3, <4>1, ThreeRings
      <4>3. ASSUME NEW t \in DOMAIN w PROVE Ahead(s, next) >= Ahead(t, next) + MAX_SLOTS + 1
        <5>1. t \in DOMAIN v /\ t \in SeqNums /\ t # head
          OBVIOUS
        <5> QED
          BY <1>1, <2>2, <3>3, <5>1, ThreeRings
      <4> QED
        BY <4>2, <4>3
    <3>4. Fits(w, next, s)
      BY <1>5, <3>1, <3>2, <3>3 DEF Fits
    <3> QED
      BY <3>4
  <2> QED
    BY <2>1, <2>2
<1> QED
  BY <1>4, <1>5 DEF next

\* A packet that is late or held already: the next number fits as this one did.
LEMMA OrderKept ==
    ASSUME NEW head \in SeqNums, NEW v, NEW s \in SeqNums,
           DOMAIN v \in SUBSET SeqNums,
           \A u \in DOMAIN v : Ahead(u, head) < MAX_SLOTS,
           Sorted(v, head), s = 0 \/ Fits(v, head, s),
           s \in DOMAIN v \/ Ahead(s, head) > SEQ_MOD - MAX_SLOTS
    PROVE  SeqInc(s) = 0 \/ Fits(v, head, SeqInc(s))
<1> DEFINE n == SeqInc(s)
<1>1. /\ n \in SeqNums /\ 0 \in SeqNums /\ Ahead(n, head) = IF Ahead(s, head) = SEQ_MOD - 1 THEN 0 ELSE Ahead(s, head) + 1
      /\ \A u \in SeqNums : /\ Ahead(u, head) \in 0..(SEQ_MOD - 1)
                            /\ Ahead(u, head) = Ahead(s, head) => u = s
  BY Distances, FirstNumber
<1> HIDE DEF n
<1>2. ASSUME NEW u \in Holes(v, head)
      PROVE  u \in SeqNums /\ Ahead(u, head) < Ahead(s, head) /\ Ahead(s, head) <= SEQ_MOD - MAX_SLOTS
  <2>1. u \in SeqNums
    BY DEF Holes
  <2>2. BeforeZero(u, head)
    BY DEF Sorted
  <2> QED
    BY <2>1, <2>2 DEF Fits, BeforeZero
<1>3. CASE Ahead(s, head) > SEQ_MOD - MAX_SLOTS
  <2>1. Holes(v, head) = {}
    BY <1>1, <1>2, <1>3, ThreeRings
  <2>2. CASE Ahead(s, head) = SEQ_MOD - 1
    <3>1. Ahead(n, head) = 0
      BY <1>1, <2>2
    <3>2. \A u \in SeqNums : ~(Ahead(u, head) < 0)
      BY <1>1, ThreeRings
    <3> QED
      BY <2>1, <3>1, <3>2, ThreeRings DEF Fits, n
  <2>3. CASE Ahead(s, head) # SEQ_MOD - 1
    <3>1. Ahead(n, head) >= 2 * MAX_SLOTS + 2 /\ Ahead(n, head) \in Int
      BY <1>1, <1>3, <2>3, ThreeRings
    <3>2. \A t \in DOMAIN v : Ahead(n, head) >= Ahead(t, head) + MAX_SLOTS + 1
      BY <1>1, <3>1, ThreeRings
    <3>3. Ahead(n, head) >= MAX_SLOTS
      BY <3>1, ThreeRings
    <3> QED
      BY <2>1, <3>2, <3>3 DEF Fits, n
  <2> QED
    BY <2>2, <2>3
<1>4. CASE s \in DOMAIN v
  <2>1. Ahead(s, head) < MAX_SLOTS /\ Ahead(n, head) = Ahead(s, head) + 1
    BY <1>1, <1>4, ThreeRings
  <2>2. \A u \in Holes(v, head) : Ahead(u, head) < Ahead(n, head) /\ Ahead(n, head) <= SEQ_MOD - MAX_SLOTS
    BY <1>1, <1>2, <2>1, ThreeRings
  <2>3. Ahead(n, head) <= MAX_SLOTS
    BY <1>1, <2>1, ThreeRings
  <2>4. ASSUME NEW u \in SeqNums \ DOMAIN v, Ahead(u, head) < Ahead(n, head)
        PROVE  BeforeZero(u, head)
    <3>1. Ahead(u, head) < Ahead(s, head)
      BY <1>1, <1>4, <2>1, <2>4, ThreeRings
    <3> QED
      BY <1>4, <3>1 DEF Holes, Sorted
  <2> QED
    BY <2>2, <2>3, <2>4 DEF Fits, n
<1> QED
  BY <1>3, <1>4

\* A packet that is stored in the window: it is the newest held, and leaves no hole
\* but those before 0.
LEMMA OrderStored ==
    ASSUME NEW head \in SeqNums, NEW v, NEW w, NEW s \in SeqNums, NEW id \in Nat,
           DOMAIN v \in SUBSET SeqNums,
           \A u \in DOMAIN v : v[u] \in Nat /\ v[u] < id /\ Ahead(u, head) < MAX_SLOTS,
           Sorted(v, head), s = 0 \/ Fits(v, head, s),
           s \notin DOMAIN v, Ahead(s, head) < MAX_SLOTS,
           DOMAIN w = DOMAIN v \cup {s}, w[s] = id, \A u \in DOMAIN v : w[u] = v[u]
    PROVE  Sorted(w, head) /\ Fits(w, head, SeqInc(s))
<1> DEFINE n == SeqInc(s)
<1>1. /\ n \in SeqNums /\ 0 \in SeqNums
      /\ \A u \in SeqNums : /\ Ahead(u, head) \in 0..(SEQ_MOD - 1)
                            /\ Ahead(u, head) = Ahead(s, head) => u = s
  BY Distances, FirstNumber
<1>2. Ahead(n, head) = Ahead(s, head) + 1
  BY <1>1, Distances, ThreeRings
<1> HIDE DEF n
\* All that is held is nearer than s, or s were a hole itself.
<1>3. ASSUME NEW t \in DOMAIN v PROVE Ahead(t, head) < Ahead(s, head)
  <2> SUFFICES ASSUME Ahead(s, head) < Ahead(t, head) PROVE FALSE
    BY <1>1
  <2>1. s \in Holes(v, head)
    BY DEF Holes
  <2>2. Ahead(s, head) < Ahead(s, head)
    BY <2>1 DEF Fits, Sorted, BeforeZero
  <2> QED
    BY <1>1, <2>2
<1>4. ASSUME NEW u \in SeqNums \ DOMAIN v, Ahead(u, head) < Ahead(s, head)
      PROVE  BeforeZero(u, head)
  <2>1. CASE s = 0
    BY <1>1, <1>4, <2>1, ThreeRings DEF BeforeZero
  <2>2. CASE Fits(v, head, s)
    BY <1>1, <1>4, <2>2, ThreeRings DEF Fits
  <2> QED
    BY <2>1, <2>2
<1>5. ASSUME NEW u \in Holes(w, head)
      PROVE  u \in SeqNums \ DOMAIN v /\ Ahead(u, head) < Ahead(s, head)
  <2>1. u \in SeqNums /\ u \notin DOMAIN w
    BY DEF Holes
  <2>2. PICK t \in DOMAIN w : Ahead(u, head) < Ahead(t, head)
    BY DEF Holes
  <2>3. Ahead(t, head) <= Ahead(s, head) /\ t \in SeqNums
    BY <1>1, <1>3
  <2> QED
    BY <1>1, <2>1, <2>2, <2>3, ThreeRings
<1>6. Sorted(w, head)
  <2>1. \A u \in Holes(w, head) : BeforeZero(u, head)
    BY <1>4, <1>5
  <2>2. ASSUME NEW t \in DOMAIN w, NEW u \in DOMAIN w, Ahead(t, head) < Ahead(u, head)
        PROVE  w[t] < w[u]
    <3>1. t # s
      <4> SUFFICES ASSUME t = s PROVE FALSE
        OBVIOUS
      <4>1. u \in DOMAIN v
        BY <1>1, <2>2
      <4>2. Ahead(u, head) < Ahead(s, head) /\ u \in SeqNums
        BY <1>3, <4>1
      <4> QED
        BY <1>1, <2>2, <4>2, ThreeRings
    <3>2. t \in DOMAIN v
      BY <3>1
    <3> QED
      BY <2>2, <3>2 DEF Sorted
  <2> QED
    BY <2>1, <2>2 DEF Sorted
<1>7. Fits(w, head, n)
  <2>1. ASSUME NEW u \in Holes(w, head)
        PROVE  Ahead(u, head) < Ahead(n, head) /\ Ahead(n, head) <= SEQ_MOD - MAX_SLOTS
    BY <1>1, <1>2, <1>5, ThreeRings
  <2>2. Ahead(n, head) <= MAX_SLOTS
    BY <1>1, <1>2, ThreeRings
  <2>3. ASSUME NEW u \in SeqNums \ DOMAIN w, Ahead(u, head) < Ahead(n, head)
        PROVE  BeforeZero(u, head)
    <3>1. Ahead(u, head) < Ahead(s, head) /\ u \notin DOMAIN v
      BY <1>1, <1>2, <2>3, ThreeRings
    <3> QED
      BY <1>4, <3>1
  <2> QED
    BY <2>1, <2>2, <2>3 DEF Fits
<1> QED
  BY <1>6, <1>7 DEF n

\* A packet that is alone in the ring and at the playhead.
LEMMA OrderRestarted ==
    ASSUME NEW s \in SeqNums, NEW w, DOMAIN w = {s}
    PROVE  Sorted(w, s) /\ Fits(w, s, SeqInc(s))
<1>1. /\ 0 \in SeqNums /\ SeqInc(s) \in SeqNums /\ Ahead(s, s) = 0 /\ Ahead(SeqInc(s), s) = 1
      /\ \A u \in SeqNums : /\ Ahead(u, s) \in 0..(SEQ_MOD - 1)
                            /\ Ahead(u, s) = 0 => u = s
  <2>1. 0 \in SeqNums /\ SeqInc(s) \in SeqNums /\ Ahead(s, s) = 0
    BY Distances, FirstNumber
  <2>2. Ahead(SeqInc(s), s) = 1
    BY ThreeRings DEF Ahead, SeqInc
  <2>3. ASSUME NEW u \in SeqNums
        PROVE  Ahead(u, s) \in 0..(SEQ_MOD - 1) /\ (Ahead(u, s) = 0 => u = s)
    BY AheadZero
  <2> QED
    BY <2>1, <2>2, <2>3
<1>2. Holes(w, s) = {}
  BY <1>1 DEF Holes
<1>3. \A u \in SeqNums \ DOMAIN w : ~(Ahead(u, s) < Ahead(SeqInc(s), s))
  BY <1>1
<1>4. Ahead(SeqInc(s), s) <= MAX_SLOTS
  BY <1>1, ThreeRings
<1>5. \A t, u \in DOMAIN w : ~(Ahead(t, s) < Ahead(u, s))
  BY <1>1
<1> QED
  BY <1>2, <1>3, <1>4, <1>5 DEF Sorted, Fits

\* A packet as playback tells it apart.
Made == [seq : SeqNums, id : Nat]

\* What is left to come when the packet k has left the network.
Without(c, n, k) == [i \in 1..(n - 1) |-> IF i < k THEN c[i] ELSE c[i + 1]]

\* A multiple of m that is nearer to 0 than m.
LEMMA NearMultiple ==
    ASSUME NEW m \in Nat \ {0}, NEW k \in Int, NEW x \in Int, m * k = x, -m < x, x < m
    PROVE  x = 0
<1>1. CASE x >= 0
  BY <1>1, SmallMultiple
<1>2. CASE x < 0
  <2>1. m * (-k) = -x
    OBVIOUS
  <2>2. -k = 0
    BY <1>2, <2>1, SmallMultiple
  <2> QED
    BY <2>1, <2>2
<1> QED
  BY <1>1, <1>2

\* The distance of a number from the playhead, from the ids they stand for.
LEMMA NumberMeansId ==
    ASSUME NEW H \in Nat \ {0}, NEW p \in Nat \ {0}
    PROVE  LET d == Ahead((p - 1) % SEQ_MOD, (H - 1) % SEQ_MOD)
           IN  /\ (p - 1) % SEQ_MOD \in SeqNums /\ (H - 1) % SEQ_MOD \in SeqNums
               /\ p >= H /\ p < H + SEQ_MOD => d = p - H
               /\ p < H /\ p + SEQ_MOD > H => d = p - H + SEQ_MOD
<1> DEFINE a == (p - 1) % SEQ_MOD
           b == (H - 1) % SEQ_MOD
           d == Ahead(a, b)
           x == (p - 1) \div SEQ_MOD
           y == (H - 1) \div SEQ_MOD
           k == IF a >= b THEN x - y ELSE x - y - 1
<1>1. SEQ_MOD \in Nat \ {0} /\ p - 1 \in Int /\ H - 1 \in Int
  BY ThreeRings
<1>2. x \in Int /\ p - 1 = SEQ_MOD * x + a /\ a \in SeqNums
  BY <1>1, DivMod
<1>3. y \in Int /\ H - 1 = SEQ_MOD * y + b /\ b \in SeqNums
  BY <1>1, DivMod
<1> HIDE DEF a, b, x, y
<1>4. d \in 0..(SEQ_MOD - 1) /\ d = IF a >= b THEN a - b ELSE a - b + SEQ_MOD
  BY <1>1, <1>2, <1>3 DEF Ahead
<1>5. SEQ_MOD * (x - y) = SEQ_MOD * x - SEQ_MOD * y
  BY <1>1, <1>2, <1>3, Distribute
<1>6. SEQ_MOD * (x - y - 1) = SEQ_MOD * (x - y) - SEQ_MOD
  BY <1>1, <1>2, <1>3
<1>7. k \in Int /\ SEQ_MOD * k = p - H - d
  BY <1>1, <1>2, <1>3, <1>4, <1>5, <1>6
<1> HIDE DEF d, k
<1>8. SEQ_MOD * (k + 1) = SEQ_MOD * k + SEQ_MOD
  BY <1>1, <1>7
<1>9. k + 1 \in Int /\ SEQ_MOD * (k + 1) = p - H - d + SEQ_MOD
  BY <1>7, <1>8
<1>10. p >= H /\ p < H + SEQ_MOD => p - H - d = 0
  BY <1>1, <1>4, <1>7, NearMultiple
<1>11. p < H /\ p + SEQ_MOD > H => p - H - d + SEQ_MOD = 0
  BY <1>1, <1>4, <1>9, NearMultiple
<1>12. /\ p >= H /\ p < H + SEQ_MOD => d = p - H
       /\ p < H /\ p + SEQ_MOD > H => d = p - H + SEQ_MOD
  BY <1>1, <1>4, <1>10, <1>11
<1> QED
  BY <1>2, <1>3, <1>12 DEF d, a, b

\* The next packet stands for the next id.
LEMMA NextNumber ==
    ASSUME NEW H \in Nat \ {0}
    PROVE  SeqInc((H - 1) % SEQ_MOD) = H % SEQ_MOD
<1> DEFINE a == H % SEQ_MOD
           b == (H - 1) % SEQ_MOD
<1>1. a \in SeqNums /\ b \in SeqNums /\ Ahead(a, b) = 1
  <2>1. H + 1 \in Nat \ {0} /\ (H + 1) - 1 = H /\ H + 1 >= H /\ H + 1 < H + SEQ_MOD /\ (H + 1) - H = 1
    BY ThreeRings
  <2> QED
    BY <2>1, NumberMeansId
<1> HIDE DEF a, b
<1>2. a = SeqInc(b)
  BY <1>1, ThreeRings DEF Ahead, SeqInc
<1> QED
  BY <1>2 DEF a, b

-----------------------------------------------------------------------------
\* The packet k leaves the network, of which g then counts the faults.
LEMMA GrowingWithout ==
    ASSUME NEW n \in Nat, NEW c \in [1..n -> Made], NEW f \in Nat, NEW g \in Nat,
           NEW k \in {1, 2}, k < n, f + k - 1 <= g,
           Growing(c, n, f)
    PROVE  Growing(Without(c, n, k), n - 1, g)
<1> DEFINE d == Without(c, n, k)
<1>1. \A i \in 1..(n - 1) : d[i] = IF i < k THEN c[i] ELSE c[i + 1]
  BY DEF Without
<1>2. \A i \in 1..n : c[i].id \in Nat
  BY DEF Made
<1> HIDE DEF d
<1> SUFFICES ASSUME NEW i \in 1..(n - 1), NEW j \in 1..(n - 1), i < j
             PROVE  d[i].id < d[j].id /\ d[j].id <= d[i].id + (j - i) + g
  BY DEF Growing, d
<1>3. CASE i < k
  <2>1. i = 1 /\ k = 2 /\ d[i] = c[i] /\ d[j] = c[j + 1] /\ j + 1 \in 1..n /\ i \in 1..n
    BY <1>1, <1>3
  <2>2. c[i].id < c[j + 1].id /\ c[j + 1].id <= c[i].id + ((j + 1) - i) + f
    BY <2>1 DEF Growing
  <2>3. c[i].id \in Nat /\ c[j + 1].id \in Nat /\ f + 1 <= g
    BY <1>2, <2>1
  <2>4. c[j + 1].id <= c[i].id + (j - i) + g
    BY <2>2, <2>3, SMTT(30)
  <2> QED
    BY <2>1, <2>2, <2>4
<1>4. CASE ~(i < k)
  <2>1. d[i] = c[i + 1] /\ d[j] = c[j + 1] /\ j + 1 \in 1..n /\ i + 1 \in 1..n /\ f <= g
    BY <1>1, <1>4
  <2>2. c[i + 1].id < c[j + 1].id /\ c[j + 1].id <= c[i + 1].id + ((j + 1) - (i + 1)) + f
    BY <2>1 DEF Growing
  <2>3. c[i + 1].id \in Nat /\ c[j + 1].id \in Nat
    BY <1>2, <2>1
  <2>4. c[j + 1].id <= c[i + 1].id + (j - i) + g
    BY <2>1, <2>2, <2>3
  <2> QED
    BY <2>1, <2>2, <2>4
<1> QED
  BY <1>3, <1>4

\* The number of an arriving packet tells how far it is from the playhead.
LEMMA ArrivalIsNear ==
    ASSUME NEW n \in Nat, NEW c \in [1..n -> Made], NEW f \in Nat, NEW k \in {1, 2}, k < n,
           NEW v, NEW head \in SeqNums, NEW last \in Nat, NEW H \in Nat \ {0},
           InStep(v, head, last, c, n, f, H), Numbered(c, n), f + k - 1 < MAX_SLOTS - 1
    PROVE  /\ c[k].id \in Nat \ {0} /\ c[k].seq = (c[k].id - 1) % SEQ_MOD
           /\ c[k].id >= H => Ahead(c[k].seq, head) = c[k].id - H
           /\ c[k].id < H => Ahead(c[k].seq, head) > SEQ_MOD - MAX_SLOTS
           /\ Ahead(c[k].seq, head) <= SEQ_MOD - MAX_SLOTS => c[k].id >= H
<1> DEFINE p == c[k].id
<1>1. k \in 1..n /\ 1 \in 1..n
  OBVIOUS
<1>2. p \in Nat \ {0} /\ c[k].seq = (p - 1) % SEQ_MOD /\ c[1].id \in Nat
  BY <1>1 DEF Numbered, Made
<1>3. H <= p + MAX_SLOTS - 1 /\ p <= H + 2 * MAX_SLOTS - 2
  <2>1. H <= c[1].id + f + 1 /\ (k = 2 => H <= p)
    BY <1>1 DEF InStep
  <2>2. p <= H + MAX_SLOTS + f + (k - 1)
    BY <1>1 DEF InStep
  <2>3. MAX_SLOTS \in Nat /\ p \in Nat /\ (k = 1 => p = c[1].id)
    BY <1>2, ThreeRings
  <2> HIDE DEF p
  <2>4. CASE k = 1
    <3>1. f < MAX_SLOTS - 1 /\ p <= H + MAX_SLOTS + f
      BY <2>2, <2>3, <2>4
    <3>2. H <= p + f + 1
      BY <2>1, <2>3, <2>4
    <3> QED
      BY <2>3, <3>1, <3>2
  <2>5. CASE k = 2
    <3>1. f + 1 < MAX_SLOTS - 1 /\ p <= H + MAX_SLOTS + f + 1
      BY <2>2, <2>3, <2>5
    <3>2. H <= p
      BY <2>1, <2>5
    <3> QED
      BY <2>3, <3>1, <3>2
  <2> QED
    BY <2>4, <2>5
<1>4. head = (H - 1) % SEQ_MOD
  BY DEF InStep
<1> HIDE DEF p
<1>5. p >= H => Ahead(c[k].seq, head) = p - H
  BY <1>2, <1>3, <1>4, NumberMeansId, ThreeRings
<1>6. p < H => Ahead(c[k].seq, head) = p - H + SEQ_MOD
  BY <1>2, <1>3, <1>4, NumberMeansId, ThreeRings
<1>7. p \in Nat /\ MAX_SLOTS \in Nat /\ SEQ_MOD \in Nat /\ SEQ_MOD >= 3 * MAX_SLOTS
  BY <1>2, ThreeRings
<1>8. p < H => /\ p - H + SEQ_MOD > SEQ_MOD - MAX_SLOTS
               /\ ~(p - H + SEQ_MOD <= SEQ_MOD - MAX_SLOTS)
  BY <1>3, <1>7, SMTT(30)
<1>9. p >= H \/ p < H
  BY <1>7
<1>10. /\ p < H => Ahead(c[k].seq, head) > SEQ_MOD - MAX_SLOTS
       /\ Ahead(c[k].seq, head) <= SEQ_MOD - MAX_SLOTS => p >= H
  <2>1. CASE p < H
    BY <1>6, <1>8, <2>1
  <2>2. CASE p >= H
    BY <1>7, <2>2
  <2> QED
    BY <1>9, <2>1, <2>2
<1> QED
  BY <1>2, <1>5, <1>10 DEF p

\* The packet k has left the network, of which g now counts the faults: what is left,
\* by what it was and by how far it is from the packet that has gone.
Left(c, n, f, k, g, d) ==
    /\ n \in Nat /\ f \in Nat /\ g \in Nat /\ f <= g
    /\ k \in {1, 2} /\ k \in 1..n /\ 1 \in 1..n /\ 2 \in 2..n
    /\ 1 \in 1..(n - 1) /\ n - 1 \in 1..(n - 1)
    /\ \A i \in 1..n : c[i].id \in Nat
    /\ \A i \in 1..(n - 1) : d[i].id \in Nat
    /\ d[n - 1] = c[n]
    /\ d[1] = IF k = 1 THEN c[2] ELSE c[1]
    /\ \A i \in 2..(n - 1) : d[i] = c[i + 1] /\ i + 1 \in 2..n
    /\ c[k].id < c[n].id
    /\ c[k].id <= d[1].id + g
    /\ \A i \in 2..(n - 1) : c[k].id < d[i].id
    /\ \A i \in 1..(n - 1) : d[i].id <= c[k].id + f + i

\* Ids grow, so the packet that leaves is older than the next one and at most the faults away.
LEMMA WhatIsLeft ==
    ASSUME NEW n \in Nat, NEW c \in [1..n -> Made], NEW f \in Nat, NEW g \in Nat,
           NEW k \in {1, 2}, k < n, f + k - 1 <= g, Growing(c, n, f),
           NEW d, d = Without(c, n, k)
    PROVE  Left(c, n, f, k, g, d)
<1>1. /\ n \in Nat /\ f \in Nat /\ g \in Nat /\ k \in {1, 2} /\ k < n /\ f + k - 1 <= g /\ f <= g
      /\ k \in 1..n /\ 1 \in 1..(n - 1) /\ n - 1 \in 1..(n - 1) /\ 1 \in 1..n /\ 2 \in 2..n
  OBVIOUS
<1>2. \A i \in 1..n : c[i] \in Made /\ c[i].id \in Nat
  BY DEF Made
<1>3. d = [i \in 1..(n - 1) |-> IF i < k THEN c[i] ELSE c[i + 1]]
  BY DEF Without
<1>4. \A i \in 1..(n - 1) : d[i] = IF i < k THEN c[i] ELSE c[i + 1]
  BY <1>3
<1>5. ASSUME NEW i \in 1..(n - 1) PROVE d[i].id \in Nat
  <2>1. i \in 1..n /\ i + 1 \in 1..n
    BY <1>1
  <2> QED
    BY <1>2, <1>4, <2>1
<1>6. ~(n - 1 < k) /\ (n - 1) + 1 = n /\ (1 < k <=> k # 1) /\ 1 + 1 = 2
  BY <1>1
<1>7. d[n - 1] = c[n] /\ d[1] = IF k = 1 THEN c[2] ELSE c[1]
  BY <1>1, <1>4, <1>6
<1>8. ASSUME NEW i \in 2..(n - 1) PROVE d[i] = c[i + 1] /\ i + 1 \in 2..n /\ i + 1 \in 1..n /\ k < i + 1
  <2>1. i \in 1..(n - 1) /\ ~(i < k) /\ i + 1 \in 2..n /\ i + 1 \in 1..n /\ k < i + 1
    BY <1>1
  <2> QED
    BY <1>4, <2>1
<1>9. ASSUME NEW i \in 1..n, k < i
      PROVE  c[k].id < c[i].id /\ c[i].id <= c[k].id + (i - k) + f
  BY <1>1, <1>9 DEF Growing
<1>10. c[1].id < c[2].id /\ c[2].id <= c[1].id + 1 + f
  <2>1. 2 \in 1..n /\ 1 < 2 /\ 2 - 1 = 1
    BY <1>1
  <2>2. c[1].id < c[2].id /\ c[2].id <= c[1].id + (2 - 1) + f
    BY <1>1, <2>1 DEF Growing
  <2> QED
    BY <2>1, <2>2
<1>11. c[k].id < c[n].id
  BY <1>1, <1>9
<1>12. c[1].id \in Nat /\ c[2].id \in Nat /\ c[k].id \in Nat
  BY <1>1, <1>2
<1>13. c[k].id <= d[1].id + g
  <2>1. CASE k = 1
    BY <1>1, <1>7, <1>10, <1>12, <2>1
  <2>2. CASE k = 2
    <3>1. f + 1 <= g
      BY <1>1, <2>2
    <3> QED
      BY <1>1, <1>7, <1>10, <1>12, <2>2, <3>1
  <2> QED
    BY <1>1, <2>1, <2>2
<1>14. \A i \in 2..(n - 1) : c[k].id < d[i].id
  BY <1>8, <1>9
<1>15. ASSUME NEW i \in 1..(n - 1) PROVE d[i].id <= c[k].id + f + i
  <2>1. CASE i = 1
    BY <1>1, <1>7, <1>10, <1>12, <2>1, SMTT(30)
  <2>2. CASE i # 1
    <3>1. i \in 2..(n - 1) /\ i \in Nat
      BY <1>1, <2>2
    <3>2. d[i] = c[i + 1] /\ i + 1 \in 1..n /\ k < i + 1
      BY <1>8, <3>1
    <3>3. c[i + 1].id <= c[k].id + ((i + 1) - k) + f /\ c[i + 1].id \in Nat
      BY <1>2, <1>9, <3>2
    <3> QED
      BY <1>1, <1>12, <3>1, <3>2, <3>3, SMTT(30)
  <2> QED
    BY <2>1, <2>2
<1>16. \A i \in 2..(n - 1) : d[i] = c[i + 1] /\ i + 1 \in 2..n
  BY <1>8
<1> QED
  BY <1>1, <1>2, <1>5, <1>7, <1>11, <1>13, <1>14, <1>15, <1>16 DEF Left

\* The packet k leaves the network and nothing else happens.
LEMMA InStepWithout ==
    ASSUME NEW n, NEW c, NEW f, NEW k, NEW g, NEW d, Left(c, n, f, k, g, d),
           NEW v, \A u \in DOMAIN v : v[u] \in Nat,
           NEW head, NEW last, NEW H \in Nat,
           InStep(v, head, last, c, n, f, H),
           \A i \in 1..(n - 1) : d[i].id <= H + MAX_SLOTS + g + (i - 1)
    PROVE  InStep(v, head, last, d, n - 1, g, H)
<1>1. f \in Nat /\ g \in Nat /\ f <= g /\ k \in {1, 2} /\ 1 \in 1..n /\ 2 \in 2..n /\ 1 \in 1..(n - 1)
  BY DEF Left
<1>2. c[1].id \in Nat /\ c[2].id \in Nat
  BY DEF Left
<1>3. /\ d[n - 1] = c[n]
      /\ d[1] = IF k = 1 THEN c[2] ELSE c[1]
      /\ \A i \in 2..(n - 1) : d[i] = c[i + 1] /\ i + 1 \in 2..n
  BY DEF Left
<1>4. H <= d[1].id + g + 1
  <2>1. H <= c[1].id + f + 1 /\ H <= c[2].id
    BY <1>1 DEF InStep
  <2> QED
    BY <1>1, <1>2, <1>3, <2>1
<1>5. ASSUME NEW u \in DOMAIN v PROVE v[u] <= d[1].id + g
  <2>1. v[u] <= c[1].id + f /\ v[u] < c[2].id /\ v[u] \in Nat
    BY <1>1 DEF InStep
  <2> QED
    BY <1>1, <1>2, <1>3, <2>1
<1>6. \A i \in 2..(n - 1) : H <= d[i].id /\ \A u \in DOMAIN v : v[u] < d[i].id
  BY <1>3 DEF InStep
<1>7. last <= H /\ H <= d[n - 1].id /\ head = (H - 1) % SEQ_MOD
  BY <1>3 DEF InStep
<1>8. \A u \in DOMAIN v : v[u] = H + Ahead(u, head) /\ v[u] < d[n - 1].id
  BY <1>3 DEF InStep
<1> QED
  BY <1>4, <1>5, <1>6, <1>7, <1>8 DEF InStep

\* A packet is lost.
LEMMA InStepLost ==
    ASSUME NEW n, NEW c, NEW f, NEW d, Left(c, n, f, 1, f + 1, d), d = Without(c, n, 1),
           NEW v, \A u \in DOMAIN v : v[u] \in Nat,
           NEW head, NEW last, NEW H \in Nat,
           InStep(v, head, last, c, n, f, H)
    PROVE  InStep(v, head, last, d, n - 1, f + 1, H)
<1>1. n \in Nat /\ f \in Nat /\ \A i \in 1..n : c[i].id \in Nat
  BY DEF Left
<1>2. ASSUME NEW i \in 1..(n - 1)
      PROVE  d[i].id <= H + MAX_SLOTS + (f + 1) + (i - 1)
  <2>1. d[i] = c[i + 1]
    BY <1>1 DEF Without
  <2>2. i + 1 \in 1..n
    BY <1>1
  <2>3. c[i + 1].id <= H + MAX_SLOTS + f + ((i + 1) - 1) /\ c[i + 1].id \in Nat
    BY <1>1, <2>2 DEF InStep
  <2> QED
    BY <1>1, <2>1, <2>3, ThreeRings
<1> QED
  BY <1>2, InStepWithout

\* A packet is late, or held already.
LEMMA InStepDropped ==
    ASSUME NEW n, NEW c, NEW f, NEW k, NEW g, NEW d, Left(c, n, f, k, g, d),
           NEW v, \A u \in DOMAIN v : v[u] \in Nat,
           NEW head, NEW last, NEW H \in Nat,
           InStep(v, head, last, c, n, f, H), c[k].id < H + MAX_SLOTS
    PROVE  InStep(v, head, last, d, n - 1, g, H)
<1>1. /\ n \in Nat /\ f \in Nat /\ g \in Nat /\ f <= g /\ c[k].id \in Nat
      /\ \A i \in 1..(n - 1) : d[i].id \in Nat /\ d[i].id <= c[k].id + f + i
  BY DEF Left
<1>2. ASSUME NEW i \in 1..(n - 1)
      PROVE  d[i].id <= H + MAX_SLOTS + g + (i - 1)
  <2>1. d[i].id \in Nat /\ d[i].id <= c[k].id + f + i
    BY <1>1
  <2> QED
    BY <1>1, <2>1, ThreeRings
<1> QED
  BY <1>2, InStepWithout

\* The number s, with the id p, has come to what was held.
Joined(w, v, s, p) ==
    /\ DOMAIN w = DOMAIN v \cup {s} /\ w[s] = p
    /\ \A u \in DOMAIN v : u # s => w[u] = v[u]

\* A packet is stored in the window.
LEMMA InStepStored ==
    ASSUME NEW n, NEW c, NEW f, NEW k, NEW g, NEW d, Left(c, n, f, k, g, d),
           NEW v, \A u \in DOMAIN v : v[u] \in Nat,
           NEW head, NEW last, NEW H \in Nat,
           InStep(v, head, last, c, n, f, H), c[k].id < H + MAX_SLOTS,
           NEW s, c[k].id = H + Ahead(s, head),
           NEW w, Joined(w, v, s, c[k].id)
    PROVE  InStep(w, head, last, d, n - 1, g, H)
<1>0. /\ DOMAIN w = DOMAIN v \cup {s} /\ w[s] = c[k].id
      /\ \A u \in DOMAIN v : u # s => w[u] = v[u]
  BY DEF Joined
<1>1. InStep(v, head, last, d, n - 1, g, H)
  BY InStepDropped
<1>2. /\ d[n - 1] = c[n]
      /\ \A i \in 2..(n - 1) : c[k].id < d[i].id
      /\ c[k].id < c[n].id /\ c[k].id <= d[1].id + g
  BY DEF Left
<1>3. \A u \in DOMAIN w : u = s \/ (u \in DOMAIN v /\ w[u] = v[u])
  BY <1>0
<1> QED
  BY <1>0, <1>1, <1>2, <1>3 DEF InStep

\* A packet is the first, or one to resync to.
LEMMA InStepRestarted ==
    ASSUME NEW n, NEW c, NEW f, NEW k, NEW g, NEW d, Left(c, n, f, k, g, d),
           Numbered(c, n), NEW last \in Nat,
           NEW s, NEW p, s = c[k].seq, p = c[k].id, last <= p,
           NEW w, DOMAIN w = {s}, w[s] = p
    PROVE  InStep(w, s, last, d, n - 1, g, p)
<1>1. /\ n \in Nat /\ f \in Nat /\ g \in Nat /\ f <= g
      /\ k \in 1..n /\ 1 \in 1..(n - 1) /\ n - 1 \in 1..(n - 1)
  BY DEF Left
<1>2. (\A i \in 1..n : c[i].id \in Nat) /\ (\A i \in 1..(n - 1) : d[i].id \in Nat) /\ d[n - 1] = c[n]
  BY DEF Left
<1>3. /\ \A i \in 2..(n - 1) : p < d[i].id
      /\ p < c[n].id /\ p <= d[1].id + g
      /\ \A i \in 1..(n - 1) : d[i].id <= p + f + i
  BY DEF Left
<1>4. p \in Nat \ {0} /\ s = (p - 1) % SEQ_MOD /\ s \in SeqNums
  <2>1. p \in Nat \ {0} /\ s = (p - 1) % SEQ_MOD
    BY <1>1, <1>2 DEF Numbered
  <2> QED
    BY <2>1, NumberMeansId
<1>5. Ahead(s, s) = 0
  BY <1>4, Distances
<1>6. ASSUME NEW i \in 1..(n - 1) PROVE d[i].id <= p + MAX_SLOTS + g + (i - 1)
  <2>1. d[i].id \in Nat /\ d[i].id <= p + f + i
    BY <1>2, <1>3
  <2> QED
    BY <1>1, <1>4, <2>1, ThreeRings
<1>7. p <= d[1].id + g + 1 /\ p <= d[n - 1].id
  <2>1. d[1].id \in Nat /\ d[n - 1].id \in Nat /\ p < d[n - 1].id
    BY <1>1, <1>2, <1>3
  <2> QED
    BY <1>1, <1>3, <1>4, <2>1
<1>8. ASSUME NEW i \in 2..(n - 1) PROVE p <= d[i].id
  <2>1. i \in 1..(n - 1) /\ p < d[i].id
    BY <1>1, <1>3
  <2> QED
    BY <1>2, <1>4, <2>1
<1>9. \A u \in DOMAIN w : w[u] = p + Ahead(u, s) /\ w[u] < d[n - 1].id
  BY <1>2, <1>3, <1>4, <1>5
<1>10. /\ \A u \in DOMAIN w : w[u] <= d[1].id + g
       /\ \A i \in 2..(n - 1) : \A u \in DOMAIN w : w[u] < d[i].id
  BY <1>3
<1> QED
  BY <1>4, <1>6, <1>7, <1>8, <1>9, <1>10 DEF InStep

\* The playhead leaves a slot of a ring that holds something.
LEMMA InStepLeave ==
    ASSUME NEW n \in Nat \ {0}, NEW c \in [1..n -> Made], NEW f \in Nat,
           NEW v, DOMAIN v \in SUBSET SeqNums, DOMAIN v # {}, \A u \in DOMAIN v : v[u] \in Nat,
           NEW head \in SeqNums, NEW last \in Nat, NEW H \in Nat \ {0},
           InStep(v, head, last, c, n, f, H),
           NEW w, DOMAIN w = DOMAIN v \ {head}, \A u \in DOMAIN w : w[u] = v[u]
    PROVE  InStep(w, SeqInc(head), last, c, n, f, H + 1)
<1>1. PICK t \in DOMAIN v : TRUE
  OBVIOUS
<1>2. H <= v[t] /\ v[t] \in Nat /\ t \in SeqNums
  <2>1. t \in SeqNums /\ Ahead(t, head) \in 0..(SEQ_MOD - 1)
    BY Distances
  <2> QED
    BY <2>1, ThreeRings DEF InStep
<1>3. \A i \in 1..n : c[i].id \in Nat
  BY DEF Made
<1>4. SeqInc(head) = ((H + 1) - 1) % SEQ_MOD
  <2>1. (H + 1) - 1 = H /\ head = (H - 1) % SEQ_MOD
    BY DEF InStep
  <2> QED
    BY <2>1, NextNumber
<1>5. ASSUME NEW u \in DOMAIN w PROVE w[u] = (H + 1) + Ahead(u, SeqInc(head)) /\ u \in DOMAIN v
  <2>1. u \in DOMAIN v /\ u \in SeqNums /\ u # head /\ w[u] = v[u] /\ v[u] = H + Ahead(u, head)
    BY DEF InStep
  <2>2. Ahead(u, head) \in 0..(SEQ_MOD - 1) /\ Ahead(u, SeqInc(head)) = Ahead(u, head) - 1
    BY <2>1, Distances, DistancesInc
  <2> QED
    BY <2>1, <2>2, ThreeRings
<1>6. last <= H + 1 /\ H + 1 <= c[n].id
  <2>1. last <= H /\ v[t] < c[n].id
    BY DEF InStep
  <2> QED
    BY <1>2, <1>3, <2>1
<1>7. H + 1 <= c[1].id + f + 1
  <2>1. v[t] <= c[1].id + f
    BY DEF InStep
  <2> QED
    BY <1>2, <1>3, <2>1, SMTT(30)
<1>8. ASSUME NEW i \in 2..n PROVE H + 1 <= c[i].id
  <2>1. v[t] < c[i].id
    BY DEF InStep
  <2> QED
    BY <1>2, <1>3, <2>1
<1>9. ASSUME NEW i \in 1..n PROVE c[i].id <= (H + 1) + MAX_SLOTS + f + (i - 1)
  <2>1. c[i].id <= H + MAX_SLOTS + f + (i - 1)
    BY DEF InStep
  <2> QED
    BY <1>3, <2>1, ThreeRings
<1>10. /\ \A u \in DOMAIN w : w[u] < c[n].id
       /\ \A u \in DOMAIN w : w[u] <= c[1].id + f
       /\ \A i \in 2..n : \A u \in DOMAIN w : w[u] < c[i].id
  BY <1>5 DEF InStep
<1> QED
  BY <1>4, <1>5, <1>6, <1>7, <1>8, <1>9, <1>10 DEF InStep

\* What is played is the packet at the playhead, whose id is H.
LEMMA InStepPlayed ==
    ASSUME NEW n \in Nat, NEW c, NEW f, NEW v,
           NEW head \in SeqNums, head \in DOMAIN v, NEW last \in Nat, NEW H \in Nat \ {0},
           InStep(v, head, last, c, n, f, H)
    PROVE  v[head] = H /\ last <= v[head] /\ InStep(v, head, v[head], c, n, f, H)
<1>1. v[head] = H
  BY Distances DEF InStep
<1> QED
  BY <1>1 DEF InStep

\* The server makes its next packet, or sees one refused by send_to.
LEMMA InStepMade ==
    ASSUME NEW n \in Nat \ {0}, NEW c \in [1..n -> Made], NEW f \in Nat, Growing(c, n, f),
           NEW m \in {n, n + 1}, NEW d \in [1..m -> Made],
           \A i \in 1..m : i < m => d[i].id = c[i].id, d[m].id = c[n].id + 1
    PROVE  /\ Growing(d, m, f + (n + 1 - m))
           /\ \A v, head : \A last \in Nat, H \in Nat \ {0} :
                 (\A u \in DOMAIN v : v[u] \in Nat) /\ InStep(v, head, last, c, n, f, H)
                   => InStep(v, head, last, d, m, f + (n + 1 - m), H)
<1> DEFINE g == f + (n + 1 - m)
<1>1. \A i \in 1..n : c[i].id \in Nat
  BY DEF Made
<1>2. \A i \in 1..m : d[i].id \in Nat
  BY DEF Made
<1>3. g \in Nat /\ f <= g /\ (m = n => g = f + 1) /\ (m = n + 1 => g = f)
  OBVIOUS
<1> HIDE DEF g
<1>4. Growing(d, m, g)
  <2> SUFFICES ASSUME NEW i \in 1..m, NEW j \in 1..m, i < j
               PROVE  d[i].id < d[j].id /\ d[j].id <= d[i].id + (j - i) + g
    BY DEF Growing
  <2>1. i \in 1..n /\ d[i].id = c[i].id
    OBVIOUS
  <2>2. CASE j < m
    <3>1. d[j].id = c[j].id /\ j \in 1..n
      BY <2>2
    <3>2. c[i].id < c[j].id /\ c[j].id <= c[i].id + (j - i) + f
      BY <2>1, <3>1 DEF Growing
    <3>3. /\ c[i].id \in Nat /\ c[j].id \in Nat
          /\ c[i].id + (j - i) + f <= c[i].id + (j - i) + g
      BY <1>1, <1>3, <2>1, <3>1, SMTT(30)
    <3> QED
      BY <1>3, <2>1, <3>1, <3>2, <3>3, SMTT(30)
  <2>3. CASE j = m
    <3>1. d[j].id = c[n].id + 1
      BY <2>3
    <3>2. i < n => c[i].id < c[n].id /\ c[n].id <= c[i].id + (n - i) + f
      BY <2>1 DEF Growing
    <3>3. c[n].id \in Nat /\ c[i].id \in Nat
      BY <1>1, <2>1
    <3>4. CASE i = n
      BY <1>3, <2>1, <2>3, <3>1, <3>3, <3>4
    <3>5. CASE i < n
      <4>1. c[i].id < c[n].id /\ c[n].id <= c[i].id + (n - i) + f
        BY <3>2, <3>5
      <4>2. j \in Nat /\ j + g = n + f + 1
        <5>1. CASE m = n
          BY <1>3, <2>3, <5>1, SMTT(30)
        <5>2. CASE m = n + 1
          BY <1>3, <2>3, <5>2, SMTT(30)
        <5> QED
          BY <5>1, <5>2
      <4>3. c[i].id < c[n].id + 1 /\ c[n].id + 1 <= c[i].id + (j - i) + g
        BY <1>3, <3>3, <4>1, <4>2, SMTT(30)
      <4> QED
        BY <2>1, <3>1, <4>3
    <3> QED
      BY <2>1, <3>4, <3>5
  <2> QED
    BY <2>2, <2>3
<1>5. ASSUME NEW v, NEW head, NEW last \in Nat, NEW H \in Nat \ {0},
             \A u \in DOMAIN v : v[u] \in Nat, InStep(v, head, last, c, n, f, H)
      PROVE  InStep(v, head, last, d, m, g, H)
  <2>1. /\ H <= c[n].id /\ \A u \in DOMAIN v : v[u] < c[n].id
        /\ H <= c[1].id + f + 1 /\ \A u \in DOMAIN v : v[u] <= c[1].id + f
        /\ \A i \in 2..n : H <= c[i].id /\ \A u \in DOMAIN v : v[u] < c[i].id
        /\ \A i \in 1..n : c[i].id <= H + MAX_SLOTS + f + (i - 1)
    BY <1>5 DEF InStep
  <2>2. c[n].id \in Nat /\ 1 \in 1..m /\ 1 \in 1..n /\ n \in 1..n /\ m \in 1..m
    BY <1>1
  <2>3. d[1].id >= c[1].id
    BY <1>1, <2>2
  <2>4. H <= d[m].id /\ \A u \in DOMAIN v : v[u] < d[m].id
    BY <1>5, <2>1, <2>2
  <2>5. H <= d[1].id + g + 1 /\ \A u \in DOMAIN v : v[u] <= d[1].id + g
    <3>1. H <= d[1].id + g + 1
      BY <1>2, <1>3, <1>1, <2>1, <2>2, <2>3, SMTT(30)
    <3>2. ASSUME NEW u \in DOMAIN v PROVE v[u] <= d[1].id + g
      <4>1. v[u] \in Nat /\ v[u] <= c[1].id + f
        BY <1>5, <2>1
      <4> QED
        BY <1>2, <1>3, <1>1, <2>2, <2>3, <4>1
    <3> QED
      BY <3>1, <3>2
  <2>6. ASSUME NEW i \in 2..m PROVE H <= d[i].id /\ \A u \in DOMAIN v : v[u] < d[i].id
    <3>1. CASE i = m
      BY <2>4, <3>1
    <3>2. CASE i < m
      <4>1. i \in 2..n /\ d[i].id = c[i].id
        BY <3>2
      <4> QED
        BY <2>1, <4>1
    <3> QED
      BY <3>1, <3>2
  <2>7. ASSUME NEW i \in 1..m PROVE d[i].id <= H + MAX_SLOTS + g + (i - 1)
    <3>1. CASE i = m
      <4>1. c[n].id <= H + MAX_SLOTS + f + (n - 1)
        BY <2>1, <2>2
      <4> QED
        BY <1>3, <2>2, <3>1, <4>1, ThreeRings
    <3>2. CASE i < m
      <4>1. i \in 1..n /\ d[i].id = c[i].id /\ c[i].id <= H + MAX_SLOTS + f + (i - 1)
        BY <2>1, <3>2
      <4> QED
        BY <1>1, <1>3, <4>1, ThreeRings
    <3> QED
      BY <3>1, <3>2
  <2> QED
    BY <1>5, <2>4, <2>5, <2>6, <2>7 DEF InStep
<1> QED
  BY <1>4, <1>5 DEF g

\* int32_t diff = seq - playhead, by the distance.
LEMMA DiffIs ==
    ASSUME NEW s \in SeqNums, NEW head \in SeqNums
    PROVE  /\ SeqDiff(s, head) \in (1 - MAX_SLOTS)..(-1) <=> Ahead(s, head) > SEQ_MOD - MAX_SLOTS
           /\ SeqDiff(s, head) \in (1 - MAX_SLOTS)..(MAX_SLOTS - 1)
                <=> Ahead(s, head) < MAX_SLOTS \/ Ahead(s, head) > SEQ_MOD - MAX_SLOTS
<1>1. Ahead(s, head) \in 0..(SEQ_MOD - 1)
  BY Distances
<1> QED
  BY <1>1, ThreeRings DEF SeqDiff

\* What is held lies in its slot and in the window.
LEMMA HeldIs ==
    ASSUME IInv, PathTypes
    PROVE  /\ DOMAIN HeldIds \in SUBSET SeqNums
           /\ \A u \in DOMAIN HeldIds :
                 /\ HeldIds[u] = content[SlotOf(u)] /\ HeldIds[u] \in Nat
                 /\ slots[SlotOf(u)].valid /\ slots[SlotOf(u)].seq = u
                 /\ Ahead(u, next_play_seq) < MAX_SLOTS
           /\ \A u \in SeqNums : u \in DOMAIN HeldIds <=> Live(slots, u)
<1>1. \A u \in SeqNums : u \in DOMAIN HeldIds <=> Live(slots, u)
  BY DEF HeldIds
<1>2. DOMAIN HeldIds \in SUBSET SeqNums
  BY DEF HeldIds
<1>3. ASSUME NEW u \in DOMAIN HeldIds
      PROVE  /\ HeldIds[u] = content[SlotOf(u)] /\ HeldIds[u] \in Nat
             /\ slots[SlotOf(u)].valid /\ slots[SlotOf(u)].seq = u
             /\ Ahead(u, next_play_seq) < MAX_SLOTS
  <2>1. u \in SeqNums /\ Live(slots, u) /\ HeldIds[u] = content[SlotOf(u)]
    BY DEF HeldIds
  <2>2. SlotOf(u) \in Indices
    BY <2>1, SlotInRange
  <2> QED
    BY <2>1, <2>2 DEF Live, IInv, WindowInv, PathTypes
<1> QED
  BY <1>1, <1>2, <1>3

\* What plays or sheds without leaving a slot, and what does not touch the ring.
LEMMA HeldSame ==
    ASSUME slots' = slots, content' = content \/ content' = ContentWith(content)
    PROVE  HeldIds' = HeldIds
<1>1. \A u \in SeqNums : Live(slots, u)' <=> Live(slots, u)
  BY DEF Live, SlotOf
<1>2. \A u \in SeqNums : Live(slots, u) => content'[SlotOf(u)] = content[SlotOf(u)]
  <2> SUFFICES ASSUME NEW u \in SeqNums, Live(slots, u)
               PROVE  content'[SlotOf(u)] = content[SlotOf(u)]
    OBVIOUS
  <2>1. SlotOf(u) \in Indices /\ slots'[SlotOf(u)].valid
    BY SlotInRange DEF Live
  <2> QED
    BY <2>1 DEF ContentWith
<1>3. HeldIds' = [u \in {s \in SeqNums : Live(slots', s)} |-> content'[SlotOf(u)]]
  BY DEF HeldIds, Live, SlotOf
<1> QED
  BY <1>1, <1>2, <1>3 DEF HeldIds, Live

\* The playhead leaves its slot.
LEMMA HeldLeave ==
    ASSUME IInv, PathTypes, LeaveSlot, content' = ContentWith(content)
    PROVE  /\ next_play_seq' = SeqInc(next_play_seq)
           /\ DOMAIN HeldIds' = DOMAIN HeldIds \ {next_play_seq}
           /\ \A u \in DOMAIN HeldIds' : HeldIds'[u] = HeldIds[u]
<1> DEFINE k == SlotOf(next_play_seq)
<1>1. /\ next_play_seq \in SeqNums /\ k \in Indices
      /\ slots \in [Indices -> [valid : BOOLEAN, seq : SeqNums, frames : Nat]]
  BY SlotInRange DEF IInv, TypeOK
<1>2. slots' = [slots EXCEPT ![k] = EmptySlot] /\ next_play_seq' = SeqInc(next_play_seq)
  BY DEF LeaveSlot
<1>3. HeldIds' = [u \in {s \in SeqNums : Live(slots', s)} |-> content'[SlotOf(u)]]
  BY DEF HeldIds, Live, SlotOf
<1> HIDE DEF k
<1>4. ASSUME NEW u \in SeqNums
      PROVE  /\ Live(slots', u) <=> u \in DOMAIN HeldIds /\ u # next_play_seq
             /\ Live(slots', u) => content'[SlotOf(u)] = HeldIds[u]
  <2>1. SlotOf(u) \in Indices
    BY SlotInRange
  <2>2. CASE SlotOf(u) = k
    <3>1. ~Live(slots', u)
      BY <1>1, <1>2, <2>2 DEF Live
    <3>2. u \in DOMAIN HeldIds => u = next_play_seq
      <4> SUFFICES ASSUME u \in DOMAIN HeldIds PROVE u = next_play_seq
        OBVIOUS
      <4>1. Ahead(u, next_play_seq) < MAX_SLOTS /\ Ahead(next_play_seq, next_play_seq) < MAX_SLOTS
        BY <1>1, HeldIs, Distances, ThreeRings
      <4> QED
        BY <1>1, <2>2, <4>1, SlotUnique DEF k
    <3> QED
      BY <3>1, <3>2
  <2>3. CASE SlotOf(u) # k
    <3>1. slots'[SlotOf(u)] = slots[SlotOf(u)] /\ u # next_play_seq
      BY <1>1, <1>2, <2>1, <2>3 DEF k
    <3>2. Live(slots', u) <=> u \in DOMAIN HeldIds
      BY <3>1, HeldIs DEF Live
    <3>3. Live(slots', u) => content'[SlotOf(u)] = content[SlotOf(u)]
      BY <2>1 DEF ContentWith, Live
    <3> QED
      BY <3>1, <3>2, <3>3, HeldIs
  <2> QED
    BY <2>2, <2>3
<1>5. DOMAIN HeldIds' = DOMAIN HeldIds \ {next_play_seq}
  <2>1. DOMAIN HeldIds \in SUBSET SeqNums
    BY HeldIs
  <2> QED
    BY <1>3, <1>4, <2>1
<1>6. \A u \in DOMAIN HeldIds' : HeldIds'[u] = HeldIds[u]
  BY <1>3, <1>4
<1> QED
  BY <1>2, <1>5, <1>6

\* push_packet stores a packet: alone at the playhead, or with the others in the window.
LEMMA HeldStored ==
    ASSUME IInv, PathTypes, NEW s \in SeqNums, NEW frames \in FrameCounts, NEW id \in Nat,
           PushStored(s, frames), content' = ContentWith([content EXCEPT ![SlotOf(s)] = id])
    PROVE  /\ has_first_packet' /\ s \in DOMAIN HeldIds' /\ HeldIds'[s] = id
           /\ \/ /\ has_first_packet /\ next_play_seq' = next_play_seq
                 /\ Ahead(s, next_play_seq) < MAX_SLOTS /\ s \notin DOMAIN HeldIds
                 /\ DOMAIN HeldIds' = DOMAIN HeldIds \cup {s}
                 /\ \A u \in DOMAIN HeldIds : HeldIds'[u] = HeldIds[u]
              \/ /\ next_play_seq' = s
                 /\ DOMAIN HeldIds' = {s}
                 /\ has_first_packet => Ahead(s, next_play_seq) \in MAX_SLOTS..(SEQ_MOD - MAX_SLOTS)
<1> DEFINE R == RingAfterResync(s)
           k == SlotOf(s)
           stored == [valid |-> TRUE, seq |-> s, frames |-> frames]
           new == [content EXCEPT ![k] = id]
<1>1. /\ ~IsLate(s) /\ ~IsDuplicate(s) /\ has_first_packet'
      /\ next_play_seq' = HeadAfterResync(s) /\ slots' = [R EXCEPT ![k] = stored]
  BY DEF PushStored
<1>2. /\ R \in [Indices -> [valid : BOOLEAN, seq : SeqNums, frames : Nat]]
      /\ \A i \in Indices : R[i].valid => R[i] = slots[i] /\ ~NeedsResync(s) /\ HeadAfterResync(s) = next_play_seq
  BY <1>1, AfterResync
<1>3. k \in Indices /\ new \in [Indices -> Nat] /\ new[k] = id
      /\ \A i \in Indices \ {k} : new[i] = content[i]
  BY SlotInRange DEF PathTypes
<1>4. stored.valid /\ stored.seq = s
  OBVIOUS
<1>5. HeldIds' = [u \in {t \in SeqNums : Live(slots', t)} |-> content'[SlotOf(u)]]
  BY DEF HeldIds, Live, SlotOf
<1>6. next_play_seq \in SeqNums /\ HeadFor(s) \in SeqNums
  BY DEF IInv, TypeOK, HeadFor
<1>c. \A i \in Indices : content'[i] = IF slots'[i].valid THEN new[i] ELSE 0
  BY DEF ContentWith
<1> HIDE DEF R, k, stored, new
<1>7. slots'[k] = stored /\ \A i \in Indices \ {k} : slots'[i] = R[i]
  BY <1>1, <1>2, <1>3
<1>8. Live(slots', s) /\ content'[SlotOf(s)] = id
  BY <1>3, <1>4, <1>7, <1>c DEF Live, k
<1>9. s \in DOMAIN HeldIds' /\ HeldIds'[s] = id
  BY <1>5, <1>8
<1>10. ASSUME NEW u \in SeqNums, u # s
       PROVE  /\ Live(slots', u) <=> SlotOf(u) # k /\ R[SlotOf(u)].valid /\ R[SlotOf(u)].seq = u
              /\ Live(slots', u) => content'[SlotOf(u)] = content[SlotOf(u)]
  <2>1. SlotOf(u) \in Indices
    BY SlotInRange
  <2> QED
    BY <1>3, <1>4, <1>7, <1>10, <1>c, <2>1 DEF Live
<1>11. CASE NeedsResync(s) \/ ~has_first_packet
  <2>1. \A i \in Indices : ~R[i].valid
    BY <1>2, <1>11 DEF IInv, FirstInv
  <2>2. next_play_seq' = s
    BY <1>1, <1>11 DEF HeadAfterResync, HeadFor
  <2>3. DOMAIN HeldIds' = {s}
    <3>1. ASSUME NEW u \in DOMAIN HeldIds', u # s PROVE FALSE
      <4>1. u \in SeqNums /\ Live(slots', u) /\ SlotOf(u) \in Indices
        BY <1>5, SlotInRange
      <4> QED
        BY <1>10, <2>1, <3>1, <4>1
    <3> QED
      BY <1>9, <3>1
  <2>4. has_first_packet => Ahead(s, next_play_seq) \in MAX_SLOTS..(SEQ_MOD - MAX_SLOTS)
    <3>1. Ahead(s, next_play_seq) \in 0..(SEQ_MOD - 1)
      BY <1>6, Distances
    <3>2. has_first_packet => SeqDiff(s, next_play_seq) \notin (1 - MAX_SLOTS)..(MAX_SLOTS - 1)
      BY <1>11 DEF NeedsResync, HeadFor
    <3> QED
      BY <1>6, <3>1, <3>2, DiffIs, ThreeRings
  <2> QED
    BY <1>1, <1>9, <2>2, <2>3, <2>4
<1>12. CASE ~NeedsResync(s) /\ has_first_packet
  <2>1. R = slots /\ next_play_seq' = next_play_seq
    BY <1>1, <1>12 DEF R, RingAfterResync, HeadAfterResync, HeadFor
  <2>2. Ahead(s, next_play_seq) < MAX_SLOTS
    BY <1>1, <1>6, <1>12, DiffWindow DEF NeedsResync, IsLate, HeadFor
  <2>3. s \notin DOMAIN HeldIds
    BY <1>1, <1>12, HeldIs DEF IsDuplicate
  <2>4. ASSUME NEW u \in DOMAIN HeldIds
        PROVE  u \in SeqNums /\ u # s /\ SlotOf(u) # k
    <3>1. u \in SeqNums /\ u # s /\ Ahead(u, next_play_seq) < MAX_SLOTS
      BY <2>3, HeldIs
    <3>2. SlotOf(u) # SlotOf(s)
      BY <1>6, <2>2, <3>1, SlotUnique
    <3> QED
      BY <3>1, <3>2 DEF k
  <2>5. ASSUME NEW u \in SeqNums, u # s
        PROVE  Live(slots', u) <=> u \in DOMAIN HeldIds
    <3>1. Live(slots', u) <=> SlotOf(u) # k /\ Live(slots, u)
      BY <1>10, <2>1, <2>5 DEF Live
    <3> QED
      BY <2>4, <3>1, HeldIs
  <2>6. DOMAIN HeldIds' = DOMAIN HeldIds \cup {s}
    <3>1. DOMAIN HeldIds \in SUBSET SeqNums
      BY HeldIs
    <3> QED
      BY <1>5, <1>9, <2>5, <3>1
  <2>7. ASSUME NEW u \in DOMAIN HeldIds PROVE HeldIds'[u] = HeldIds[u]
    <3>1. u \in SeqNums /\ u # s /\ Live(slots', u)
      BY <2>4, <2>5
    <3>2. HeldIds'[u] = content'[SlotOf(u)] /\ content'[SlotOf(u)] = content[SlotOf(u)]
      BY <1>5, <1>10, <3>1
    <3> QED
      BY <3>2, HeldIs
  <2> QED
    BY <1>1, <1>9, <1>12, <2>1, <2>2, <2>3, <2>6, <2>7
<1> QED
  BY <1>11, <1>12

\* What becomes of a packet that arrives.
LEMMA Arrives ==
    ASSUME IInv, PathTypes, NEW p \in Packets, PushReceived(p)
    PROVE  /\ last_played' = last_played
           /\ \/ /\ has_first_packet' = has_first_packet /\ has_first_packet
                 /\ next_play_seq' = next_play_seq /\ HeldIds' = HeldIds
                 /\ Ahead(p.seq, next_play_seq) > SEQ_MOD - MAX_SLOTS \/ p.seq \in DOMAIN HeldIds
              \/ /\ has_first_packet /\ next_play_seq' = next_play_seq
                 /\ Ahead(p.seq, next_play_seq) < MAX_SLOTS /\ p.seq \notin DOMAIN HeldIds
                 /\ DOMAIN HeldIds' = DOMAIN HeldIds \cup {p.seq} /\ HeldIds'[p.seq] = p.id
                 /\ \A u \in DOMAIN HeldIds : HeldIds'[u] = HeldIds[u]
              \/ /\ next_play_seq' = p.seq
                 /\ DOMAIN HeldIds' = {p.seq} /\ HeldIds'[p.seq] = p.id
                 /\ has_first_packet => Ahead(p.seq, next_play_seq) \in MAX_SLOTS..(SEQ_MOD - MAX_SLOTS)
<1>1. /\ p.seq \in SeqNums /\ p.id \in Nat /\ frames_per_packet \in FrameCounts
      /\ next_play_seq \in SeqNums
  BY PathAssumption DEF Packets, IInv, TypeOK
<1>2. CASE PushDropped(p.seq) /\ UNCHANGED <<content, last_played>>
  <2>1. UNCHANGED <<slots, next_play_seq, has_first_packet>>
    BY <1>2 DEF PushDropped, vars, ringVars, gateVars
  <2>2. HeldIds' = HeldIds
    BY <1>2, <2>1, HeldSame
  <2>3. IsLate(p.seq) \/ IsDuplicate(p.seq)
    BY <1>2 DEF PushDropped
  <2>4. has_first_packet
    <3> SUFFICES ASSUME ~has_first_packet PROVE FALSE
      OBVIOUS
    <3>1. HeadFor(p.seq) = p.seq /\ Ahead(p.seq, p.seq) = 0
      BY <1>1, Distances DEF HeadFor
    <3>2. ~IsLate(p.seq)
      BY <1>1, <3>1, DiffIs, ThreeRings DEF IsLate
    <3>3. ~Live(slots, p.seq)
      BY <1>1, SlotInRange DEF Live, IInv, FirstInv
    <3> QED
      BY <2>3, <3>2, <3>3 DEF IsDuplicate
  <2>5. IsLate(p.seq) => Ahead(p.seq, next_play_seq) > SEQ_MOD - MAX_SLOTS
    BY <1>1, <2>4, DiffIs DEF IsLate, HeadFor
  <2>6. IsDuplicate(p.seq) => p.seq \in DOMAIN HeldIds
    BY <1>1, HeldIs DEF IsDuplicate
  <2> QED
    BY <1>2, <2>1, <2>2, <2>3, <2>4, <2>5, <2>6
<1>3. CASE /\ PushStored(p.seq, frames_per_packet)
           /\ content' = ContentWith([content EXCEPT ![SlotOf(p.seq)] = p.id])
           /\ UNCHANGED last_played
  <2> DEFINE s == p.seq
             id == p.id
  <2>1. /\ s \in DOMAIN HeldIds' /\ HeldIds'[s] = id
        /\ \/ /\ has_first_packet /\ next_play_seq' = next_play_seq
              /\ Ahead(s, next_play_seq) < MAX_SLOTS /\ s \notin DOMAIN HeldIds
              /\ DOMAIN HeldIds' = DOMAIN HeldIds \cup {s}
              /\ \A u \in DOMAIN HeldIds : HeldIds'[u] = HeldIds[u]
           \/ /\ next_play_seq' = s
              /\ DOMAIN HeldIds' = {s}
              /\ has_first_packet => Ahead(s, next_play_seq) \in MAX_SLOTS..(SEQ_MOD - MAX_SLOTS)
    BY <1>1, <1>3, HeldStored
  <2> QED
    BY <1>3, <2>1
<1> QED
  BY <1>2, <1>3 DEF PushReceived

\* Packet k of the network has left it, and the callback has done nothing.
TakesOut(k) ==
    /\ k \in {1, 2} /\ k <= Len(net)
    /\ net' \in Seq(Packets) /\ Len(net') = Len(net) - 1
    /\ \A i \in 1..(Len(net) - 1) : net'[i] = IF i < k THEN net[i] ELSE net[i + 1]
    /\ UNCHANGED <<capture_pc, packet, sequence_number, session>>

\* The packets to come are the network's, and the next one.
LEMMA ComingIs ==
    ASSUME PathTypes
    PROVE  /\ Len(net) \in Nat /\ Count = Len(net) + 1 /\ Count \in Nat \ {0}
           /\ NextMade \in Made /\ Coming \in [1..Count -> Made]
           /\ Coming[Count] = NextMade
           /\ \A i \in 1..Len(net) : /\ i \in 1..Count /\ i < Count
                                     /\ net[i] \in Packets
                                     /\ Coming[i] = [seq |-> net[i].seq, id |-> net[i].id]
<1>1. Len(net) \in Nat /\ Count = Len(net) + 1 /\ Count \in Nat \ {0}
  BY DEF PathTypes, Count
<1>2. \A i \in 1..Len(net) : i \in 1..Count /\ i < Count
  BY <1>1
<1>3. \A i \in 1..Len(net) : net[i] \in Packets
  BY DEF PathTypes
<1>4. NextMade \in Made
  BY DEF PathTypes, NextMade, Made, Packets
<1>5. \A i \in 1..Count : Coming[i] = IF i < Count THEN [seq |-> net[i].seq, id |-> net[i].id] ELSE NextMade
  BY DEF Coming
<1>6. ASSUME NEW i \in 1..Count PROVE Coming[i] \in Made
  <2>1. CASE i < Count
    <3>1. net[i] \in Packets
      BY <1>1, <1>3, <2>1
    <3>2. net[i].seq \in SeqNums /\ net[i].id \in Nat
      BY <3>1 DEF Packets
    <3>3. Coming[i] = [seq |-> net[i].seq, id |-> net[i].id]
      BY <1>5, <2>1
    <3> QED
      BY <3>2, <3>3 DEF Made
  <2>2. CASE ~(i < Count)
    BY <1>4, <1>5, <2>2
  <2> QED
    BY <2>1, <2>2
<1>7. Coming \in [1..Count -> Made]
  BY <1>6 DEF Coming
<1>8. Coming[Count] = NextMade
  <2>1. Count \in 1..Count /\ ~(Count < Count)
    BY <1>1
  <2> QED
    BY <1>5, <2>1
<1>9. \A i \in 1..Len(net) : Coming[i] = [seq |-> net[i].seq, id |-> net[i].id]
  BY <1>2, <1>5
<1> QED
  BY <1>1, <1>2, <1>3, <1>4, <1>7, <1>8, <1>9

\* RemoveAt of the second element.
LEMMA SecondRemoved ==
    ASSUME NEW S, NEW q \in Seq(S), Len(q) > 1, NEW r, r = RemoveAt(q, 2)
    PROVE  /\ r \in Seq(S) /\ Len(r) = Len(q) - 1
           /\ \A i \in 1..(Len(q) - 1) : r[i] = IF i < 2 THEN q[i] ELSE q[i + 1]
<1> DEFINE a == SubSeq(q, 1, 1)
           b == SubSeq(q, 3, Len(q))
<1>1. r = a \o b /\ Len(q) \in Nat
  BY DEF RemoveAt
<1>2. a \in Seq(S) /\ Len(a) = 1 /\ a[1] = q[1]
  <2>1. \A i \in 1..1 : q[i] \in S
    BY <1>1
  <2> QED
    BY <2>1, SubSeqProperties
<1>3. /\ b \in Seq(S) /\ Len(b) = Len(q) - 2
      /\ \A i \in 1..(Len(q) - 2) : b[i] = q[i + 2]
  <2> DEFINE m == Len(q)
  <2>1. m \in Nat /\ m > 1 /\ \A i \in 3..m : q[i] \in S
    BY <1>1
  <2> HIDE DEF m
  <2>2. /\ SubSeq(q, 3, m) \in Seq(S) /\ Len(SubSeq(q, 3, m)) = IF 3 <= m THEN m - 3 + 1 ELSE 0
        /\ \A i \in 1..(m - 3 + 1) : SubSeq(q, 3, m)[i] = q[3 + i - 1]
    BY <2>1, SubSeqProperties
  <2>3. b = SubSeq(q, 3, m) /\ m = Len(q)
    BY DEF m
  <2>4. ASSUME NEW i \in 1..(m - 2) PROVE SubSeq(q, 3, m)[i] = q[i + 2]
    <3>1. i \in 1..(m - 3 + 1) /\ 3 + i - 1 = i + 2
      BY <2>1
    <3> QED
      BY <2>2, <3>1
  <2>5. Len(SubSeq(q, 3, m)) = m - 2
    BY <2>1, <2>2
  <2> QED
    BY <2>2, <2>3, <2>4, <2>5
<1> HIDE DEF a, b
<1>4. /\ a \o b \in Seq(S) /\ Len(a \o b) = Len(a) + Len(b)
      /\ \A i \in 1..(Len(a) + Len(b)) : (a \o b)[i] = IF i <= Len(a) THEN a[i] ELSE b[i - Len(a)]
  BY <1>2, <1>3, ConcatProperties
<1>5. ASSUME NEW i \in 1..(Len(q) - 1)
      PROVE  r[i] = IF i < 2 THEN q[i] ELSE q[i + 1]
  <2>1. i \in 1..(Len(a) + Len(b))
    BY <1>1, <1>2, <1>3
  <2>2. CASE i = 1
    BY <1>1, <1>2, <1>4, <2>1, <2>2
  <2>3. CASE i # 1
    <3>1. ~(i <= Len(a)) /\ i - Len(a) = i - 1 /\ i - 1 \in 1..(Len(q) - 2)
      BY <1>1, <1>2, <2>3
    <3>2. r[i] = b[i - 1]
      BY <1>1, <1>4, <2>1, <3>1
    <3>3. b[i - 1] = q[(i - 1) + 2] /\ (i - 1) + 2 = i + 1 /\ ~(i < 2)
      BY <1>3, <2>3, <3>1
    <3> QED
      BY <3>2, <3>3
  <2> QED
    BY <2>2, <2>3
<1>6. r \in Seq(S)
  BY <1>1, <1>4
<1>7. Len(r) = Len(q) - 1
  BY <1>1, <1>2, <1>3, <1>4
<1> QED
  BY <1>5, <1>6, <1>7

\* The first packet or the second leaves the network.
LEMMA TakenOut ==
    ASSUME PathTypes, UNCHANGED <<capture_pc, packet, sequence_number, session>>
    PROVE  /\ net # <<>> /\ net' = Tail(net) => TakesOut(1)
           /\ Len(net) > 1 /\ net' = RemoveAt(net, 2) => TakesOut(2)
<1>1. net \in Seq(Packets) /\ Len(net) \in Nat
  BY DEF PathTypes
<1>2. ASSUME net # <<>>, net' = Tail(net) PROVE TakesOut(1)
  <2>1. /\ 1 <= Len(net) /\ net' \in Seq(Packets) /\ Len(net') = Len(net) - 1
        /\ \A i \in 1..(Len(net) - 1) : net'[i] = net[i + 1]
    BY <1>1, <1>2
  <2> QED
    BY <1>1, <2>1 DEF TakesOut
<1>3. ASSUME Len(net) > 1, net' = RemoveAt(net, 2) PROVE TakesOut(2)
  <2>1. /\ net' \in Seq(Packets) /\ Len(net') = Len(net) - 1
        /\ \A i \in 1..(Len(net) - 1) : net'[i] = IF i < 2 THEN net[i] ELSE net[i + 1]
    BY <1>1, <1>3, SecondRemoved
  <2> QED
    BY <1>1, <1>3, <2>1 DEF TakesOut
<1> QED
  BY <1>2, <1>3

\* What is to come, when a packet leaves the network.
LEMMA ComingWithout ==
    ASSUME PathTypes, NEW k, TakesOut(k)
    PROVE  /\ k < Count /\ k \in 1..Len(net)
           /\ Count' = Count - 1 /\ Coming' = Without(Coming, Count, k)
<1>1. k \in {1, 2} /\ k <= Len(net) /\ Len(net) \in Nat /\ Count = Len(net) + 1
  BY ComingIs DEF TakesOut
<1>2. Count' = Count - 1
  BY <1>1 DEF TakesOut, Count
<1>3. NextMade' = NextMade
  BY DEF TakesOut, NextMade
<1>4. Coming' = [i \in 1..Count' |-> IF i < Count' THEN [seq |-> net'[i].seq, id |-> net'[i].id] ELSE NextMade]
  BY <1>3 DEF Coming
<1>5. \A i \in 1..Count : Coming[i] = IF i < Count THEN [seq |-> net[i].seq, id |-> net[i].id] ELSE NextMade
  BY DEF Coming
<1>6. ASSUME NEW i \in 1..(Count - 1)
      PROVE  (IF i < Count' THEN [seq |-> net'[i].seq, id |-> net'[i].id] ELSE NextMade)
                = (IF i < k THEN Coming[i] ELSE Coming[i + 1])
  <2>1. CASE i < Count'
    <3>1. i \in 1..(Len(net) - 1) /\ i < Count /\ i + 1 < Count /\ i \in 1..Count /\ i + 1 \in 1..Count
      BY <1>1, <1>2, <2>1
    <3>2. net'[i] = IF i < k THEN net[i] ELSE net[i + 1]
      BY <3>1 DEF TakesOut
    <3> QED
      BY <1>5, <2>1, <3>1, <3>2
  <2>2. CASE ~(i < Count')
    <3>1. ~(i < k) /\ i + 1 \in 1..Count /\ ~(i + 1 < Count)
      BY <1>1, <1>2, <2>2
    <3> QED
      BY <1>5, <2>2, <3>1
  <2> QED
    BY <2>1, <2>2
<1>7. Coming' = Without(Coming, Count, k)
  BY <1>2, <1>4, <1>6 DEF Without
<1> QED
  BY <1>1, <1>2, <1>7

\* What the callback is about to send joins the packets in flight, or is refused.
LEMMA ComingMade ==
    ASSUME PathTypes, PacketSend
    PROVE  /\ Count' \in {Count, Count + 1} /\ faults' = faults + (Count + 1 - Count')
           /\ \A i \in 1..Count' : i < Count' => Coming'[i] = Coming[i]
           /\ Coming[Count].id = packet.id /\ Coming[Count].seq = packet.seq
           /\ Coming'[Count'].id = packet.id + 1 /\ Coming'[Count'].seq = sequence_number
<1>1. net \in Seq(Packets) /\ packet \in Packets /\ faults \in Nat
  BY DEF PathTypes
<1>2. capture_pc = "sending" /\ capture_pc' # "sending"
  BY DEF PacketSend, AfterChunking
<1>3. NextMade = [seq |-> packet.seq, id |-> packet.id]
  BY <1>2 DEF NextMade
<1>4. NextMade' = [seq |-> sequence_number, id |-> packet.id + 1]
  BY <1>2 DEF NextMade, PacketSend
<1>5. /\ \A i \in 1..Count : Coming[i] = IF i < Count THEN [seq |-> net[i].seq, id |-> net[i].id] ELSE NextMade
      /\ \A i \in 1..Count' : Coming'[i] = IF i < Count' THEN [seq |-> net'[i].seq, id |-> net'[i].id] ELSE NextMade'
  BY DEF Coming
<1>6. CASE net' = Append(net, packet) /\ faults' = faults
  <2>1. Count \in Nat \ {0} /\ Count' = Count + 1
    BY <1>1, <1>6 DEF Count
  <2>2. ASSUME NEW i \in 1..Count', i < Count' PROVE Coming'[i] = Coming[i]
    <3>1. i \in 1..Count
      BY <2>1, <2>2
    <3>2. net'[i] = IF i < Count THEN net[i] ELSE packet
      BY <1>1, <1>6, <2>1, <3>1 DEF Count
    <3> QED
      BY <1>3, <1>5, <2>2, <3>1, <3>2
  <2>3. Coming[Count] = NextMade /\ Coming'[Count'] = NextMade'
    <3>1. Count \in 1..Count /\ ~(Count < Count) /\ Count' \in 1..Count' /\ ~(Count' < Count')
      BY <2>1
    <3>2. Coming[Count] = NextMade
      BY <1>5, <3>1
    <3>3. Coming'[Count'] = NextMade'
      BY <1>5, <3>1, Zenon
    <3> QED
      BY <3>2, <3>3
  <2>4. Count' \in {Count, Count + 1} /\ faults' = faults + (Count + 1 - Count')
    BY <1>1, <1>6, <2>1
  <2> QED
    BY <1>3, <1>4, <2>2, <2>3, <2>4
<1>7. CASE net' = net /\ faults' = faults + 1
  <2>1. Count \in Nat \ {0} /\ Count' = Count
    BY <1>1, <1>7 DEF Count
  <2>2. \A i \in 1..Count' : i < Count' => Coming'[i] = Coming[i]
    BY <1>5, <1>7, <2>1
  <2>3. Coming[Count] = NextMade /\ Coming'[Count'] = NextMade'
    <3>1. Count \in 1..Count /\ ~(Count < Count) /\ Count' \in 1..Count' /\ ~(Count' < Count')
      BY <2>1
    <3>2. Coming[Count] = NextMade
      BY <1>5, <3>1
    <3>3. Coming'[Count'] = NextMade'
      BY <1>5, <3>1, Zenon
    <3> QED
      BY <3>2, <3>3
  <2>4. Count' \in {Count, Count + 1} /\ faults' = faults + (Count + 1 - Count')
    BY <1>1, <1>7, <2>1
  <2> QED
    BY <1>3, <1>4, <2>2, <2>3, <2>4
<1> QED
  BY <1>6, <1>7 DEF PacketSend

\* What is to come then are packets still.
LEMMA ComingMadeType ==
    ASSUME PathTypes, PacketSend
    PROVE  Coming' \in [1..Count' -> Made]
<1>1. /\ Count' \in {Count, Count + 1} /\ Count \in Nat \ {0} /\ Coming \in [1..Count -> Made]
      /\ \A i \in 1..Count' : i < Count' => Coming'[i] = Coming[i]
  BY ComingMade, ComingIs
<1>2. NextMade' \in Made
  <2>1. NextMade' = [seq |-> sequence_number, id |-> packet.id + 1]
    BY DEF NextMade, PacketSend, AfterChunking
  <2> QED
    BY <2>1 DEF PathTypes, Packets, Made
<1>3. Coming' = [i \in 1..Count' |-> IF i < Count' THEN [seq |-> net'[i].seq, id |-> net'[i].id] ELSE NextMade']
  BY DEF Coming
<1>4. ASSUME NEW i \in 1..Count' PROVE Coming'[i] \in Made
  <2>1. CASE i < Count'
    BY <1>1, <2>1
  <2>2. CASE ~(i < Count')
    BY <1>2, <1>3, <2>2
  <2> QED
    BY <2>1, <2>2
<1> HIDE DEF Coming, Count
<1> QED
  BY <1>3, <1>4, Zenon

\* The callback takes a packet, which was the next one already; or nothing happens to
\* what is to come.
LEMMA ComingKept ==
    ASSUME PathTypes,
           \/ UNCHANGED <<net, capture_pc, packet, sequence_number>>
           \/ CaptureEnter \/ CaptureAppend \/ PacketTake
    PROVE  Count' = Count /\ Coming' = Coming
<1>1. net' = net /\ NextMade' = NextMade
  <2>1. CASE UNCHANGED <<net, capture_pc, packet, sequence_number>>
    BY <2>1 DEF NextMade
  <2>2. CASE CaptureEnter \/ CaptureAppend
    BY <2>2 DEF CaptureEnter, CaptureAppend, AfterChunking, NextMade, netVars
  <2>3. CASE PacketTake
    BY <2>3 DEF PacketTake, NextMade, netVars
  <2> QED
    BY <2>1, <2>2, <2>3
<1> QED
  BY <1>1 DEF Coming, Count

\* A new session restarts the numbers: of a packet not yet taken by the callback.
LEMMA ComingReset ==
    ASSUME PathTypes, UNCHANGED <<net, capture_pc, packet>>, sequence_number' = 0
    PROVE  /\ Count' = Count
           /\ \A i \in 1..Count : i < Count => Coming'[i] = Coming[i]
           /\ Coming'[Count].id = Coming[Count].id
           /\ Coming'[Count].seq \in {Coming[Count].seq, 0}
<1>1. Count' = Count /\ Count \in 1..Count /\ ~(Count < Count)
  BY ComingIs DEF Count
<1>2. NextMade'.id = NextMade.id /\ NextMade'.seq \in {NextMade.seq, 0}
  BY DEF NextMade
<1> QED
  BY <1>1, <1>2 DEF Coming

\* A packet is pushed, the first one at the latest.
LEMMA FirstStays ==
    ASSUME [Next]_vars
    PROVE  has_first_packet => has_first_packet'
BY DEF Next, Push, PushDropped, PushStored, Pop, PopSilence, PopStart, PopStep, DrainWithin,
       DrainPast, PlayWithin, PlayPast, PlayConceal, PlayDry, Tick, vars, gateVars

\* Nothing of a session is there before it has begun.
Quiet == /\ ~streaming /\ capture_pc = "out"
         /\ net = <<>> /\ packet.id = 0 /\ sequence_number = 0
         /\ last_played = 0 /\ \A i \in Indices : content[i] = 0

\* No CONNECT_REQ is through yet.
NotBegun == session = 0 \/ (session = 1 /\ net_pc \in {"accepted", "numbered"})

\* StartInv is kept by every step.
LEMMA StartStep ==
    ASSUME IInv, PathTypes, [PathNext]_pathVars, StartInv
    PROVE  StartInv'
<1>1. /\ source = "any" => session = 0
      /\ session = 0 => net_pc = "idle"
      /\ NotBegun => Quiet
      /\ ~has_first_packet => last_played = 0
  BY DEF StartInv, NotBegun, Quiet
<1>2. [Next]_vars /\ session \in Nat
  BY BufferStep DEF PathTypes
<1>s. ASSUME source' = "any" => session' = 0, session' = 0 => net_pc' = "idle",
             NotBegun' => Quiet', ~has_first_packet' => last_played' = 0
      PROVE  StartInv'
  BY <1>s DEF StartInv, NotBegun, Quiet
<1>3. CASE SessionStep
  <2>1. /\ UNCHANGED <<source, has_first_packet, last_played, capture_pc, packet, net, content>>
        /\ sequence_number' \in {sequence_number, 0}
    BY <1>3 DEF SessionStep, ConnectAccept, ConnectReset, CaptureRefused, ConnectStream,
       DisconnectClear, DisconnectListen, netVars, heardVars, vars, gateVars
  <2>2. CASE ConnectAccept
    <3>1. source = "server" /\ session' = session + 1 /\ UNCHANGED streaming
      BY <2>2 DEF ConnectAccept
    <3>2. session' # 0 /\ (NotBegun' => session = 0)
      BY <1>2, <3>1 DEF NotBegun
    <3> QED
      BY <1>1, <1>s, <2>1, <3>1, <3>2 DEF Quiet, NotBegun
  <2>3. CASE ConnectReset
    <3>1. net_pc = "accepted" /\ UNCHANGED <<streaming, session>>
      BY <2>3 DEF ConnectReset
    <3>2. session # 0 /\ (NotBegun' => NotBegun)
      BY <1>1, <3>1 DEF NotBegun
    <3> QED
      BY <1>1, <1>s, <2>1, <3>1, <3>2 DEF Quiet
  <2>4. CASE CaptureRefused \/ ConnectStream
    <3>1. net_pc = "numbered" /\ net_pc' = "idle" /\ UNCHANGED session
      BY <2>4 DEF CaptureRefused, ConnectStream
    <3>2. session # 0 /\ ~NotBegun'
      BY <1>1, <3>1 DEF NotBegun
    <3> QED
      BY <1>1, <1>s, <2>1, <3>1, <3>2
  <2>5. CASE DisconnectClear
    <3>1. streaming /\ net_pc' = "cleared" /\ UNCHANGED session
      BY <2>5 DEF DisconnectClear
    <3>2. session # 0 /\ ~NotBegun'
      BY <1>1, <3>1 DEF NotBegun, Quiet
    <3> QED
      BY <1>1, <1>s, <2>1, <3>1, <3>2
  <2>6. CASE DisconnectListen
    <3>1. net_pc = "cleared" /\ net_pc' = "idle" /\ UNCHANGED session
      BY <2>6 DEF DisconnectListen
    <3>2. session # 0 /\ ~NotBegun'
      BY <1>1, <3>1 DEF NotBegun
    <3> QED
      BY <1>1, <1>s, <2>1, <3>1, <3>2
  <2> QED
    BY <1>3, <2>2, <2>3, <2>4, <2>5, <2>6 DEF SessionStep
<1>4. CASE CaptureStep
  <2>1. UNCHANGED <<source, has_first_packet, last_played, session, net_pc>>
    BY <1>4 DEF CaptureStep, heardVars, vars, gateVars
  <2>2. streaming \/ capture_pc # "out"
    BY <1>4 DEF CaptureStep, CaptureEnter, CaptureAppend, PacketTake, PacketSend
  <2>3. ~NotBegun /\ (NotBegun' => NotBegun)
    BY <1>1, <2>1, <2>2 DEF NotBegun, Quiet
  <2> QED
    BY <1>1, <1>s, <2>1, <2>3
<1>5. CASE Lose \/ Receive \/ ReceiveOvertaking
  <2>1. UNCHANGED <<source, session, net_pc, last_played>>
    BY <1>5 DEF Lose, Receive, ReceiveOvertaking, PushReceived, serverVars, heardVars
  <2>2. net # <<>>
    BY <1>5 DEF Lose, Receive, ReceiveOvertaking, PathTypes
  <2>3. ~NotBegun /\ (NotBegun' => NotBegun)
    BY <1>1, <2>1, <2>2 DEF NotBegun, Quiet
  <2> QED
    BY <1>1, <1>2, <1>s, <2>1, <2>3, FirstStays
<1>6. CASE ReceiveAny \/ PlayAsks \/ UNCHANGED pathVars
  <2>1. UNCHANGED <<source, serverVars, netVars, heardVars>>
    BY <1>6 DEF ReceiveAny, PlayAsks, pathVars
  <2>2. (NotBegun' <=> NotBegun) /\ (Quiet' <=> Quiet)
    BY <2>1 DEF serverVars, netVars, heardVars, NotBegun, Quiet
  <2> QED
    BY <1>1, <1>2, <1>s, <2>1, <2>2, FirstStays DEF serverVars, heardVars
<1>7. CASE Play
  <2>1. UNCHANGED <<source, serverVars, netVars, has_first_packet>>
    BY <1>7 DEF Play, PopStep, DrainWithin, DrainPast, PlayWithin, PlayPast, PlayConceal,
       PlayDry, gateVars
  <2>2. /\ content' = ContentWith(content)
        /\ last_played' = last_played \/ (PlayheadLive /\ last_played' = content[SlotOf(next_play_seq)])
    BY <1>7 DEF Play
  <2>3. SlotOf(next_play_seq) \in Indices
    BY SlotInRange DEF IInv, TypeOK
  <2>4. ~has_first_packet => ~PlayheadLive
    BY <2>3 DEF IInv, FirstInv, PlayheadLive, Live
  <2>5. Quiet => Quiet'
    BY <2>1, <2>2, <2>3 DEF serverVars, netVars, Quiet, ContentWith
  <2>6. NotBegun' => NotBegun
    BY <2>1 DEF serverVars, NotBegun
  <2> QED
    BY <1>1, <1>s, <2>1, <2>2, <2>4, <2>5, <2>6 DEF serverVars
<1> QED
  BY <1>3, <1>4, <1>5, <1>6, <1>7 DEF PathNext

-----------------------------------------------------------------------------
\* What is to come stays numbered and in the order it was made.
LEMMA ComingTaken ==
    ASSUME PathTypes, ComingInv, NEW k, TakesOut(k), faults' \in Nat, faults + k - 1 <= faults'
    PROVE  ComingInv'
<1> DEFINE c == Coming
           n == Count
           d == Without(c, n, k)
<1>1. /\ k \in {1, 2} /\ k < n /\ Count' = n - 1 /\ Coming' = d
      /\ n \in Nat /\ c \in [1..n -> Made] /\ faults \in Nat /\ session \in Nat
  BY ComingWithout, ComingIs DEF TakesOut, PathTypes
<1>2. UNCHANGED <<capture_pc, packet, sequence_number, session>>
  BY DEF TakesOut
<1>3. Growing(d, n - 1, faults')
  BY <1>1, GrowingWithout DEF ComingInv
<1>4. \A i \in 1..(n - 1) : /\ d[i] = IF i < k THEN c[i] ELSE c[i + 1]
                            /\ i \in 1..n /\ i + 1 \in 1..n
  BY <1>1 DEF Without
<1>5. Numbered(c, n) => Numbered(d, n - 1)
  BY <1>4 DEF Numbered
<1>6. ASSUME faults' = 0, Chained(c, n)
      PROVE  Chained(d, n - 1)
  <2>1. k = 1 /\ faults = 0
    BY <1>1, <1>6
  <2> SUFFICES ASSUME NEW i \in 1..((n - 1) - 1)
               PROVE  d[i + 1].seq \in {SeqInc(d[i].seq), 0}
    BY DEF Chained
  <2>2. i \in 1..(n - 1) /\ i + 1 \in 1..(n - 1)
    BY <1>1
  <2>3. d[i] = c[i + 1] /\ d[i + 1] = c[(i + 1) + 1]
    BY <1>4, <2>1, <2>2
  <2> QED
    BY <1>6, <2>2, <2>3 DEF Chained
<1>7. faults' = 0 => faults = 0
  BY <1>1
<1> QED
  BY <1>1, <1>2, <1>3, <1>5, <1>6, <1>7 DEF ComingInv

\* ComingInv is kept by every step.
LEMMA ComingStep ==
    ASSUME IInv, PathTypes, PathTypes', [PathNext]_pathVars, StartInv, ComingInv
    PROVE  ComingInv'
<1> DEFINE c == Coming
           n == Count
           d == Coming'
           m == Count'
<1>1. /\ n \in Nat \ {0} /\ c \in [1..n -> Made] /\ c[n] = NextMade
      /\ faults \in Nat /\ session \in Nat /\ packet.id \in Nat /\ sequence_number \in SeqNums
      /\ faults' \in Nat
  BY ComingIs DEF PathTypes, Packets
<1>2. ASSUME NEW k, TakesOut(k), faults + k - 1 <= faults'
      PROVE  ComingInv'
  BY <1>1, <1>2, ComingTaken
<1>3. CASE Lose \/ Receive \/ ReceiveOvertaking
  <2>1. UNCHANGED <<capture_pc, packet, sequence_number, session>>
    BY <1>3 DEF Lose, Receive, ReceiveOvertaking, serverVars
  <2>2. CASE Lose \/ Receive
    <3>1. net # <<>> /\ net' = Tail(net) /\ faults + 1 - 1 <= faults'
      BY <1>1, <2>2 DEF Lose, Receive
    <3> QED
      BY <1>2, <2>1, <3>1, TakenOut
  <2>3. CASE ReceiveOvertaking
    <3>1. Len(net) > 1 /\ net' = RemoveAt(net, 2) /\ faults + 2 - 1 <= faults'
      BY <1>1, <2>3 DEF ReceiveOvertaking
    <3> QED
      BY <1>2, <2>1, <3>1, TakenOut
  <2> QED
    BY <1>3, <2>2, <2>3
<1>4. CASE CaptureStep /\ PacketSend
  <2>1. /\ m \in {n, n + 1} /\ faults' = faults + (n + 1 - m)
        /\ \A i \in 1..m : i < m => d[i] = c[i]
        /\ c[n].id = packet.id /\ c[n].seq = packet.seq
        /\ d[m].id = packet.id + 1 /\ d[m].seq = sequence_number
        /\ d \in [1..m -> Made]
    BY <1>4, ComingMade, ComingMadeType
  <2>2. capture_pc = "sending" /\ capture_pc' # "sending" /\ session' = session
    BY <1>4 DEF CaptureStep, PacketSend, AfterChunking
  <2> HIDE DEF c, d, n, m
  <2>3. \A i \in 1..m : i < m => i \in 1..n
    BY <1>1, <2>1
  <2>4. Growing(d, m, faults')
    <3>1. Growing(c, n, faults)
      BY DEF ComingInv, c, n
    <3>2. /\ m \in {n, n + 1}
          /\ \A i \in 1..m : i < m => d[i].id = c[i].id
          /\ d[m].id = c[n].id + 1
      BY <2>1
    <3>3. Growing(d, m, faults + (n + 1 - m))
      BY <1>1, <2>1, <3>1, <3>2, InStepMade
    <3> QED
      BY <2>1, <3>3
  <2>5. ASSUME session <= 1 PROVE Numbered(d, m)
    <3>1. Numbered(c, n) /\ sequence_number = packet.id % SEQ_MOD
      BY <2>2, <2>5 DEF ComingInv, c, n
    <3> SUFFICES ASSUME NEW i \in 1..m
                 PROVE  d[i].id > 0 /\ d[i].seq = (d[i].id - 1) % SEQ_MOD
      BY DEF Numbered
    <3>2. CASE i < m
      BY <2>1, <2>3, <3>1, <3>2 DEF Numbered
    <3>3. CASE i = m
      BY <1>1, <2>1, <3>1, <3>3
    <3> QED
      BY <1>1, <2>1, <3>2, <3>3
  <2>6. ASSUME faults' = 0 PROVE Chained(d, m)
    <3>1. faults = 0 /\ m = n + 1
      BY <1>1, <2>1, <2>6
    <3>2. Chained(c, n) /\ sequence_number \in {SeqInc(packet.seq), 0}
      BY <2>2, <3>1 DEF ComingInv, c, n
    <3> SUFFICES ASSUME NEW i \in 1..(m - 1)
                 PROVE  d[i + 1].seq \in {SeqInc(d[i].seq), 0}
      BY DEF Chained
    <3>3. i \in 1..m /\ i < m /\ d[i] = c[i]
      BY <1>1, <2>1
    <3>4. CASE i = n
      BY <1>1, <2>1, <3>1, <3>2, <3>3, <3>4
    <3>5. CASE i # n
      <4>1. i \in 1..(n - 1) /\ i + 1 \in 1..m /\ i + 1 < m
        BY <1>1, <3>1, <3>5
      <4> QED
        BY <2>1, <3>2, <3>3, <4>1 DEF Chained
    <3> QED
      BY <3>4, <3>5
  <2> QED
    BY <1>1, <2>1, <2>2, <2>4, <2>5, <2>6 DEF ComingInv, c, d, n, m
<1>5. CASE CaptureStep /\ PacketTake
  <2>1. m = n /\ d = c
    BY <1>5, ComingKept
  <2>2. /\ session' = session /\ faults' = faults
        /\ capture_pc # "sending" /\ packet'.id = packet.id + 1 /\ packet'.seq = sequence_number
        /\ sequence_number' = SeqInc(sequence_number)
    BY <1>5 DEF CaptureStep, PacketTake, netVars
  <2>3. ASSUME session <= 1 PROVE sequence_number' = packet'.id % SEQ_MOD
    <3>1. Numbered(c, n) /\ n \in 1..n
      BY <1>1, <2>3 DEF ComingInv
    <3>2. c[n].id = packet.id + 1 /\ c[n].seq = sequence_number
      BY <1>1, <2>2 DEF NextMade
    <3>3. sequence_number = ((packet.id + 1) - 1) % SEQ_MOD
      BY <3>1, <3>2 DEF Numbered
    <3> QED
      BY <1>1, <2>2, <3>3, NextNumber
  <2> QED
    BY <2>1, <2>2, <2>3 DEF ComingInv
<1>6. CASE SessionStep /\ ConnectReset
  <2>1. /\ UNCHANGED <<net, capture_pc, packet, session, faults>>
        /\ net_pc = "accepted" /\ sequence_number' = 0
    BY <1>6 DEF SessionStep, ConnectReset, netVars
  <2>2. /\ m = n
        /\ \A i \in 1..n : i < n => d[i] = c[i]
        /\ d[n].id = c[n].id
        /\ d[n].seq \in {c[n].seq, 0}
    BY <2>1, ComingReset
  <2>3. ASSUME session <= 1 PROVE sequence_number' = sequence_number /\ d = c
    <3>1. sequence_number = 0
      BY <1>1, <2>1, <2>3 DEF StartInv
    <3> QED
      BY <2>1, <3>1, ComingKept
  <2> HIDE DEF c, d, n, m
  <2>4. \A i \in 1..n : d[i].id = c[i].id
    BY <1>1, <2>2
  <2>5. Growing(d, n, faults)
    <3>1. Growing(c, n, faults)
      BY DEF ComingInv, c, n
    <3> QED
      BY <2>4, <3>1 DEF Growing
  <2>6. ASSUME faults = 0 PROVE Chained(d, n)
    <3>1. Chained(c, n)
      BY <2>6 DEF ComingInv, c, n
    <3> SUFFICES ASSUME NEW i \in 1..(n - 1)
                 PROVE  d[i + 1].seq \in {SeqInc(d[i].seq), 0}
      BY DEF Chained
    <3>2. i \in 1..n /\ i < n /\ d[i] = c[i] /\ i + 1 \in 1..n
      BY <1>1, <2>2
    <3>3. c[i + 1].seq \in {SeqInc(c[i].seq), 0}
      BY <3>1 DEF Chained
    <3>4. d[i + 1].seq \in {c[i + 1].seq, 0}
      BY <1>1, <2>2, <3>2
    <3> QED
      BY <3>2, <3>3, <3>4
  <2> QED
    BY <2>1, <2>2, <2>3, <2>5, <2>6 DEF ComingInv, c, d, n, m
<1>7. CASE \/ SessionStep /\ ~ConnectReset
           \/ CaptureStep /\ (CaptureEnter \/ CaptureAppend)
           \/ ReceiveAny \/ Play \/ PlayAsks \/ UNCHANGED pathVars
  <2>1. /\ faults' = faults /\ session' \in {session, session + 1}
        /\ \/ UNCHANGED <<net, capture_pc, packet, sequence_number>>
           \/ CaptureEnter \/ CaptureAppend
        /\ capture_pc' = "sending" => capture_pc = "sending" /\ UNCHANGED <<packet, sequence_number>>
    <3>1. CASE SessionStep /\ ~ConnectReset
      BY <3>1 DEF SessionStep, ConnectAccept, CaptureRefused, ConnectStream,
         DisconnectClear, DisconnectListen, netVars
    <3>2. CASE CaptureStep /\ (CaptureEnter \/ CaptureAppend)
      BY <3>2 DEF CaptureStep, CaptureEnter, CaptureAppend, AfterChunking, netVars
    <3>3. CASE ReceiveAny \/ Play \/ PlayAsks \/ UNCHANGED pathVars
      BY <3>3 DEF ReceiveAny, Play, PlayAsks, pathVars, serverVars, netVars
    <3> QED
      BY <1>7, <3>1, <3>2, <3>3
  <2>2. m = n /\ d = c
    BY <2>1, ComingKept
  <2>3. session' <= 1 => session <= 1
    BY <1>1, <2>1
  <2> QED
    BY <2>1, <2>2, <2>3 DEF ComingInv
<1> QED
  BY <1>3, <1>4, <1>5, <1>6, <1>7 DEF PathNext, CaptureStep

\* The packet at the playhead is the one made first of all that are held.
LEMMA OrderPlayed ==
    ASSUME NEW v, NEW head \in SeqNums, head \in DOMAIN v, DOMAIN v \in SUBSET SeqNums,
           \A u \in DOMAIN v : v[u] \in Nat,
           NEW last, NEW c, NEW n, c[1].id \in Nat, InOrder(v, head, last, c, n)
    PROVE  last <= v[head] /\ InOrder(v, head, v[head], c, n)
<1>1. ASSUME NEW u \in DOMAIN v PROVE v[head] <= v[u]
  <2>1. CASE u = head
    BY <2>1
  <2>2. CASE u # head
    <3>1. u \in SeqNums /\ Ahead(u, head) \in 0..(SEQ_MOD - 1) /\ Ahead(u, head) # 0
      BY <2>2, Distances, AheadZero
    <3>2. Ahead(head, head) = 0
      BY Distances
    <3>3. v[head] < v[u]
      BY <3>1, <3>2 DEF InOrder, Sorted
    <3> QED
      BY <3>3
  <2> QED
    BY <2>1, <2>2
<1>2. last <= v[head] /\ v[head] < c[1].id
  BY DEF InOrder
<1>3. v[head] <= c[1].id
  <2>1. v[head] \in Nat
    OBVIOUS
  <2> QED
    BY <1>2, <2>1
<1>4. \A u \in DOMAIN v : v[head] <= v[u] /\ v[u] < c[1].id
  BY <1>1 DEF InOrder
<1>5. Sorted(v, head) /\ (c[1].seq = 0 \/ Fits(v, head, c[1].seq))
  BY DEF InOrder
<1> QED
  BY <1>2, <1>3, <1>4, <1>5 DEF InOrder

\* And the order is kept when the playhead leaves its slot.
LEMMA InOrderLeave ==
    ASSUME NEW v, NEW head \in SeqNums, DOMAIN v \in SUBSET SeqNums, DOMAIN v # {},
           \A u \in DOMAIN v : v[u] \in Nat /\ Ahead(u, head) < MAX_SLOTS,
           NEW w, DOMAIN w = DOMAIN v \ {head}, \A u \in DOMAIN w : w[u] = v[u],
           NEW last, NEW c, NEW n, c[1].seq \in SeqNums, InOrder(v, head, last, c, n)
    PROVE  InOrder(w, SeqInc(head), last, c, n)
<1>1. Sorted(v, head)
  BY DEF InOrder
<1>2. /\ Sorted(w, SeqInc(head))
      /\ \A s \in SeqNums : Fits(v, head, s) => Fits(w, SeqInc(head), s)
  BY <1>1, OrderLeave
<1>3. \A u \in DOMAIN w : u \in DOMAIN v /\ w[u] = v[u]
  OBVIOUS
<1> QED
  BY <1>2, <1>3 DEF InOrder

-----------------------------------------------------------------------------
\* The three outcomes of a push, without loss: the packet s with the id p is followed by
\* the first of d.
FollowedBy(s, p, d) == d[1].seq \in {SeqInc(s), 0} /\ d[1].id \in Nat /\ p < d[1].id

\* Ids of packets in the window.
Near(v, head) ==
    /\ DOMAIN v \in SUBSET SeqNums
    /\ \A u \in DOMAIN v : v[u] \in Nat /\ Ahead(u, head) < MAX_SLOTS

\* It is late, or held already.
LEMMA InOrderKept ==
    ASSUME NEW v, NEW head \in SeqNums, Near(v, head),
           NEW last, last \in Nat, NEW c, NEW n, InOrder(v, head, last, c, n),
           NEW s \in SeqNums, NEW p \in Nat, c[1].seq = s, c[1].id = p,
           NEW d, NEW m, FollowedBy(s, p, d),
           Ahead(s, head) > SEQ_MOD - MAX_SLOTS \/ s \in DOMAIN v
    PROVE  InOrder(v, head, last, d, m)
<1>1. /\ Sorted(v, head) /\ (s = 0 \/ Fits(v, head, s))
      /\ last <= p /\ \A u \in DOMAIN v : last <= v[u] /\ v[u] < p
  BY DEF InOrder
<1>2. SeqInc(s) = 0 \/ Fits(v, head, SeqInc(s))
  BY <1>1, OrderKept DEF Near
<1>3. d[1].seq = 0 \/ Fits(v, head, d[1].seq)
  BY <1>2 DEF FollowedBy
<1>4. last <= d[1].id /\ \A u \in DOMAIN v : last <= v[u] /\ v[u] < d[1].id
  BY <1>1 DEF FollowedBy, Near
<1> QED
  BY <1>1, <1>3, <1>4 DEF InOrder

\* It is stored in the window.
LEMMA InOrderStored ==
    ASSUME NEW v, NEW head \in SeqNums, Near(v, head),
           NEW last, last \in Nat, NEW c, NEW n, InOrder(v, head, last, c, n),
           NEW s \in SeqNums, NEW p \in Nat, c[1].seq = s, c[1].id = p,
           NEW d, NEW m, FollowedBy(s, p, d),
           s \notin DOMAIN v, Ahead(s, head) < MAX_SLOTS,
           NEW w, Joined(w, v, s, p)
    PROVE  InOrder(w, head, last, d, m)
<1>1. /\ Sorted(v, head) /\ (s = 0 \/ Fits(v, head, s))
      /\ last <= p /\ \A u \in DOMAIN v : last <= v[u] /\ v[u] < p
  BY DEF InOrder
<1>2. DOMAIN w = DOMAIN v \cup {s} /\ w[s] = p /\ \A u \in DOMAIN v : w[u] = v[u]
  BY DEF Joined
<1>3. Sorted(w, head) /\ Fits(w, head, SeqInc(s))
  BY <1>1, <1>2, OrderStored DEF Near
<1>4. d[1].seq = 0 \/ Fits(w, head, d[1].seq)
  BY <1>3 DEF FollowedBy
<1>5. last <= d[1].id /\ \A u \in DOMAIN w : last <= w[u] /\ w[u] < d[1].id
  BY <1>1, <1>2 DEF FollowedBy, Near
<1> QED
  BY <1>3, <1>4, <1>5 DEF InOrder

\* It is the first, or one to resync to.
LEMMA InOrderRestarted ==
    ASSUME NEW s \in SeqNums, NEW p \in Nat, NEW last, last \in Nat, last <= p,
           NEW d, NEW m, FollowedBy(s, p, d),
           NEW w, DOMAIN w = {s}, w[s] = p
    PROVE  InOrder(w, s, last, d, m)
<1>1. Sorted(w, s) /\ Fits(w, s, SeqInc(s))
  BY OrderRestarted
<1>2. d[1].seq = 0 \/ Fits(w, s, d[1].seq)
  BY <1>1 DEF FollowedBy
<1>3. last <= d[1].id /\ \A u \in DOMAIN w : last <= w[u] /\ w[u] < d[1].id
  BY DEF FollowedBy
<1> QED
  BY <1>1, <1>2, <1>3 DEF InOrder

-----------------------------------------------------------------------------
\* A packet leaves the network for the buffer.
LEMMA ArrivalInStep ==
    ASSUME IInv, PathTypes, ComingInv, HeardInv, StartInv, source = "server",
           NEW k, TakesOut(k), NEW p \in Packets, p = net[k], PushReceived(p),
           faults' \in Nat, faults + k - 1 <= faults', session <= 1, faults' < MAX_SLOTS - 1
    PROVE  \E H \in 1..Coming'[Count'].id :
              InStep(HeldIds', next_play_seq', last_played', Coming', Count', faults', H)
<1> DEFINE c == Coming
           n == Count
           d == Without(c, n, k)
           v == HeldIds
           w == HeldIds'
           head == next_play_seq
           last == last_played
           s == p.seq
           g == faults'
<1>1. /\ k \in {1, 2} /\ k < n /\ k \in 1..Len(net) /\ Count' = n - 1 /\ Coming' = d
      /\ n \in Nat /\ c \in [1..n -> Made] /\ faults \in Nat
  BY ComingWithout, ComingIs DEF TakesOut, PathTypes
<1>2. c[k].seq = s /\ c[k].id = p.id /\ s \in SeqNums /\ p.id \in Nat
  <2>1. c[k] = [seq |-> net[k].seq, id |-> net[k].id]
    BY <1>1, ComingIs
  <2>2. s \in SeqNums /\ p.id \in Nat
    BY DEF Packets
  <2> QED
    BY <2>1, <2>2
<1>3. Numbered(c, n) /\ Growing(c, n, faults)
  BY DEF ComingInv
<1>4. Left(c, n, faults, k, g, d)
  BY <1>1, <1>3, WhatIsLeft
<1>5. d[n - 1].id = c[n].id /\ c[n].id \in Nat /\ c[k].id < c[n].id /\ c[k].id > 0
  <2>1. k \in 1..n /\ n \in 1..n
    BY <1>1
  <2>2. d[n - 1] = c[n] /\ c[k].id < c[n].id /\ c[n].id \in Nat
    BY <1>4, <2>1 DEF Left
  <2> QED
    BY <1>3, <2>1, <2>2 DEF Numbered
<1>6. /\ head \in SeqNums /\ last \in Nat
      /\ DOMAIN v \in SUBSET SeqNums /\ \A u \in DOMAIN v : v[u] \in Nat /\ Ahead(u, head) < MAX_SLOTS
  BY HeldIs DEF IInv, TypeOK, PathTypes
<1>7. last_played' = last
  BY Arrives
<1>f. faults + k - 1 < MAX_SLOTS - 1 /\ faults < MAX_SLOTS - 1
  BY <1>1, ThreeRings
<1>8. ASSUME has_first_packet
      PROVE  \E H \in Nat \ {0} : H <= c[n].id /\ InStep(v, head, last, c, n, faults, H)
  <2>1. PICK H \in 1..c[n].id : InStep(v, head, last, c, n, faults, H)
    BY <1>8, <1>f DEF HeardInv
  <2> QED
    BY <1>5, <2>1
<1> HIDE DEF c, n, d, v, w, head, last, s, g
<1>9. ASSUME NEW H \in Nat \ {0}, InStep(v, head, last, c, n, faults, H)
      PROVE  /\ c[k].id >= H => Ahead(s, head) = c[k].id - H
             /\ c[k].id < H => Ahead(s, head) > SEQ_MOD - MAX_SLOTS
             /\ Ahead(s, head) <= SEQ_MOD - MAX_SLOTS => c[k].id >= H
             /\ c[k].id <= H + MAX_SLOTS + faults + (k - 1)
  <2>1. k \in 1..n
    BY <1>1
  <2>2. c[k].id <= H + MAX_SLOTS + faults + (k - 1)
    BY <1>9, <2>1 DEF InStep
  <2>3. /\ c[k].id >= H => Ahead(c[k].seq, head) = c[k].id - H
        /\ c[k].id < H => Ahead(c[k].seq, head) > SEQ_MOD - MAX_SLOTS
        /\ Ahead(c[k].seq, head) <= SEQ_MOD - MAX_SLOTS => c[k].id >= H
    <3>1. k \in {1, 2} /\ k < n /\ n \in Nat /\ c \in [1..n -> Made] /\ faults \in Nat
      BY <1>1
    <3>2. head \in SeqNums /\ last \in Nat /\ Numbered(c, n)
      BY <1>3, <1>6
    <3> QED
      BY <3>1, <3>2, <1>9, <1>f, ArrivalIsNear, SMTT(30)
  <2> QED
    BY <1>2, <2>2, <2>3
<1>s. ASSUME NEW H \in Nat \ {0}, H <= c[n].id, InStep(w, next_play_seq', last, d, n - 1, g, H)
      PROVE  \E x \in 1..Coming'[Count'].id :
                InStep(HeldIds', next_play_seq', last_played', Coming', Count', faults', x)
  <2>1. H \in 1..Coming'[Count'].id
    BY <1>1, <1>5, <1>s
  <2> QED
    BY <1>1, <1>7, <1>s, <2>1 DEF w, g
<1>a. CASE /\ has_first_packet /\ next_play_seq' = head /\ w = v
           /\ Ahead(s, head) > SEQ_MOD - MAX_SLOTS \/ s \in DOMAIN v
  <2>1. PICK H \in Nat \ {0} : H <= c[n].id /\ InStep(v, head, last, c, n, faults, H)
    BY <1>8, <1>a
  <2>2. c[k].id < H + MAX_SLOTS
    <3>1. CASE s \in DOMAIN v
      BY <1>2, <1>6, <1>9, <2>1, <3>1, ThreeRings
    <3>2. CASE Ahead(s, head) > SEQ_MOD - MAX_SLOTS
      <4>1. /\ c[k].id >= H => Ahead(s, head) = c[k].id - H
            /\ c[k].id <= H + MAX_SLOTS + faults + (k - 1)
        BY <1>9, <2>1
      <4>2. /\ c[k].id \in Nat /\ faults \in Nat /\ k \in {1, 2}
            /\ Ahead(s, head) \in 0..(SEQ_MOD - 1)
        BY <1>1, <1>2, <1>6, Distances
      <4> QED
        BY <1>f, <3>2, <4>1, <4>2, ThreeRings
    <3> QED
      BY <1>a, <3>1, <3>2
  <2>3. InStep(v, head, last, d, n - 1, g, H)
    BY <1>4, <1>6, <2>1, <2>2, InStepDropped
  <2> QED
    BY <1>a, <1>s, <2>1, <2>3
<1>b. CASE /\ has_first_packet /\ next_play_seq' = head
           /\ Ahead(s, head) < MAX_SLOTS /\ s \notin DOMAIN v
           /\ DOMAIN w = DOMAIN v \cup {s} /\ w[s] = p.id
           /\ \A u \in DOMAIN v : w[u] = v[u]
  <2>1. PICK H \in Nat \ {0} : H <= c[n].id /\ InStep(v, head, last, c, n, faults, H)
    BY <1>8, <1>b
  <2>2. c[k].id = H + Ahead(s, head) /\ c[k].id < H + MAX_SLOTS
    <3>1. Ahead(s, head) <= SEQ_MOD - MAX_SLOTS
      BY <1>2, <1>6, <1>b, Distances, ThreeRings
    <3> QED
      BY <1>2, <1>9, <1>b, <2>1, <3>1, ThreeRings
  <2>3. InStep(w, head, last, d, n - 1, g, H)
    <3>1. Joined(w, v, s, c[k].id)
      BY <1>2, <1>b DEF Joined
    <3>2. \A u \in DOMAIN v : v[u] \in Nat
      BY <1>6
    <3> QED
      <4>1. H \in Nat /\ InStep(v, head, last, c, n, faults, H)
        BY <1>b, <2>1
      <4>2. Left(c, n, faults, k, g, d)
        BY <1>4
      <4> QED
        BY <2>2, <3>1, <3>2, <4>1, <4>2, InStepStored
  <2> QED
    BY <1>b, <1>s, <2>1, <2>3
<1>c. CASE /\ next_play_seq' = s
           /\ DOMAIN w = {s} /\ w[s] = p.id
           /\ has_first_packet => Ahead(s, head) \in MAX_SLOTS..(SEQ_MOD - MAX_SLOTS)
  <2>1. last <= p.id
    <3>1. CASE has_first_packet
      <4>1. PICK H \in Nat \ {0} : H <= c[n].id /\ InStep(v, head, last, c, n, faults, H)
        BY <1>8, <3>1
      <4>2. last <= H
        BY <4>1 DEF InStep
      <4>3. c[k].id >= H
        BY <1>9, <1>c, <3>1, <4>1
      <4> QED
        BY <1>2, <1>6, <4>2, <4>3
    <3>2. CASE ~has_first_packet
      BY <1>2, <3>2 DEF StartInv, last
    <3> QED
      BY <3>1, <3>2
  <2>2. InStep(w, s, last, d, n - 1, g, p.id)
    BY <1>2, <1>3, <1>4, <1>6, <1>c, <2>1, InStepRestarted
  <2> QED
    BY <1>2, <1>5, <1>c, <1>s, <2>2
<1> QED
  <2>1. \/ /\ has_first_packet /\ next_play_seq' = head /\ w = v
           /\ Ahead(s, head) > SEQ_MOD - MAX_SLOTS \/ s \in DOMAIN v
        \/ /\ has_first_packet /\ next_play_seq' = head
           /\ Ahead(s, head) < MAX_SLOTS /\ s \notin DOMAIN v
           /\ DOMAIN w = DOMAIN v \cup {s} /\ w[s] = p.id
           /\ \A u \in DOMAIN v : w[u] = v[u]
        \/ /\ next_play_seq' = s
           /\ DOMAIN w = {s} /\ w[s] = p.id
           /\ has_first_packet => Ahead(s, head) \in MAX_SLOTS..(SEQ_MOD - MAX_SLOTS)
    BY Arrives DEF head, w, v, s
  <2> QED
    BY <1>a, <1>b, <1>c, <2>1

\* The same without loss, over every session.
LEMMA ArrivalInOrder ==
    ASSUME IInv, PathTypes, ComingInv, HeardInv, StartInv, source = "server",
           NEW k, TakesOut(k), NEW p \in Packets, p = net[k], PushReceived(p),
           faults + k - 1 <= faults', faults' = 0
    PROVE  InOrder(HeldIds', next_play_seq', last_played', Coming', Count')
<1> DEFINE c == Coming
           n == Count
           d == Coming'
           m == Count'
           v == HeldIds
           w == HeldIds'
           head == next_play_seq
           last == last_played
           s == p.seq
<1>1. k = 1 /\ faults = 0
  BY DEF TakesOut, PathTypes
<1>2. /\ 1 < n /\ n \in Nat /\ c \in [1..n -> Made] /\ m = n - 1 /\ d = Without(c, n, 1)
      /\ 1 \in 1..Len(net)
  BY <1>1, ComingWithout, ComingIs
<1>3. c[1].seq = s /\ c[1].id = p.id /\ s \in SeqNums /\ p.id \in Nat
  <2>1. c[1] = [seq |-> net[1].seq, id |-> net[1].id]
    BY <1>2, ComingIs
  <2>2. s \in SeqNums /\ p.id \in Nat
    BY DEF Packets
  <2> QED
    BY <1>1, <2>1, <2>2
<1>4. d[1] = c[2] /\ c[2] \in Made
  BY <1>2 DEF Without
<1>5. FollowedBy(s, p.id, d)
  <2>1. Chained(c, n) /\ Growing(c, n, 0)
    BY <1>1 DEF ComingInv
  <2>2. 1 \in 1..(n - 1) /\ 1 \in 1..n /\ 2 \in 1..n
    BY <1>2
  <2>3. c[2].seq \in {SeqInc(c[1].seq), 0}
    BY <2>1, <2>2 DEF Chained
  <2>4. c[1].id < c[2].id
    BY <2>1, <2>2 DEF Growing
  <2> QED
    BY <1>3, <1>4, <2>3, <2>4 DEF Made, FollowedBy
<1>6. head \in SeqNums /\ last \in Nat /\ Near(v, head)
  BY HeldIs DEF IInv, TypeOK, PathTypes, Near
<1>7. last_played' = last
  BY Arrives
<1>8. has_first_packet => InOrder(v, head, last, c, n)
  BY <1>1 DEF HeardInv
<1>9. \/ /\ has_first_packet /\ next_play_seq' = head /\ w = v
         /\ Ahead(s, head) > SEQ_MOD - MAX_SLOTS \/ s \in DOMAIN v
      \/ /\ has_first_packet /\ next_play_seq' = head
         /\ Ahead(s, head) < MAX_SLOTS /\ s \notin DOMAIN v
         /\ DOMAIN w = DOMAIN v \cup {s} /\ w[s] = p.id
         /\ \A u \in DOMAIN v : w[u] = v[u]
      \/ /\ next_play_seq' = s
         /\ DOMAIN w = {s} /\ w[s] = p.id
  BY Arrives
<1> HIDE DEF c, n, d, m, v, w, head, last, s
<1>a. CASE /\ has_first_packet /\ next_play_seq' = head /\ w = v
           /\ Ahead(s, head) > SEQ_MOD - MAX_SLOTS \/ s \in DOMAIN v
  <2>1. InOrder(v, head, last, d, m)
    <3>1. InOrder(v, head, last, c, n)
      BY <1>8, <1>a
    <3> QED
      BY <1>3, <1>5, <1>6, <1>a, <3>1, InOrderKept
  <2> QED
    BY <1>7, <1>a, <2>1 DEF d, m, w
<1>b. CASE /\ has_first_packet /\ next_play_seq' = head
           /\ Ahead(s, head) < MAX_SLOTS /\ s \notin DOMAIN v
           /\ DOMAIN w = DOMAIN v \cup {s} /\ w[s] = p.id
           /\ \A u \in DOMAIN v : w[u] = v[u]
  <2>1. InOrder(w, head, last, d, m)
    <3>1. InOrder(v, head, last, c, n)
      BY <1>8, <1>b
    <3>2. Joined(w, v, s, p.id)
      BY <1>b DEF Joined
    <3> QED
      BY <1>3, <1>5, <1>6, <1>b, <3>1, <3>2, InOrderStored
  <2> QED
    BY <1>7, <1>b, <2>1 DEF d, m, w
<1>c. CASE /\ next_play_seq' = s
           /\ DOMAIN w = {s} /\ w[s] = p.id
  <2>1. last <= p.id
    <3>1. CASE has_first_packet
      <4>1. last <= c[1].id
        BY <1>8, <3>1 DEF InOrder
      <4> QED
        BY <1>3, <4>1
    <3>2. CASE ~has_first_packet
      BY <1>3, <3>2 DEF StartInv, last
    <3> QED
      BY <3>1, <3>2
  <2>2. InOrder(w, s, last, d, m)
    BY <1>3, <1>5, <1>6, <1>c, <2>1, InOrderRestarted
  <2> QED
    BY <1>7, <1>c, <2>2 DEF d, m, w
<1> QED
  BY <1>9, <1>a, <1>b, <1>c

-----------------------------------------------------------------------------
\* advance_playhead_locked is at a packet: frames it has still to shed are buffered
\* without a hole.
LEMMA DrainAtPacket ==
    ASSUME IInv, DrainInv, DrainKeepsTarget, pc = "drain"
    PROVE  PlayheadLive
<1>1. to_drop \in Nat /\ target_buffer_frames \in Nat /\ DrainMargin \in Nat
  BY FramesAssumption, DrainAssumption DEF IInv, TypeOK
<1>2. to_drop > 0 /\ available_frames >= to_drop + target_buffer_frames + DrainMargin
  BY DEF DrainInv, DrainKeepsTarget
<1> QED
  BY <1>1, <1>2, AvailableIs, FramesType

\* A slot is left only while the buffer holds something.
LEMMA LeavesHeld ==
    ASSUME IInv, PathTypes, DrainInv, DrainKeepsTarget, PopStep
    PROVE  \/ slots' = slots /\ next_play_seq' = next_play_seq
           \/ LeaveSlot /\ DOMAIN HeldIds # {}
<1>1. CASE DrainWithin \/ PlayWithin \/ PlayDry
  BY <1>1 DEF DrainWithin, PlayWithin, PlayDry, ringVars
<1>2. next_play_seq \in SeqNums
  BY DEF IInv, TypeOK
<1>3. CASE DrainPast \/ PlayPast
  <2>1. LeaveSlot /\ PlayheadLive
    BY <1>3, DrainAtPacket DEF DrainPast, PlayPast
  <2> QED
    BY <1>2, <2>1, HeldIs DEF PlayheadLive
<1>4. CASE PlayConceal
  <2>1. LeaveSlot /\ HasFuturePackets
    BY <1>4 DEF PlayConceal
  <2>2. PICK i \in 1..(MAX_SLOTS - 1) : slots[SlotOf(next_play_seq + i)].valid
    BY <2>1 DEF HasFuturePackets
  <2> DEFINE j == SlotOf(next_play_seq + i)
  <2>3. j \in Indices
    BY <1>2, RingAssumption DEF SlotOf
  <2> HIDE DEF j
  <2>4. slots[j].seq \in SeqNums /\ Live(slots, slots[j].seq)
    <3>1. slots[j].valid
      BY <2>2 DEF j
    <3>2. slots[j].seq \in SeqNums /\ SlotOf(slots[j].seq) = j
      BY <2>3, <3>1 DEF IInv, TypeOK, WindowInv
    <3> QED
      BY <3>1, <3>2 DEF Live
  <2> QED
    BY <2>1, <2>4, HeldIs
<1> QED
  BY <1>1, <1>3, <1>4 DEF PopStep

\* What playback hears, and what it leaves.
LEMMA PlayInStep ==
    ASSUME IInv, PathTypes, DrainInv, DrainKeepsTarget, Play,
           NEW H \in Nat \ {0},
           InStep(HeldIds, next_play_seq, last_played, Coming, Count, faults, H)
    PROVE  /\ last_played <= last_played'
           /\ \E G \in 1..Coming[Count].id :
                 InStep(HeldIds', next_play_seq', last_played', Coming, Count, faults, G)
<1> DEFINE c == Coming
           n == Count
           v == HeldIds
           w == HeldIds'
           head == next_play_seq
           last == last_played
           next == last_played'
<1>1. /\ n \in Nat \ {0} /\ c \in [1..n -> Made] /\ faults \in Nat
      /\ head \in SeqNums /\ last \in Nat
      /\ DOMAIN v \in SUBSET SeqNums /\ \A u \in DOMAIN v : v[u] \in Nat
      /\ head \in DOMAIN v <=> PlayheadLive
  BY ComingIs, HeldIs DEF IInv, TypeOK, PathTypes, PlayheadLive
<1>2. /\ PopStep /\ content' = ContentWith(content)
      /\ next = last \/ (PlayheadLive /\ next = content[SlotOf(head)])
  BY DEF Play
<1>3. last <= next /\ next \in Nat /\ InStep(v, head, next, c, n, faults, H)
  <2>1. CASE next = last
    BY <1>1, <2>1
  <2>2. CASE PlayheadLive /\ next = content[SlotOf(head)]
    <3>1. head \in DOMAIN v /\ next = v[head]
      BY <1>1, <2>2, HeldIs
    <3> HIDE DEF c, n, v, head, last
    <3>2. last <= v[head] /\ InStep(v, head, v[head], c, n, faults, H)
      <4>1. InStep(v, head, last, c, n, faults, H)
        BY DEF c, n, v, head, last
      <4> QED
        BY <1>1, <3>1, <4>1, InStepPlayed
    <3> QED
      BY <1>1, <3>1, <3>2
  <2> QED
    BY <1>2, <2>1, <2>2
<1>4. ASSUME NEW G \in Nat \ {0}, InStep(w, next_play_seq', next, c, n, faults, G)
      PROVE  \E x \in 1..c[n].id : InStep(w, next_play_seq', next, c, n, faults, x)
  <2>1. G <= c[n].id
    BY <1>4 DEF InStep
  <2>2. c[n].id \in Nat
    BY <1>1 DEF Made
  <2> HIDE DEF c, n, w, next
  <2>3. G \in 1..c[n].id
    BY <2>1, <2>2
  <2> QED
    BY <1>4, <2>3
<1>5. CASE slots' = slots /\ next_play_seq' = head
  <2>1. w = v
    BY <1>2, <1>5, HeldSame
  <2> HIDE DEF c, n, v, w, next, last
  <2>2. InStep(w, next_play_seq', next, c, n, faults, H)
    BY <1>3, <1>5, <2>1
  <2>3. (last <= next) /\ \E x \in 1..c[n].id : InStep(w, next_play_seq', next, c, n, faults, x)
    BY <1>3, <1>4, <2>2
  <2> QED
    BY <2>3 DEF c, n, w, next, last
<1>6. CASE LeaveSlot /\ DOMAIN v # {}
  <2>1. /\ next_play_seq' = SeqInc(head)
        /\ DOMAIN w = DOMAIN v \ {head} /\ \A u \in DOMAIN w : w[u] = v[u]
    BY <1>2, <1>6, HeldLeave
  <2> HIDE DEF c, n, v, w, next, last, head
  <2>2. InStep(w, SeqInc(head), next, c, n, faults, H + 1)
    BY <1>1, <1>3, <1>6, <2>1, InStepLeave
  <2>3. (last <= next) /\ \E x \in 1..c[n].id : InStep(w, next_play_seq', next, c, n, faults, x)
    BY <1>3, <1>4, <2>1, <2>2
  <2> QED
    BY <2>3 DEF c, n, w, next, last
<1> QED
  BY <1>2, <1>5, <1>6, LeavesHeld

\* The same without loss, over every session.
LEMMA PlayInOrder ==
    ASSUME IInv, PathTypes, DrainInv, DrainKeepsTarget, Play,
           InOrder(HeldIds, next_play_seq, last_played, Coming, Count)
    PROVE  /\ last_played <= last_played'
           /\ InOrder(HeldIds', next_play_seq', last_played', Coming, Count)
<1> DEFINE c == Coming
           n == Count
           v == HeldIds
           w == HeldIds'
           head == next_play_seq
           last == last_played
           next == last_played'
<1>1. /\ n \in Nat \ {0} /\ c \in [1..n -> Made]
      /\ head \in SeqNums /\ last \in Nat
      /\ DOMAIN v \in SUBSET SeqNums /\ \A u \in DOMAIN v : v[u] \in Nat /\ Ahead(u, head) < MAX_SLOTS
      /\ head \in DOMAIN v <=> PlayheadLive
  BY ComingIs, HeldIs DEF IInv, TypeOK, PathTypes, PlayheadLive
<1>2. /\ PopStep /\ content' = ContentWith(content)
      /\ next = last \/ (PlayheadLive /\ next = content[SlotOf(head)])
  BY DEF Play
<1>m. c[1].seq \in SeqNums /\ c[1].id \in Nat
  <2>1. 1 \in 1..n
    BY <1>1
  <2> HIDE DEF c, n
  <2>2. c[1] \in Made
    BY <1>1, <2>1
  <2> QED
    BY <2>2 DEF Made
<1>3. last <= next /\ InOrder(v, head, next, c, n)
  <2>1. CASE next = last
    BY <1>1, <2>1
  <2>2. CASE PlayheadLive /\ next = content[SlotOf(head)]
    <3>1. head \in DOMAIN v /\ next = v[head]
      BY <1>1, <2>2, HeldIs
    <3>2. InOrder(v, head, last, c, n)
      OBVIOUS
    <3> HIDE DEF c, n, v, head, last
    <3>3. last <= v[head] /\ InOrder(v, head, v[head], c, n)
      BY <1>1, <1>m, <3>1, <3>2, OrderPlayed
    <3> QED
      BY <1>1, <3>1, <3>3
  <2> QED
    BY <1>2, <2>1, <2>2
<1>5. CASE slots' = slots /\ next_play_seq' = head
  <2>1. w = v
    BY <1>2, <1>5, HeldSame
  <2> QED
    BY <1>3, <1>5, <2>1
<1>6. CASE LeaveSlot /\ DOMAIN v # {}
  <2>1. /\ next_play_seq' = SeqInc(head)
        /\ DOMAIN w = DOMAIN v \ {head} /\ \A u \in DOMAIN w : w[u] = v[u]
    BY <1>2, <1>6, HeldLeave
  <2> HIDE DEF c, n, v, w, next, last, head
  <2>2. InOrder(w, SeqInc(head), next, c, n)
    BY <1>1, <1>m, <1>3, <1>6, <2>1, InOrderLeave
  <2>3. (last <= next) /\ InOrder(w, next_play_seq', next, c, n)
    BY <1>3, <2>1, <2>2
  <2> QED
    BY <2>3 DEF c, n, w, next, last
<1> QED
  BY <1>2, <1>5, <1>6, LeavesHeld

\* The network gives the buffer a packet.
LEMMA HeardReceived ==
    ASSUME IInv, PathTypes, PathTypes', ComingInv, HeardInv, StartInv, source' = source,
           NEW k, TakesOut(k), NEW p \in Packets, p = net[k], PushReceived(p),
           faults + k - 1 <= faults'
    PROVE  HeardInv'
<1>1. faults' \in Nat /\ session' = session
  BY DEF PathTypes, TakesOut
<1>2. ASSUME source = "server", session <= 1, faults' < MAX_SLOTS - 1
      PROVE  \E H \in 1..Coming'[Count'].id :
                InStep(HeldIds', next_play_seq', last_played', Coming', Count', faults', H)
  BY <1>1, <1>2, ArrivalInStep
<1>3. ASSUME source = "server", faults' = 0
      PROVE  InOrder(HeldIds', next_play_seq', last_played', Coming', Count')
  BY <1>3, ArrivalInOrder
<1> QED
  BY <1>1, <1>2, <1>3 DEF HeardInv

\* The network loses one.
LEMMA HeardLost ==
    ASSUME IInv, PathTypes, ComingInv, HeardInv, Lose
    PROVE  HeardInv'
<1> DEFINE c == Coming
           n == Count
           d == Without(c, n, 1)
           v == HeldIds
           head == next_play_seq
           last == last_played
           f == faults
<1>1. /\ UNCHANGED <<slots, next_play_seq, has_first_packet, content, last_played, source, session>>
      /\ faults' = f + 1 /\ f \in Nat /\ session \in Nat
  BY DEF Lose, vars, ringVars, gateVars, serverVars, heardVars, PathTypes
<1>2. TakesOut(1)
  BY TakenOut DEF Lose, serverVars
<1>3. HeldIds' = v
  BY <1>1, HeldSame
<1>4. /\ 1 < n /\ n \in Nat /\ c \in [1..n -> Made] /\ Count' = n - 1 /\ Coming' = d
  BY <1>2, ComingWithout, ComingIs
<1>5. \A u \in DOMAIN v : v[u] \in Nat
  BY HeldIs
<1>6. Left(c, n, f, 1, f + 1, d)
  <2>1. Growing(c, n, f)
    BY DEF ComingInv
  <2> HIDE DEF c, n, f, d
  <2> QED
    BY <1>1, <1>4, <2>1, WhatIsLeft DEF d
<1>7. d[n - 1] = c[n]
  BY <1>6 DEF Left
<1>8. ASSUME source = "server", has_first_packet, session <= 1, f + 1 < MAX_SLOTS - 1
      PROVE  \E H \in 1..c[n].id : InStep(v, head, last, d, n - 1, f + 1, H)
  <2>1. f < MAX_SLOTS - 1
    BY <1>1, <1>8, ThreeRings
  <2>2. PICK H \in 1..c[n].id : InStep(v, head, last, c, n, f, H)
    BY <1>8, <2>1 DEF HeardInv
  <2>3. H \in Nat
    BY <2>2
  <2> HIDE DEF c, n, f, v, head, last
  <2>4. InStep(v, head, last, d, n - 1, f + 1, H)
    BY <1>5, <1>6, <2>2, <2>3, InStepLost
  <2> QED
    BY <2>2, <2>4
<1>9. faults' # 0
  BY <1>1
<1> QED
  BY <1>1, <1>3, <1>4, <1>7, <1>8, <1>9 DEF HeardInv

\* The server makes one more.
LEMMA HeardMade ==
    ASSUME IInv, PathTypes, ComingInv, HeardInv, CaptureStep, PacketSend
    PROVE  HeardInv'
<1> DEFINE c == Coming
           n == Count
           d == Coming'
           m == Count'
           v == HeldIds
           head == next_play_seq
           last == last_played
           f == faults
<1>1. UNCHANGED <<slots, next_play_seq, has_first_packet, content, last_played, source, session>>
  BY DEF CaptureStep, vars, ringVars, gateVars, heardVars
<1>2. HeldIds' = v
  BY <1>1, HeldSame
<1>3. /\ n \in Nat \ {0} /\ c \in [1..n -> Made] /\ f \in Nat /\ head \in SeqNums /\ last \in Nat
  BY ComingIs DEF PathTypes, IInv, TypeOK
<1>4. /\ m \in {n, n + 1} /\ d \in [1..m -> Made]
      /\ faults' = f + (n + 1 - m)
      /\ \A i \in 1..m : i < m => d[i] = c[i]
      /\ d[m].id = c[n].id + 1
  BY ComingMade, ComingMadeType
<1>5. Growing(c, n, f)
  BY DEF ComingInv
<1>6. \A u \in DOMAIN v : v[u] \in Nat
  BY HeldIs
<1>7. c[n].id \in Nat
  BY <1>3 DEF Made
<1>f. f <= faults' /\ (faults' = 0 => m = n + 1) /\ faults' \in Nat
  <2> HIDE DEF n, m, f
  <2> QED
    BY <1>3, <1>4
<1>8. ASSUME source = "server", has_first_packet, session <= 1, faults' < MAX_SLOTS - 1
      PROVE  \E H \in 1..d[m].id : InStep(v, head, last, d, m, faults', H)
  <2>1. f < MAX_SLOTS - 1
    BY <1>3, <1>f, <1>8, ThreeRings
  <2>2. PICK H \in 1..c[n].id : InStep(v, head, last, c, n, f, H)
    BY <1>8, <2>1 DEF HeardInv
  <2>3. H \in Nat \ {0} /\ H \in 1..d[m].id
    BY <1>4, <1>7, <2>2
  <2>4. \A i \in 1..m : i < m => d[i].id = c[i].id
    BY <1>4
  <2> HIDE DEF c, n, d, m, f, v, head, last
  <2>5. \A x, y : \A l \in Nat, h \in Nat \ {0} :
           (\A u \in DOMAIN x : x[u] \in Nat) /\ InStep(x, y, l, c, n, f, h)
             => InStep(x, y, l, d, m, f + (n + 1 - m), h)
    BY <1>3, <1>4, <1>5, <2>4, InStepMade
  <2>6. InStep(v, head, last, d, m, f + (n + 1 - m), H)
    BY <1>3, <1>6, <2>2, <2>3, <2>5
  <2> QED
    BY <1>4, <2>3, <2>6
<1>9. ASSUME source = "server", has_first_packet, faults' = 0
      PROVE  InOrder(v, head, last, d, m)
  <2>1. f = 0 /\ m = n + 1
    BY <1>3, <1>f, <1>9
  <2>2. InOrder(v, head, last, c, n)
    BY <1>9, <2>1 DEF HeardInv
  <2> HIDE DEF c, n, d, m, f, v, head, last
  <2>3. d[1] = c[1]
    BY <1>3, <1>4, <2>1
  <2> QED
    BY <2>2, <2>3 DEF InOrder
<1> QED
  BY <1>1, <1>2, <1>8, <1>9 DEF HeardInv

\* Playback goes on.
LEMMA HeardPlayed ==
    ASSUME IInv, PathTypes, HeardInv, StartInv, DrainInv, DrainKeepsTarget, Play
    PROVE  /\ HeardInv'
           /\ (session <= 1 /\ faults < MAX_SLOTS - 1) \/ faults = 0 => last_played <= last_played'
<1>1. /\ UNCHANGED <<source, serverVars, netVars, has_first_packet>> /\ PopStep
      /\ content' = ContentWith(content)
      /\ last_played' = last_played \/ (PlayheadLive /\ last_played' = content[SlotOf(next_play_seq)])
  BY DEF Play, PopStep, DrainWithin, DrainPast, PlayWithin, PlayPast, PlayConceal, PlayDry,
     gateVars
<1>2. UNCHANGED <<session, faults, net, capture_pc, packet, sequence_number>>
  BY <1>1 DEF serverVars, netVars
<1>3. Coming' = Coming /\ Count' = Count
  BY <1>2, ComingKept
<1>4. SlotOf(next_play_seq) \in Indices /\ last_played \in Nat
  BY SlotInRange DEF IInv, TypeOK, PathTypes
<1>5. ASSUME source = "server", has_first_packet, session <= 1, faults < MAX_SLOTS - 1
      PROVE  /\ last_played <= last_played'
             /\ \E G \in 1..Coming[Count].id :
                   InStep(HeldIds', next_play_seq', last_played', Coming, Count, faults, G)
  <2>1. PICK H \in 1..Coming[Count].id :
           InStep(HeldIds, next_play_seq, last_played, Coming, Count, faults, H)
    BY <1>5 DEF HeardInv
  <2>2. H \in Nat \ {0}
    BY <2>1
  <2> QED
    BY <2>1, <2>2, PlayInStep
<1>6. ASSUME source = "server", has_first_packet, faults = 0
      PROVE  /\ last_played <= last_played'
             /\ InOrder(HeldIds', next_play_seq', last_played', Coming, Count)
  BY <1>6, PlayInOrder DEF HeardInv
<1>7. HeardInv'
  BY <1>1, <1>2, <1>3, <1>5, <1>6 DEF HeardInv
<1>8. CASE source # "server"
  <2>1. session = 0
    BY <1>8 DEF StartInv, PathTypes
  <2>2. last_played = 0 /\ content[SlotOf(next_play_seq)] = 0
    BY <1>4, <2>1 DEF StartInv
  <2> QED
    BY <1>1, <1>7, <2>2
<1>9. CASE ~has_first_packet
  <2>1. ~PlayheadLive
    BY <1>4, <1>9 DEF IInv, FirstInv, PlayheadLive, Live
  <2> QED
    BY <1>1, <1>4, <1>7, <2>1
<1> QED
  BY <1>5, <1>6, <1>7, <1>8, <1>9

\* HeardInv is kept by every step, none of which plays back.
LEMMA HeardStep ==
    ASSUME IInv, PathTypes, PathTypes', [PathNext]_pathVars, StartInv, ComingInv, HeardInv,
           DrainInv, DrainKeepsTarget
    PROVE  /\ HeardInv'
           /\ (session <= 1 /\ faults < MAX_SLOTS - 1) \/ faults = 0 => last_played' >= last_played
<1>1. last_played \in Nat /\ faults \in Nat /\ faults' \in Nat /\ session \in Nat
  BY DEF PathTypes
<1>2. CASE Receive \/ ReceiveOvertaking
  <2>1. UNCHANGED <<capture_pc, packet, sequence_number, session, source, last_played>>
    BY <1>2 DEF Receive, ReceiveOvertaking, PushReceived, serverVars
  <2>2. CASE Receive
    <3>1. /\ net # <<>> /\ TakesOut(1) /\ Head(net) \in Packets /\ PushReceived(Head(net))
          /\ faults + 1 - 1 <= faults'
      BY <1>1, <2>1, <2>2, TakenOut, ReceivedIsPacket DEF Receive, PathTypes
    <3>2. Head(net) = net[1]
      BY <3>1 DEF PathTypes
    <3> QED
      BY <1>1, <2>1, <3>1, <3>2, HeardReceived
  <2>3. CASE ReceiveOvertaking
    <3>1. /\ TakesOut(2) /\ net[2] \in Packets /\ PushReceived(net[2])
          /\ faults + 2 - 1 <= faults'
      BY <1>1, <2>1, <2>3, TakenOut, ReceivedIsPacket DEF ReceiveOvertaking, PathTypes
    <3> QED
      BY <1>1, <2>1, <3>1, HeardReceived
  <2> QED
    BY <1>2, <2>2, <2>3
<1>3. CASE Lose
  BY <1>1, <1>3, HeardLost DEF Lose, heardVars
<1>4. CASE CaptureStep /\ PacketSend
  BY <1>1, <1>4, HeardMade DEF CaptureStep, heardVars
<1>5. CASE Play
  BY <1>1, <1>5, HeardPlayed DEF PathTypes
<1>6. CASE SessionStep /\ ConnectReset
  <2>1. /\ UNCHANGED <<slots, next_play_seq, has_first_packet, content, last_played, source,
                       session, faults, net, capture_pc, packet>>
        /\ net_pc = "accepted" /\ sequence_number' = 0
    BY <1>6 DEF SessionStep, ConnectReset, vars, ringVars, gateVars, netVars, heardVars
  <2>2. HeldIds' = HeldIds
    BY <2>1, HeldSame
  <2>3. ASSUME session <= 1 PROVE Coming' = Coming /\ Count' = Count
    <3>1. sequence_number = 0
      BY <1>1, <2>1, <2>3 DEF StartInv
    <3> QED
      BY <2>1, <3>1, ComingKept
  <2>4. Coming'[1].id = Coming[1].id /\ Coming'[1].seq \in {Coming[1].seq, 0}
    <3>1. Count \in Nat \ {0}
      BY ComingIs
    <3>2. 1 = Count \/ (1 \in 1..Count /\ 1 < Count)
      BY <3>1
    <3>3. /\ \A i \in 1..Count : i < Count => Coming'[i] = Coming[i]
          /\ Coming'[Count].id = Coming[Count].id
          /\ Coming'[Count].seq \in {Coming[Count].seq, 0}
      BY <2>1, ComingReset
    <3> QED
      BY <3>2, <3>3
  <2>5. InOrder(HeldIds, next_play_seq, last_played, Coming, Count)
          => InOrder(HeldIds, next_play_seq, last_played, Coming', Count')
    BY <2>4 DEF InOrder
  <2> QED
    BY <1>1, <2>1, <2>2, <2>3, <2>5 DEF HeardInv
<1>7. CASE \/ SessionStep /\ ~ConnectReset
           \/ CaptureStep /\ (CaptureEnter \/ CaptureAppend \/ PacketTake)
           \/ PlayAsks \/ UNCHANGED pathVars
  <2>1. /\ UNCHANGED <<slots, next_play_seq, has_first_packet, content, last_played, source, faults>>
        /\ session' \in {session, session + 1}
        /\ \/ UNCHANGED <<net, capture_pc, packet, sequence_number>>
           \/ CaptureEnter \/ CaptureAppend \/ PacketTake
    <3>1. CASE SessionStep /\ ~ConnectReset
      BY <3>1 DEF SessionStep, ConnectAccept, CaptureRefused, ConnectStream,
         DisconnectClear, DisconnectListen, netVars, heardVars, vars, ringVars, gateVars
    <3>2. CASE CaptureStep /\ (CaptureEnter \/ CaptureAppend \/ PacketTake)
      BY <3>2 DEF CaptureStep, CaptureEnter, CaptureAppend, PacketTake, netVars, heardVars,
         vars, ringVars, gateVars
    <3>3. CASE PlayAsks
      BY <3>3 DEF PlayAsks, Pop, PopSilence, PopStart, Tick, serverVars, netVars, heardVars,
         vars, ringVars, gateVars
    <3>4. CASE UNCHANGED pathVars
      BY <3>4 DEF pathVars, serverVars, netVars, heardVars, vars, ringVars, gateVars
    <3> QED
      BY <1>7, <3>1, <3>2, <3>3, <3>4
  <2>2. HeldIds' = HeldIds
    BY <2>1, HeldSame
  <2>3. Coming' = Coming /\ Count' = Count
    BY <2>1, ComingKept
  <2>4. session' <= 1 => session <= 1
    BY <1>1, <2>1
  <2> QED
    BY <1>1, <2>1, <2>2, <2>3, <2>4 DEF HeardInv
<1>8. CASE ReceiveAny
  BY <1>1, <1>8 DEF ReceiveAny, heardVars, HeardInv
<1> QED
  BY <1>2, <1>3, <1>4, <1>5, <1>6, <1>7, <1>8 DEF PathNext, CaptureStep

\* All three hold when nothing has happened.
LEMMA PathOrderInit ==
    ASSUME PathInit
    PROVE  StartInv /\ ComingInv /\ HeardInv
<1>1. StartInv
  BY DEF PathInit, NoPacket, StartInv
<1>2. HeardInv
  BY DEF PathInit, Init, HeardInv
<1>3. /\ session = 0 /\ faults = 0 /\ capture_pc = "out" /\ net = <<>>
      /\ packet.id = 0 /\ sequence_number = 0
  BY DEF PathInit, NoPacket
<1>4. Count = 1
  BY <1>3 DEF Count
<1>5. Coming[1] = [seq |-> 0, id |-> 1]
  BY <1>3, <1>4 DEF Coming, NextMade
<1>6. Growing(Coming, Count, faults)
  BY <1>4 DEF Growing
<1>7. Numbered(Coming, Count)
  <2>1. 0 % SEQ_MOD = 0
    BY RingAssumption
  <2> QED
    BY <1>4, <1>5, <2>1 DEF Numbered
<1>8. Chained(Coming, Count)
  BY <1>4 DEF Chained
<1> QED
  BY <1>1, <1>2, <1>3, <1>6, <1>7, <1>8 DEF ComingInv

\* In one session of which fewer than MAX_SLOTS - 1 packets are lost or overtaken, and over
\* any number of sessions of which none is, no packet is played after one made later.
THEOREM PlayedForward == PathSpec => NeverPlayedBack
<1> DEFINE PathOrder == StartInv /\ ComingInv /\ HeardInv
           Played == (session <= 1 /\ faults < MAX_SLOTS - 1) \/ faults = 0
                        => last_played' >= last_played
<1>1. PathInit => PathOrder
  BY PathOrderInit
<1>2. ASSUME IInv, PathTypes, PathTypes', DrainInv, DrainKeepsTarget,
             [PathNext]_pathVars, PathOrder
      PROVE  PathOrder' /\ Played
  <2>1. StartInv'
    BY <1>2, StartStep
  <2>2. ComingInv'
    BY <1>2, ComingStep
  <2>3. HeardInv' /\ Played
    BY <1>2, HeardStep
  <2> QED
    BY <2>1, <2>2, <2>3
<1>3. PathSpec => [](DrainInv /\ DrainKeepsTarget)
  BY PathImplementsBuffer, SpecDrain, PTL
<1> HIDE DEF PathOrder, Played
<1>4. IInv /\ PathTypes /\ PathTypes' /\ DrainInv /\ DrainKeepsTarget
        /\ [PathNext]_pathVars /\ PathOrder => PathOrder' /\ [Played]_pathVars
  BY <1>2
<1>5. PathSpec => [][Played]_pathVars
  BY <1>1, <1>3, <1>4, PathInvariant, PTL DEF PathSpec
<1> QED
  BY <1>5 DEF NeverPlayedBack, Played

-----------------------------------------------------------------------------
(* The capture engine (Capture).  start() runs on the network thread and    *)
(* stop() on the main thread without a common lock; that the capture thread *)
(* still never uses a released client rests on the order in which each of   *)
(* them sets and reads the engine's is_running_.                            *)

CallNames == {Calls[i] : i \in DOMAIN Calls}
Stopping == {"joinable", "join", "release"}
Using == {"size", "inner", "callback", "releasing"}

\* stop() is called after is_running_ of the server was cleared.
ServerInv == main_pc # "run" => ~server_running

\* A start() under way has not set is_running_ yet, and stop() has not seen it
\* set; between its test and its assignment nobody else clears the flag.
OrderInv ==
    /\ network_pc \in CallNames => ~is_running /\ main_pc \notin Stopping \cup {"mark"}
    /\ main_pc = "mark" => is_running
    /\ main_pc \in Stopping => ~is_running

\* The client is there as long as the flag is set, as start() is about to set
\* it, or as the thread is past its check of it; when stop() releases the
\* client, the thread is not.
ClientInv ==
    /\ is_running \/ network_pc = "Start" \/ thread \in Using => "capture_client" \in held
    /\ main_pc = "release" => thread \notin Using

EngineInv ==
    /\ ServerInv
    /\ engine = "wasapi" /\ ~restarted => OrderInv /\ ClientInv

-----------------------------------------------------------------------------
(* The calls of start()                                                    *)

\* A call that is not the last is followed by another one, and only GetService
\* is followed by Start.
LEMMA NextCall ==
    ASSUME NEW c \in CallNames, c # "Start"
    PROVE  /\ Calls[Index(c) + 1] \in CallNames
           /\ Calls[Index(c) + 1] = "Start" => c = "GetService"
<1>1. PICK i \in DOMAIN Calls : Calls[i] = c
  BY DEF CallNames
<1>2. Index(c) \in DOMAIN Calls /\ Calls[Index(c)] = c
  BY <1>1 DEF Index
<1>3. DOMAIN Calls = 1 .. 8
  BY DEF Calls
<1>4. Index(c) # 8
  BY <1>2 DEF Calls
<1>5. Index(c) + 1 \in DOMAIN Calls
  BY <1>2, <1>3, <1>4
<1>6. Calls[Index(c) + 1] = "Start" => Index(c) + 1 = 8
  BY <1>3, <1>5 DEF Calls
<1>7. Index(c) = 7 => c = "GetService"
  BY <1>2 DEF Calls
<1> QED
  BY <1>2, <1>3, <1>5, <1>6, <1>7 DEF CallNames

\* What the names of the calls are not.
LEMMA CallNamesAre ==
    CallNames = {"CoInitializeEx", "CoCreateInstance", "GetDefaultAudioEndpoint",
                 "Activate", "GetMixFormat", "Initialize", "GetService", "Start"}
<1>1. DOMAIN Calls = 1 .. 8
  BY DEF Calls
<1> QED
  BY <1>1 DEF CallNames, Calls

-----------------------------------------------------------------------------
(* Every step keeps the invariant                                          *)

LEMMA EngineServerStep ==
    ASSUME EngineInv, [CaptureNext]_captureVars
    PROVE  ServerInv'
<1>1. CASE Net
  BY <1>1 DEF EngineInv, ServerInv, Net, NetLoop, NetOther,
     ConnectReq, StartCall, StartFails, StartSpawn
<1>2. CASE Thread \/ DeviceLost \/ UNCHANGED captureVars
  BY <1>2 DEF EngineInv, ServerInv, Thread, ThreadCheck,
     ThreadSizeNone, ThreadSizeSome, ThreadInner,
     ThreadCallback, ThreadRelease, DeviceLost, engineVars,
     captureVars
<1>3. CASE Main
  BY <1>3 DEF EngineInv, ServerInv, Main, StopBegin, StopTest,
     StopMark, StopJoinable, StopJoin, StopRelease,
     StopReturn
<1> QED
  BY <1>1, <1>2, <1>3 DEF CaptureNext

\* The network thread.  Past a CONNECT_REQ that starts the engine although stop()
\* has begun, restarted is set.
LEMMA EngineNetStep ==
    ASSUME EngineInv, Net, engine = "wasapi", ~restarted'
    PROVE  OrderInv' /\ ClientInv'
<1> USE CallNamesAre
<1>1. OrderInv /\ ClientInv /\ ServerInv
  BY DEF EngineInv, Net, NetLoop, NetOther, ConnectReq,
     StartCall, StartFails, StartSpawn
<1>2. CASE NetLoop \/ NetOther \/ StartFails
  BY <1>1, <1>2 DEF OrderInv, ClientInv, NetLoop, NetOther,
     StartFails, Stopping, Using
<1>3. CASE ConnectReq
  <2>1. CASE is_running
    BY <1>1, <1>3, <2>1 DEF OrderInv, ClientInv, ConnectReq, Stopping, Using
  <2>2. CASE ~is_running
    <3>1. server_running /\ main_pc = "run"
      BY <1>1, <1>3, <2>2 DEF ConnectReq, ServerInv
    <3>2. network_pc' = "CoInitializeEx"
      BY <1>3, <2>2 DEF ConnectReq, Calls
    <3> QED
      BY <1>1, <1>3, <2>2, <3>1, <3>2 DEF OrderInv, ClientInv, ConnectReq,
         Stopping, Using
  <2> QED
    BY <2>1, <2>2
<1>4. CASE StartCall
  <2>1. network_pc \in CallNames
    BY <1>4 DEF StartCall, CallNames
  <2>2. CASE network_pc = "Start"
    <3>1. "Start" \notin DOMAIN Resource
      BY DEF Resource
    <3> QED
      BY <1>1, <1>4, <2>1, <2>2, <3>1 DEF OrderInv, ClientInv, StartCall, Stopping,
         Using
  <2>3. CASE network_pc # "Start"
    <3>1. network_pc' \in CallNames /\ (network_pc' = "Start" => network_pc = "GetService")
      BY <1>4, <2>1, <2>3, NextCall DEF StartCall
    <3>2. held \subseteq held'
      BY <1>4 DEF StartCall
    <3>3. network_pc = "GetService" => "capture_client" \in held'
      BY <1>4 DEF StartCall, Resource
    <3> QED
      BY <1>1, <1>4, <2>1, <2>3, <3>1, <3>2, <3>3 DEF OrderInv, ClientInv,
         StartCall, Stopping, Using
  <2> QED
    BY <2>2, <2>3
<1>5. CASE StartSpawn
  BY <1>1, <1>5 DEF OrderInv, ClientInv, StartSpawn, Stopping, Using
<1> QED
  BY <1>2, <1>3, <1>4, <1>5 DEF Net

\* The capture thread.  It enters its loop only while is_running_ is set.
LEMMA EngineThreadStep ==
    ASSUME EngineInv, Thread \/ DeviceLost \/ UNCHANGED captureVars,
           engine = "wasapi", ~restarted'
    PROVE  OrderInv' /\ ClientInv'
<1>1. OrderInv /\ ClientInv
  BY DEF EngineInv, Thread, ThreadCheck, ThreadSizeNone,
     ThreadSizeSome, ThreadInner, ThreadCallback,
     ThreadRelease, DeviceLost, engineVars, captureVars
<1>2. UNCHANGED <<is_running, network_pc, main_pc, held>>
  BY DEF Thread, ThreadCheck, ThreadSizeNone, ThreadSizeSome,
     ThreadInner, ThreadCallback, ThreadRelease, DeviceLost,
     engineVars, captureVars
<1>3. thread' \in Using => thread \in Using \/ (thread = "check" /\ is_running)
  BY DEF Thread, ThreadCheck, ThreadSizeNone, ThreadSizeSome,
     ThreadInner, ThreadCallback, ThreadRelease, DeviceLost,
     engineVars, captureVars, Using
<1> QED
  BY <1>1, <1>2, <1>3 DEF OrderInv, ClientInv, Stopping

\* stop(): it releases the client with is_running_ cleared and the thread joined,
\* or not yet made.
LEMMA EngineMainStep ==
    ASSUME EngineInv, Main, engine = "wasapi", ~restarted'
    PROVE  OrderInv' /\ ClientInv'
<1> USE CallNamesAre DEF OrderInv, ClientInv, Stopping, Using
<1>1. OrderInv /\ ClientInv
  BY DEF EngineInv, Main, StopBegin, StopTest, StopMark,
     StopJoinable, StopJoin, StopRelease, StopReturn
<1>2. CASE StopBegin \/ StopTest \/ StopReturn
  BY <1>1, <1>2 DEF StopBegin, StopTest, StopReturn
<1>3. CASE StopMark
  BY <1>1, <1>3 DEF StopMark
<1>4. CASE StopJoinable
  BY <1>1, <1>4 DEF StopJoinable
<1>5. CASE StopJoin
  BY <1>1, <1>5 DEF StopJoin
<1>6. CASE StopRelease
  BY <1>1, <1>6 DEF StopRelease
<1> QED
  BY <1>2, <1>3, <1>4, <1>5, <1>6 DEF Main

\* Who holds the COM objects at which program point of start(), the capture thread and
\* stop() is an invariant of the engine.
LEMMA CaptureInductive == CaptureSpec => []EngineInv
<1>1. CaptureInit => EngineInv
  BY CallNamesAre DEF CaptureInit, EngineInv, ServerInv, OrderInv, ClientInv, Stopping,
     Using
<1>2. EngineInv /\ [CaptureNext]_captureVars => EngineInv'
  <2> SUFFICES ASSUME EngineInv, [CaptureNext]_captureVars PROVE EngineInv'
    OBVIOUS
  <2>1. engine' = engine
    BY DEF CaptureNext, captureVars, Net, NetLoop, NetOther,
       ConnectReq, StartCall, StartFails, StartSpawn,
       Thread, ThreadCheck, ThreadSizeNone, ThreadSizeSome,
       ThreadInner, ThreadCallback, ThreadRelease, DeviceLost,
       engineVars, Main, StopBegin, StopTest, StopMark,
       StopJoinable, StopJoin, StopRelease, StopReturn
  <2>2. ASSUME engine = "wasapi", ~restarted' PROVE OrderInv' /\ ClientInv'
    BY <2>2, EngineNetStep, EngineThreadStep, EngineMainStep DEF CaptureNext
  <2> QED
    BY <2>1, <2>2, EngineServerStep DEF EngineInv
<1> QED
  BY <1>1, <1>2, PTL DEF CaptureSpec

\* The capture thread calls no method of a client that stop() has released, unless a
\* CONNECT_REQ called start() again after stop() began.
THEOREM ClientAlwaysHeld == CaptureSpec => []ClientHeldWhileUsed
<1>1. EngineInv => ClientHeldWhileUsed
  BY DEF EngineInv, ClientInv, Using, ClientHeldWhileUsed
<1> QED
  BY <1>1, CaptureInductive, PTL
=============================================================================
