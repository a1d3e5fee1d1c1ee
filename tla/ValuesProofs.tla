----------------------------- MODULE ValuesProofs -----------------------------
(***************************************************************************)
(* Lemmas about what the tasks compute, for all values: sums over finite   *)
(* sets, the distance and the magnitude of two sides, the age of a feed.   *)
(***************************************************************************)
EXTENDS Values, Functions, FiniteSetTheorems, WellFoundedInduction, TLAPS

-----------------------------------------------------------------------------
(* SumFunctionOnSet(v, S), the sum of v[x] for x in S: that it is what its  *)
(* name says does not depend on the order in which the elements of S are    *)
(* taken.                                                                   *)

\* Complete induction, as a least counterexample.
LEMMA LeastOf ==
    ASSUME NEW T, T \subseteq Nat, T # {}
    PROVE  \E n \in T : \A m \in T : n <= m
<1> DEFINE R == OpToRel(<, Nat)
<1>1. IsWellFoundedOn(R, Nat)
  BY NatLessThanWellFounded
<1>2. \E n \in T : \A m \in T : <<m, n>> \notin R
  <2> HIDE DEF R
  <2> QED
    BY <1>1, WFMin
<1>3. PICK n \in T : \A m \in T : <<m, n>> \notin R
  BY <1>2
<1>4. \A m \in T : ~(m < n)
  BY <1>3 DEF OpToRel
<1>5. QED
  BY <1>4

\* The element that is taken first.
Chosen(s) == CHOOSE x \in s : TRUE

\* f[s] is the sum of v over s, for the s of D.
SumsOn(f, v, D) ==
    f = [s \in D |-> IF s = {} THEN 0 ELSE v[Chosen(s)] + f[s \ {Chosen(s)}]]

LEMMA SumIsChosen ==
    ASSUME NEW v, NEW S
    PROVE  SumFunctionOnSet(v, S) = (CHOOSE f : SumsOn(f, v, SUBSET S))[S]
  BY DEF SumFunctionOnSet, FoldFunctionOnSet, MapThenFoldSet, SumsOn, Chosen

\* A finite set without one of its elements.
LEMMA OneLess ==
    ASSUME NEW S, IsFiniteSet(S), NEW x \in S
    PROVE  /\ IsFiniteSet(S \ {x}) /\ Cardinality(S) \in Nat /\ Cardinality(S \ {x}) \in Nat
           /\ Cardinality(S) = Cardinality(S \ {x}) + 1
  BY FS_RemoveElement, FS_CardinalityType

Small(S, n) == {s \in SUBSET S : Cardinality(s) <= n}

\* Sums of sets of n + 1 elements are built from those of n.
LEMMA SumsExtend ==
    ASSUME NEW S, IsFiniteSet(S), NEW v, NEW n \in Nat,
           NEW f, SumsOn(f, v, Small(S, n))
    PROVE  \E g : SumsOn(g, v, Small(S, n + 1))
<1> DEFINE g == [s \in Small(S, n + 1) |->
                    IF s = {} THEN 0 ELSE v[Chosen(s)] + f[s \ {Chosen(s)}]]
<1>1. ASSUME NEW s \in Small(S, n + 1), s # {}
      PROVE  s \ {Chosen(s)} \in Small(S, n) /\ s \ {Chosen(s)} \in Small(S, n + 1)
  <2>1. Chosen(s) \in s
    BY <1>1 DEF Chosen
  <2>2. IsFiniteSet(s) /\ Cardinality(s) <= n + 1
    BY FS_Subset DEF Small
  <2>3. Cardinality(s \ {Chosen(s)}) <= n /\ Cardinality(s \ {Chosen(s)}) \in Nat
    BY <2>1, <2>2, OneLess
  <2>4. QED
    BY <2>3 DEF Small
<1>2. ASSUME NEW s \in Small(S, n) PROVE s \in Small(S, n + 1) /\ g[s] = f[s]
  <2>1. s \in Small(S, n + 1)
    <3>1. IsFiniteSet(s) /\ Cardinality(s) \in Nat
      BY FS_Subset, FS_CardinalityType DEF Small
    <3>2. QED
      BY <3>1 DEF Small
  <2>2. f[s] = IF s = {} THEN 0 ELSE v[Chosen(s)] + f[s \ {Chosen(s)}]
    BY DEF SumsOn
  <2>3. QED
    BY <2>1, <2>2
<1>3. ASSUME NEW s \in Small(S, n + 1), s # {} PROVE f[s \ {Chosen(s)}] = g[s \ {Chosen(s)}]
  BY <1>1, <1>2, <1>3
<1>4. SumsOn(g, v, Small(S, n + 1))
  BY <1>3 DEF SumsOn
<1>5. QED
  BY <1>4

LEMMA SumsExist ==
    ASSUME NEW S, IsFiniteSet(S), NEW v
    PROVE  \E f : SumsOn(f, v, SUBSET S)
<1>1. \A n \in Nat : \E f : SumsOn(f, v, Small(S, n))
  <2> DEFINE T == {n \in Nat : ~\E f : SumsOn(f, v, Small(S, n))}
  <2> SUFFICES ASSUME T # {} PROVE FALSE
    OBVIOUS
  <2>1. PICK n \in T : \A m \in T : n <= m
    <3>1. T \subseteq Nat
      OBVIOUS
    <3> HIDE DEF T
    <3>2. QED
      BY <3>1, LeastOf
  <2>2. CASE n = 0
    <3> DEFINE f == [s \in Small(S, 0) |-> 0]
    <3>1. ASSUME NEW s \in Small(S, 0) PROVE s = {}
      <4>1. IsFiniteSet(s) /\ Cardinality(s) = 0
        BY FS_Subset, FS_CardinalityType DEF Small
      <4>2. QED
        BY <4>1, FS_EmptySet
    <3>2. SumsOn(f, v, Small(S, 0))
      BY <3>1 DEF SumsOn
    <3>3. QED
      BY <2>2, <3>2
  <2>3. CASE n # 0
    <3>1. n - 1 \in Nat /\ n - 1 \notin T /\ (n - 1) + 1 = n
      BY <2>1, <2>3
    <3>2. PICK f : SumsOn(f, v, Small(S, n - 1))
      BY <3>1
    <3>3. \E g : SumsOn(g, v, Small(S, (n - 1) + 1))
      BY <3>1, <3>2, SumsExtend
    <3>4. QED
      BY <3>1, <3>3
  <2>4. QED
    BY <2>2, <2>3
<1>2. Small(S, Cardinality(S)) = SUBSET S
  BY FS_Subset DEF Small
<1>3. Cardinality(S) \in Nat
  BY FS_CardinalityType
<1>4. \E f : SumsOn(f, v, Small(S, Cardinality(S)))
  BY <1>1, <1>3
<1>5. QED
  BY <1>2, <1>4

\* The sum over s is the same as part of any larger set.
LEMMA SumsAgree ==
    ASSUME NEW S, NEW T, NEW v, NEW f, NEW g,
           IsFiniteSet(S), T \subseteq S, SumsOn(f, v, SUBSET S), SumsOn(g, v, SUBSET T)
    PROVE  \A s \in SUBSET T : f[s] = g[s]
<1> DEFINE W == {n \in Nat : \E s \in SUBSET T : Cardinality(s) = n /\ f[s] # g[s]}
<1> SUFFICES ASSUME NEW s0 \in SUBSET T, f[s0] # g[s0] PROVE FALSE
  OBVIOUS
<1>1. \A s \in SUBSET T : IsFiniteSet(s) /\ Cardinality(s) \in Nat
  BY FS_Subset, FS_CardinalityType
<1>2. W \subseteq Nat /\ W # {}
  BY <1>1
<1>3. PICK n \in W : \A m \in W : n <= m
  <2> HIDE DEF W
  <2> QED
    BY <1>2, LeastOf
<1>4. PICK s \in SUBSET T : Cardinality(s) = n /\ f[s] # g[s]
  OBVIOUS
<1>5. /\ f[s] = IF s = {} THEN 0 ELSE v[Chosen(s)] + f[s \ {Chosen(s)}]
      /\ g[s] = IF s = {} THEN 0 ELSE v[Chosen(s)] + g[s \ {Chosen(s)}]
  BY DEF SumsOn
<1>6. s # {}
  BY <1>4, <1>5
<1>7. Chosen(s) \in s
  BY <1>6 DEF Chosen
<1>8. Cardinality(s \ {Chosen(s)}) < n /\ Cardinality(s \ {Chosen(s)}) \in Nat
  BY <1>1, <1>4, <1>7, OneLess
<1>9. s \ {Chosen(s)} \in SUBSET T /\ Cardinality(s \ {Chosen(s)}) \notin W
  <2>1. n \in Nat
    OBVIOUS
  <2> HIDE DEF W
  <2>2. ~(n <= Cardinality(s \ {Chosen(s)}))
    BY <1>8, <2>1
  <2>3. QED
    BY <1>3, <2>2
<1>10. f[s \ {Chosen(s)}] = g[s \ {Chosen(s)}]
  BY <1>8, <1>9
<1>11. QED
  BY <1>4, <1>5, <1>10

\* The recursion, in terms of the sums themselves.
LEMMA SumStep ==
    ASSUME NEW S, IsFiniteSet(S), NEW v
    PROVE  SumFunctionOnSet(v, S) =
              IF S = {} THEN 0 ELSE v[Chosen(S)] + SumFunctionOnSet(v, S \ {Chosen(S)})
<1>1. PICK f : SumsOn(f, v, SUBSET S) /\ SumFunctionOnSet(v, S) = f[S]
  BY SumIsChosen, SumsExist
<1>2. PICK T : T = S \ {Chosen(S)}
  OBVIOUS
<1>3. IsFiniteSet(T) /\ T \subseteq S
  BY <1>2, FS_Subset
<1>4. PICK g : SumsOn(g, v, SUBSET T) /\ SumFunctionOnSet(v, T) = g[T]
  BY <1>3, SumIsChosen, SumsExist
<1>5. \A s \in SUBSET T : f[s] = g[s]
  BY <1>1, <1>3, <1>4, SumsAgree, SMTT(60)
<1>6. f[S] = IF S = {} THEN 0 ELSE v[Chosen(S)] + f[T]
  BY <1>1, <1>2 DEF SumsOn
<1>7. QED
  BY <1>1, <1>2, <1>4, <1>5, <1>6

-----------------------------------------------------------------------------
(* What the sum is.                                                         *)

LEMMA SumOfNone ==
    ASSUME NEW v
    PROVE  SumFunctionOnSet(v, {}) = 0
  BY SumStep, FS_EmptySet

\* A property of finite sets, given as the set W of the cardinalities at which it fails:
\* nothing fails if whatever fails has something smaller that does.
LEMMA NothingFails ==
    ASSUME NEW W, W \subseteq Nat, \A n \in W : \E m \in W : m < n
    PROVE  W = {}
<1> SUFFICES ASSUME W # {} PROVE FALSE
  OBVIOUS
<1>1. PICK n \in W : \A m \in W : n <= m
  BY LeastOf
<1>2. PICK m \in W : m < n
  OBVIOUS
<1>3. QED
  BY <1>1, <1>2

LEMMA SumIsInt ==
    ASSUME NEW S, IsFiniteSet(S), NEW v, \A x \in S : v[x] \in Int
    PROVE  SumFunctionOnSet(v, S) \in Int
<1> DEFINE Sum(s) == SumFunctionOnSet(v, s)
           W == {n \in Nat : \E s \in SUBSET S : Cardinality(s) = n /\ Sum(s) \notin Int}
<1>1. \A s \in SUBSET S : IsFiniteSet(s) /\ Cardinality(s) \in Nat
  BY FS_Subset, FS_CardinalityType
<1>2. ASSUME NEW n \in W PROVE \E m \in W : m < n
  <2>1. PICK s \in SUBSET S : Cardinality(s) = n /\ Sum(s) \notin Int
    OBVIOUS
  <2>2. s # {}
    BY <2>1, SumOfNone
  <2>3. Chosen(s) \in s
    BY <2>2 DEF Chosen
  <2>4. Sum(s) = v[Chosen(s)] + Sum(s \ {Chosen(s)})
    BY <1>1, <2>2, SumStep
  <2> HIDE DEF Sum
  <2>5. Sum(s \ {Chosen(s)}) \notin Int
    BY <2>1, <2>3, <2>4
  <2>6. /\ Cardinality(s \ {Chosen(s)}) < n
        /\ Cardinality(s \ {Chosen(s)}) \in Nat /\ s \ {Chosen(s)} \in SUBSET S
    BY <1>1, <2>1, <2>3, OneLess
  <2>7. QED
    BY <2>5, <2>6
<1>3. W = {}
  <2>1. W \subseteq Nat
    OBVIOUS
  <2> HIDE DEF W
  <2>2. QED
    BY <1>2, <2>1, NothingFails
<1>4. QED
  BY <1>1, <1>3

\* Any element may be taken first.
LEMMA SumTakes ==
    ASSUME NEW S, IsFiniteSet(S), NEW v, \A x \in S : v[x] \in Int, NEW x \in S
    PROVE  SumFunctionOnSet(v, S) = v[x] + SumFunctionOnSet(v, S \ {x})
<1> DEFINE Sum(s) == SumFunctionOnSet(v, s)
           Takes(s, y) == Sum(s) = v[y] + Sum(s \ {y})
           W == {n \in Nat : \E s \in SUBSET S : Cardinality(s) = n /\ \E y \in s : ~Takes(s, y)}
<1>1. \A s \in SUBSET S : IsFiniteSet(s) /\ Cardinality(s) \in Nat /\ Sum(s) \in Int
  BY FS_Subset, FS_CardinalityType, SumIsInt
<1>2. \A s \in SUBSET S : s # {} => Takes(s, Chosen(s))
  BY <1>1, SumStep
<1> HIDE DEF Sum
<1>3. ASSUME NEW n \in W PROVE \E m \in W : m < n
  <2>1. PICK s \in SUBSET S : Cardinality(s) = n /\ \E y \in s : ~Takes(s, y)
    OBVIOUS
  <2>2. PICK y \in s : ~Takes(s, y)
    BY <2>1
  <2> DEFINE z == Chosen(s)
  <2>3. z \in s /\ Takes(s, z) /\ z # y
    BY <1>2, <2>2 DEF Chosen
  <2>4. /\ s \ {y} \in SUBSET S /\ s \ {z} \in SUBSET S /\ (s \ {z}) \ {y} \in SUBSET S
        /\ (s \ {z}) \ {y} = (s \ {y}) \ {z}
        /\ z \in s \ {y} /\ y \in s \ {z} /\ v[y] \in Int /\ v[z] \in Int
    BY <2>3
  <2>5. ~Takes(s \ {y}, z) \/ ~Takes(s \ {z}, y)
    <3> HIDE DEF z
    <3> SUFFICES ASSUME Takes(s \ {y}, z), Takes(s \ {z}, y) PROVE FALSE
      OBVIOUS
    <3>1. /\ Sum(s) = v[z] + Sum(s \ {z}) /\ Sum(s \ {z}) = v[y] + Sum((s \ {z}) \ {y})
          /\ Sum(s \ {y}) = v[z] + Sum((s \ {z}) \ {y})
      BY <2>3, <2>4
    <3>2. Sum((s \ {z}) \ {y}) \in Int
      BY <1>1, <2>4
    <3>3. Sum(s) = v[y] + Sum(s \ {y})
      BY <2>4, <3>1, <3>2
    <3>4. QED
      BY <2>2, <3>3
  <2>6. /\ Cardinality(s \ {y}) < n /\ Cardinality(s \ {y}) \in Nat
        /\ Cardinality(s \ {z}) < n /\ Cardinality(s \ {z}) \in Nat
    BY <1>1, <2>1, <2>3, OneLess
  <2> HIDE DEF Takes, z
  <2>7. QED
    BY <2>4, <2>5, <2>6
<1>4. W = {}
  <2>1. W \subseteq Nat
    OBVIOUS
  <2> HIDE DEF W
  <2>2. QED
    BY <1>3, <2>1, NothingFails
<1>5. Takes(S, x)
  BY <1>1, <1>4
<1>6. QED
  BY <1>5 DEF Sum

\* Only what is summed counts, and a sum of less is less.
LEMMA SumMonotone ==
    ASSUME NEW S, IsFiniteSet(S), NEW v, NEW w,
           NEW T \in SUBSET S,
           \A x \in S : w[x] \in Nat,
           \A x \in T : v[x] \in Int /\ v[x] <= w[x]
    PROVE  SumFunctionOnSet(v, T) <= SumFunctionOnSet(w, S)
<1> DEFINE P(s) == SumFunctionOnSet(v, T \cap s) <= SumFunctionOnSet(w, s)
           W == {n \in Nat : \E s \in SUBSET S : Cardinality(s) = n /\ ~P(s)}
<1>1. \A s \in SUBSET S :
         /\ IsFiniteSet(s) /\ Cardinality(s) \in Nat
         /\ SumFunctionOnSet(v, T \cap s) \in Int /\ SumFunctionOnSet(w, s) \in Int
  <2> SUFFICES ASSUME NEW s \in SUBSET S
               PROVE  /\ IsFiniteSet(s) /\ Cardinality(s) \in Nat
                      /\ SumFunctionOnSet(v, T \cap s) \in Int /\ SumFunctionOnSet(w, s) \in Int
    OBVIOUS
  <2>1. IsFiniteSet(s) /\ IsFiniteSet(T \cap s)
    BY FS_Subset
  <2>2. (\A x \in T \cap s : v[x] \in Int) /\ (\A x \in s : w[x] \in Int)
    OBVIOUS
  <2>3. QED
    BY <2>1, <2>2, FS_CardinalityType, SumIsInt
<1>2. ASSUME NEW n \in W PROVE \E m \in W : m < n
  <2>1. PICK s \in SUBSET S : Cardinality(s) = n /\ ~P(s)
    OBVIOUS
  <2>2. s # {}
    <3>1. T \cap {} = {} /\ 0 <= 0
      OBVIOUS
    <3>2. P({})
      BY <3>1, SumOfNone
    <3>3. QED
      BY <2>1, <3>2
  <2>3. PICK x : x \in s
    BY <2>2
  <2> DEFINE t == s \ {x}
  <2>4. t \in SUBSET S /\ Cardinality(t) < n /\ Cardinality(t) \in Nat /\ IsFiniteSet(t)
    BY <1>1, <2>1, <2>3, OneLess, SMTT(30)
  <2>5. /\ SumFunctionOnSet(w, s) = w[x] + SumFunctionOnSet(w, t)
        /\ SumFunctionOnSet(w, t) \in Int /\ SumFunctionOnSet(v, T \cap t) \in Int
    <3>1. \A y \in s : w[y] \in Int
      OBVIOUS
    <3>2. SumFunctionOnSet(w, s) = w[x] + SumFunctionOnSet(w, t)
      BY <1>1, <2>3, <3>1, SumTakes
    <3>3. QED
      BY <1>1, <2>4, <3>2
  <2>6. ~P(t)
    <3> DEFINE a == SumFunctionOnSet(v, T \cap s)
               b == SumFunctionOnSet(w, s)
               c == SumFunctionOnSet(v, T \cap t)
               d == SumFunctionOnSet(w, t)
    <3>0. ~(a <= b) /\ b = w[x] + d /\ c \in Int /\ d \in Int
      BY <2>1, <2>5
    <3> SUFFICES ~(c <= d)
      OBVIOUS
    <3>1. CASE x \in T
      <4>1. IsFiniteSet(T \cap s) /\ (\A y \in T \cap s : v[y] \in Int) /\ x \in T \cap s
        BY <1>1, <2>3, <3>1
      <4>2. SumFunctionOnSet(v, T \cap s) = v[x] + SumFunctionOnSet(v, (T \cap s) \ {x})
        BY <4>1, SumTakes
      <4>3. (T \cap s) \ {x} = T \cap t
        OBVIOUS
      <4>4. v[x] <= w[x] /\ v[x] \in Int /\ w[x] \in Int
        BY <3>1
      <4>5. a = v[x] + c
        BY <4>2, <4>3
      <4> HIDE DEF a, b, c, d
      <4>6. QED
        BY <3>0, <4>4, <4>5
    <3>2. CASE x \notin T
      <4>1. T \cap s = T \cap t
        BY <3>2
      <4>2. w[x] \in Nat
        BY <2>3
      <4>3. a = c
        BY <4>1
      <4> HIDE DEF a, b, c, d
      <4>4. QED
        BY <3>0, <4>2, <4>3
    <3>3. QED
      BY <3>1, <3>2
  <2> HIDE DEF t, P
  <2>7. QED
    BY <2>4, <2>6
<1>3. W = {}
  <2>1. W \subseteq Nat
    OBVIOUS
  <2> HIDE DEF W
  <2>2. QED
    BY <1>2, <2>1, NothingFails
<1>4. P(S)
  BY <1>1, <1>3
<1>5. T \cap S = T
  OBVIOUS
<1>6. QED
  BY <1>4, <1>5

LEMMA SumSame ==
    ASSUME NEW S, IsFiniteSet(S), NEW v, NEW w, \A x \in S : v[x] \in Nat /\ w[x] = v[x]
    PROVE  SumFunctionOnSet(v, S) = SumFunctionOnSet(w, S)
<1>1. /\ \A x \in S : v[x] \in Int /\ w[x] \in Nat /\ v[x] <= w[x]
      /\ \A x \in S : w[x] \in Int /\ v[x] \in Nat /\ w[x] <= v[x]
      /\ S \in SUBSET S
  OBVIOUS
<1>2. SumFunctionOnSet(v, S) <= SumFunctionOnSet(w, S)
  BY <1>1, SumMonotone
<1>3. SumFunctionOnSet(w, S) <= SumFunctionOnSet(v, S)
  BY <1>1, SumMonotone
<1>4. SumFunctionOnSet(v, S) \in Int /\ SumFunctionOnSet(w, S) \in Int
  BY <1>1, SumIsInt
<1>5. QED
  BY <1>2, <1>3, <1>4

LEMMA SumIsNat ==
    ASSUME NEW S, IsFiniteSet(S), NEW v, \A x \in S : v[x] \in Nat
    PROVE  SumFunctionOnSet(v, S) \in Nat
<1>1. SumFunctionOnSet(v, {}) <= SumFunctionOnSet(v, S)
  BY SumMonotone
<1>2. SumFunctionOnSet(v, S) \in Int
  BY SumIsInt
<1>3. QED
  BY <1>1, <1>2, SumOfNone

\* A finite set of numbers has a largest, for no member exceeds their sum.
LEMMA LargestOf ==
    ASSUME NEW S, S \subseteq Nat, S # {}, IsFiniteSet(S)
    PROVE  \E m \in S : \A x \in S : x <= m
<1>0. PICK id : id = [x \in S |-> x]
  OBVIOUS
<1> DEFINE b == SumFunctionOnSet(id, S)
           T == {b - x : x \in S}
<1>1. ASSUME NEW x \in S PROVE x <= b
  <2>1. (\A y \in S : id[y] \in Int) /\ id[x] = x /\ x \in Nat
    BY <1>0
  <2>2. b = id[x] + SumFunctionOnSet(id, S \ {x})
    BY <2>1, SumTakes
  <2>3. IsFiniteSet(S \ {x}) /\ \A y \in S \ {x} : id[y] \in Nat
    BY <1>0, OneLess
  <2>4. SumFunctionOnSet(id, S \ {x}) \in Nat
    BY <2>3, SumIsNat
  <2> HIDE DEF b
  <2>5. QED
    BY <2>1, <2>2, <2>4
<1>2. b \in Nat
  BY <1>0, SumIsNat
<1> HIDE DEF b
<1>3. T \subseteq Nat /\ T # {}
  <2>1. ASSUME NEW x \in S PROVE b - x \in Nat
    BY <1>1, <1>2
  <2>2. QED
    BY <2>1
<1>4. PICK n \in T : \A m \in T : n <= m
  <2> HIDE DEF T
  <2> QED
    BY <1>3, LeastOf
<1>5. PICK m \in S : n = b - m
  OBVIOUS
<1>6. ASSUME NEW x \in S PROVE x <= m
  <2>1. b - m <= b - x
    BY <1>4, <1>5
  <2>2. QED
    BY <1>2, <2>1
<1>7. QED
  BY <1>6

-----------------------------------------------------------------------------
(* The operators of the tasks.                                              *)

\* The largest of a set is a member that bounds the others.
LEMMA MaxIs ==
    ASSUME NEW T \in SUBSET Int, NEW m \in T, \A y \in T : m >= y
    PROVE  Max(T) = m
<1>1. \A x \in T : (\A y \in T : x >= y) => x = m
  OBVIOUS
<1>2. QED
  BY <1>1 DEF Max

LEMMA AbsSubIsDistance ==
    ASSUME NEW v, v["long"] \in Int, v["short"] \in Int
    PROVE  /\ AbsSub(v["long"], v["short"]) = Distance(v)
           /\ Distance(v) \in Nat
<1> DEFINE a == v["long"]  b == v["short"]
<1>1. CASE a >= b
  <2>1. Max({a - b, b - a}) = a - b
    BY <1>1, MaxIs
  <2>2. QED
    BY <1>1, <2>1 DEF AbsSub, Distance
<1>2. CASE ~(a >= b)
  <2>1. Max({a - b, b - a}) = b - a
    BY <1>2, MaxIs
  <2>2. QED
    BY <1>2, <2>1 DEF AbsSub, Distance
<1>3. QED
  BY <1>1, <1>2

LEMMA AbsMaxIsMagnitude ==
    ASSUME NEW v, v["long"] \in Int, v["short"] \in Int
    PROVE  /\ AbsMax(v["long"], v["short"]) = Magnitude(v)
           /\ Magnitude(v) \in Nat
           /\ Magnitude(v) = 0 <=> v["long"] = 0 /\ v["short"] = 0
<1> DEFINE a == v["long"]  b == v["short"]  m == AbsMax(a, b)
<1>1. /\ m \in {a, -a, b, -b} /\ m \in Nat
      /\ m >= a /\ m >= -a /\ m >= b /\ m >= -b
  BY DEF AbsMax, AbsSub
<1> HIDE DEF m
<1>2. Max({a, -a, b, -b}) = m
  <2> DEFINE T == {a, -a, b, -b}
  <2>1. T \in SUBSET Int /\ m \in T /\ \A y \in T : m >= y
    BY <1>1
  <2> HIDE DEF T
  <2>2. Max(T) = m
    BY <2>1, MaxIs
  <2>3. QED
    BY <2>2 DEF T
<1>3. m = 0 <=> a = 0 /\ b = 0
  BY <1>1
<1>4. Magnitude(v) = m
  BY <1>2 DEF Magnitude
<1>5. QED
  BY <1>1, <1>3, <1>4 DEF m

\* The age of a feed, with both times in a word: never a wrapped one.
LEMMA FeedAgeIs ==
    ASSUME Word \in Nat \ {0}, NEW now \in 0..(Word - 1), NEW updated \in 0..(Word - 1)
    PROVE  FeedAge(now, updated) = IF now > updated THEN now - updated ELSE 0
<1>1. now \in Int /\ updated \in Int
  OBVIOUS
<1>2. CASE now > updated
  <2>1. now - updated \in 0..(Word - 1)
    BY <1>1, <1>2
  <2>2. (now - updated) % Word = now - updated
    BY <1>1, <2>1
  <2>3. QED
    BY <1>2, <2>2 DEF FeedAge
<1>3. CASE ~(now > updated)
  BY <1>3 DEF FeedAge
<1>4. QED
  BY <1>2, <1>3

LEMMA FeedAgeLarge ==
    ASSUME Word \in Nat \ {0}, NEW now \in 0..(Word - 1), NEW updated \in 0..(Word - 1)
    PROVE  FeedAge(now, updated) > 600 <=> now - updated > 600
<1>1. FeedAge(now, updated) = IF now > updated THEN now - updated ELSE 0
  BY FeedAgeIs
<1>2. now \in Int /\ updated \in Int
  OBVIOUS
<1>3. QED
  BY <1>1, <1>2

LEMMA FeedAgeMax ==
    ASSUME Word \in Nat \ {0}, NEW now \in 0..(Word - 1), NEW updated \in 0..(Word - 1)
    PROVE  FeedAge(now, updated) = Max({0, now - updated})
<1>1. now \in Int /\ updated \in Int
  OBVIOUS
<1>2. Max({0, now - updated}) = IF now > updated THEN now - updated ELSE 0
  <2>1. CASE now > updated
    BY <1>1, <2>1, MaxIs
  <2>2. CASE ~(now > updated)
    BY <1>1, <2>2, MaxIs
  <2>3. QED
    BY <2>1, <2>2
<1>3. QED
  BY <1>2, FeedAgeIs

=============================================================================
