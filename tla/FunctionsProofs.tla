--------------------------- MODULE FunctionsProofs ---------------------------
(***************************************************************************)
(* Theorems about the pure functions, for every size of a byte, a word, a  *)
(* uint64 and an address that CodecAssumption allows: those of the code    *)
(* are 256, 32, 8 and 20; about the series of the metrics, for every       *)
(* configuration; and about the digest, for every list of reports.         *)
(***************************************************************************)
EXTENDS MCFunctions, FiniteSetTheorems, WellFoundedInduction, TLAPS

LEMMA Least ==
    ASSUME NEW T0 \in SUBSET Nat, T0 # {}
    PROVE  \E m \in T0 : \A k \in T0 : m <= k
<1> DEFINE R == OpToRel(<, Nat)
<1>1. IsWellFoundedOn(R, Nat)
  BY NatLessThanWellFounded
<1>2. \E x \in T0 : \A y \in T0 : <<y, x>> \notin R
  <2> HIDE DEF R
  <2>1. QED
    BY <1>1, WFMin
<1>3. PICK x \in T0 : \A y \in T0 : <<y, x>> \notin R
  BY <1>2
<1>4. \A y \in T0 : ~(y < x)
  BY <1>3 DEF OpToRel
<1>5. QED
  BY <1>4

-----------------------------------------------------------------------------
(* Powers.                                                                  *)

PowTo(f, n) == f = [i \in 0..n |-> IF i = 0 THEN 1 ELSE Byte * f[i - 1]]

LEMMA PowExists ==
    ASSUME NEW n \in Nat
    PROVE  \E f : PowTo(f, n)
<1> DEFINE W == {m \in Nat : ~\E f : PowTo(f, m)}
<1> SUFFICES ASSUME W # {} PROVE FALSE
  OBVIOUS
<1>1. PICK m \in W : \A k \in W : m <= k
  <2>1. W \in SUBSET Nat
    OBVIOUS
  <2> HIDE DEF W
  <2>2. QED
    BY <2>1, Least
<1>2. CASE m = 0
  <2>1. PowTo([i \in 0..0 |-> 1], 0)
    BY DEF PowTo
  <2>2. QED
    BY <1>2, <2>1
<1>3. CASE m # 0
  <2>1. m - 1 \in Nat /\ m - 1 \notin W
    BY <1>1, <1>3
  <2>2. PICK f : PowTo(f, m - 1)
    BY <2>1
  <2> DEFINE g == [i \in 0..m |-> IF i = 0 THEN 1 ELSE Byte * f[i - 1]]
  <2>3. ASSUME NEW i \in 0..m, i # 0 PROVE f[i - 1] = g[i - 1]
    <3>1. i - 1 \in 0..(m - 1) /\ i - 1 \in 0..m
      BY <2>3
    <3>2. f[i - 1] = IF i - 1 = 0 THEN 1 ELSE Byte * f[(i - 1) - 1]
      BY <2>2, <3>1 DEF PowTo
    <3>3. QED
      BY <3>1, <3>2
  <2>4. PowTo(g, m)
    BY <2>3 DEF PowTo
  <2>5. QED
    BY <2>4
<1>4. QED
  BY <1>2, <1>3

LEMMA PowDef ==
    ASSUME NEW n \in Nat
    PROVE  \E f : PowTo(f, n) /\ Pow(n) = f[n]
<1>1. PICK g : PowTo(g, n)
  BY PowExists
<1>2. Pow(n) = (CHOOSE f : PowTo(f, n))[n]
  BY DEF Pow, PowTo
<1>3. QED
  BY <1>1, <1>2

LEMMA PowAgree ==
    ASSUME NEW m \in Nat, NEW n \in Nat, NEW f, NEW g, PowTo(f, m), PowTo(g, n),
           NEW i \in Nat, i <= m, i <= n
    PROVE  f[i] = g[i]
<1> DEFINE W == {k \in Nat : k <= m /\ k <= n /\ f[k] # g[k]}
<1> SUFFICES ASSUME W # {} PROVE FALSE
  OBVIOUS
<1>1. PICK k \in W : \A j \in W : k <= j
  <2>1. W \in SUBSET Nat
    OBVIOUS
  <2> HIDE DEF W
  <2>2. QED
    BY <2>1, Least
<1>2. /\ f[k] = IF k = 0 THEN 1 ELSE Byte * f[k - 1]
      /\ g[k] = IF k = 0 THEN 1 ELSE Byte * g[k - 1]
  BY DEF PowTo
<1>3. k # 0 => k - 1 \in Nat /\ k - 1 \notin W
  BY <1>1
<1>4. k # 0 => f[k - 1] = g[k - 1]
  BY <1>3
<1>5. QED
  BY <1>2, <1>4

LEMMA PowZero == Pow(0) = 1
<1>1. PICK f : PowTo(f, 0) /\ Pow(0) = f[0]
  BY PowDef
<1>2. QED
  BY <1>1 DEF PowTo

LEMMA PowNext ==
    ASSUME NEW n \in Nat
    PROVE  Pow(n + 1) = Byte * Pow(n)
<1>1. PICK f : PowTo(f, n) /\ Pow(n) = f[n]
  BY PowDef
<1>2. PICK g : PowTo(g, n + 1) /\ Pow(n + 1) = g[n + 1]
  BY PowDef
<1>3. g[n + 1] = Byte * g[n]
  <2>1. n + 1 \in 0..(n + 1) /\ n + 1 # 0 /\ (n + 1) - 1 = n
    OBVIOUS
  <2>2. g[n + 1] = IF n + 1 = 0 THEN 1 ELSE Byte * g[(n + 1) - 1]
    BY <1>2, <2>1 DEF PowTo
  <2>3. QED
    BY <2>1, <2>2
<1>4. f[n] = g[n]
  BY <1>1, <1>2, PowAgree
<1>5. QED
  BY <1>1, <1>2, <1>3, <1>4

\* A byte has at least four values.
LEMMA Sizes ==
    /\ Byte \in Nat /\ Byte >= 4 /\ Digit \in Nat /\ Digit >= 2 /\ Byte = Digit * Digit
    /\ Word \in Nat /\ Word >= 1
    /\ Small \in Nat /\ 1 <= Small /\ Small <= Word
    /\ Addr \in Nat /\ 1 <= Addr /\ Addr <= Word
<1>1. Digit \in Nat /\ Digit >= 2 /\ Byte = Digit * Digit
  BY CodecAssumption DEF CodecAssumption
<1>2. Byte \in Nat /\ Byte >= 4
  <2>1. PICK d \in Nat : Digit = d + 2
    <3>1. Digit - 2 \in Nat /\ Digit = (Digit - 2) + 2
      BY <1>1
    <3>2. QED
      BY <3>1
  <2>2. (d + 2) * (d + 2) = d * d + 4 * d + 4 /\ d * d \in Nat
    OBVIOUS
  <2>3. QED
    BY <1>1, <2>1, <2>2
<1>3. Small \in 1..Word /\ Addr \in 1..Word
  BY CodecAssumption DEF CodecAssumption
<1>4. Word \in Nat /\ Word >= 1
  BY <1>3, CodecAssumption DEF CodecAssumption
<1>5. QED
  BY <1>1, <1>2, <1>3, <1>4

LEMMA PowNat ==
    ASSUME NEW n \in Nat
    PROVE  Pow(n) \in Nat /\ Pow(n) > n /\ Pow(n) >= 3 * n + 1
<1> DEFINE W == {m \in Nat : ~(Pow(m) \in Nat /\ Pow(m) >= 3 * m + 1)}
<1>1. W = {}
  <2> SUFFICES ASSUME W # {} PROVE FALSE
    OBVIOUS
  <2>1. PICK m \in W : \A k \in W : m <= k
    <3>1. W \in SUBSET Nat
      OBVIOUS
    <3> HIDE DEF W
    <3>2. QED
      BY <3>1, Least
  <2>2. CASE m = 0
    BY <2>2, PowZero
  <2>3. CASE m # 0
    <3>1. m - 1 \in Nat /\ m - 1 \notin W /\ (m - 1) + 1 = m
      BY <2>1, <2>3
    <3>2. Pow(m - 1) \in Nat /\ Pow(m - 1) >= 3 * (m - 1) + 1
      BY <3>1
    <3>3. Pow(m) = Byte * Pow(m - 1)
      BY <3>1, PowNext
    <3>4. PICK p \in Nat : p = Pow(m - 1)
      BY <3>2
    <3>5. Byte * p \in Nat /\ Byte * p >= 4 * p
      <4>1. PICK b \in Nat : Byte = b + 4
        <5>1. Byte - 4 \in Nat /\ Byte = (Byte - 4) + 4
          BY Sizes
        <5>2. QED
          BY <5>1
      <4>2. (b + 4) * p = b * p + 4 * p /\ b * p \in Nat
        OBVIOUS
      <4>3. QED
        BY <4>1, <4>2
    <3>6. QED
      BY <3>1, <3>2, <3>3, <3>4, <3>5
  <2>4. QED
    BY <2>2, <2>3
<1>2. QED
  BY <1>1

LEMMA PowMono ==
    ASSUME NEW m \in Nat, NEW n \in Nat, m <= n
    PROVE  Pow(m) <= Pow(n)
<1> DEFINE W == {k \in Nat : m <= k /\ ~(Pow(m) <= Pow(k))}
<1> SUFFICES ASSUME W # {} PROVE FALSE
  OBVIOUS
<1>1. PICK k \in W : \A j \in W : k <= j
  <2>1. W \in SUBSET Nat
    OBVIOUS
  <2> HIDE DEF W
  <2>2. QED
    BY <2>1, Least
<1>2. k # m
  BY PowNat
<1>3. k - 1 \in Nat /\ k - 1 \notin W /\ m <= k - 1 /\ (k - 1) + 1 = k
  BY <1>1, <1>2
<1>4. Pow(m) <= Pow(k - 1)
  BY <1>3
<1>5. Pow(k) = Byte * Pow(k - 1)
  BY <1>3, PowNext
<1>6. PICK p \in Nat : p = Pow(k - 1)
  BY <1>3, PowNat
<1>7. Byte * p >= p /\ Byte * p \in Nat
  <2>1. PICK b \in Nat : Byte = b + 1
    <3>1. Byte - 1 \in Nat /\ Byte = (Byte - 1) + 1
      BY Sizes
    <3>2. QED
      BY <3>1
  <2>2. (b + 1) * p = b * p + p /\ b * p \in Nat
    OBVIOUS
  <2>3. QED
    BY <2>1, <2>2
<1>8. Pow(m) \in Nat
  BY PowNat
<1>9. QED
  BY <1>1, <1>4, <1>5, <1>6, <1>7, <1>8

-----------------------------------------------------------------------------
(* Quotients and remainders.                                                *)

LEMMA Division ==
    ASSUME NEW n \in Nat, NEW d \in Nat \ {0}
    PROVE  /\ n \div d \in Nat /\ n % d \in Nat /\ n % d < d
           /\ n = d * (n \div d) + (n % d)
  OBVIOUS

\* The quotient and the remainder are the only ones that fit.
LEMMA DivisionIs ==
    ASSUME NEW n \in Nat, NEW d \in Nat \ {0}, NEW q \in Nat, NEW r \in Nat,
           r < d, n = d * q + r
    PROVE  n \div d = q /\ n % d = r
<1> DEFINE p == n \div d
           s == n % d
<1>1. p \in Nat /\ s \in Nat /\ s < d /\ n = d * p + s
  BY Division
<1> HIDE DEF p, s
<1>2. CASE p > q
  <2>1. PICK e \in Nat : p = q + 1 + e
    <3>1. p - q - 1 \in Nat /\ p = q + 1 + (p - q - 1)
      BY <1>1, <1>2
    <3>2. QED
      BY <3>1
  <2>2. d * (q + 1 + e) = d * q + d + d * e /\ d * e \in Nat /\ d * q \in Nat
    OBVIOUS
  <2>3. QED
    BY <1>1, <2>1, <2>2
<1>3. CASE p < q
  <2>1. PICK e \in Nat : q = p + 1 + e
    <3>1. q - p - 1 \in Nat /\ q = p + 1 + (q - p - 1)
      BY <1>1, <1>3
    <3>2. QED
      BY <3>1
  <2>2. d * (p + 1 + e) = d * p + d + d * e /\ d * e \in Nat /\ d * p \in Nat
    BY <1>1
  <2>3. QED
    BY <1>1, <2>1, <2>2
<1>4. CASE p = q
  <2>1. d * q \in Nat
    OBVIOUS
  <2>2. QED
    BY <1>1, <1>4, <2>1 DEF p, s
<1>5. QED
  BY <1>1, <1>2, <1>3, <1>4

\* A digit more is cut off.
LEMMA DivTwice ==
    ASSUME NEW n \in Nat, NEW p \in Nat \ {0}, NEW b \in Nat \ {0}
    PROVE  n \div (b * p) = (n \div p) \div b
<1> DEFINE q == n \div p
           r == n % p
           u == q \div b
           w == q % b
<1>1. q \in Nat /\ r \in Nat /\ r < p /\ n = p * q + r
  BY Division
<1>2. u \in Nat /\ w \in Nat /\ w < b /\ q = b * u + w
  <2> HIDE DEF q
  <2>1. QED
    BY <1>1, Division
<1> HIDE DEF q, r, u, w
<1>3. p * (b * u + w) = (b * p) * u + p * w /\ p * w \in Nat /\ b * p \in Nat
  BY <1>2
<1>4. p * w + r < b * p
  <2>1. PICK e \in Nat : b = w + 1 + e
    <3>1. b - w - 1 \in Nat /\ b = w + 1 + (b - w - 1)
      BY <1>2
    <3>2. QED
      BY <3>1
  <2>2. (w + 1 + e) * p = p * w + p + e * p /\ e * p \in Nat
    BY <1>2
  <2>3. QED
    BY <1>1, <1>3, <2>1, <2>2
<1>5. n = (b * p) * u + (p * w + r) /\ p * w + r \in Nat
  <2>1. (b * p) * u \in Nat
    BY <1>2
  <2>2. QED
    BY <1>1, <1>2, <1>3, <2>1
<1>6. b * p \in Nat \ {0}
  BY <1>1, <1>3, <1>4
<1>7. n \div (b * p) = u
  <2> DEFINE d == b * p
             t == p * w + r
  <2>1. d \in Nat \ {0} /\ t \in Nat /\ t < d /\ n = d * u + t
    BY <1>4, <1>5, <1>6
  <2> HIDE DEF d, t
  <2>2. n \div d = u
    BY <1>2, <2>1, DivisionIs
  <2>3. QED
    BY <2>2 DEF d
<1>8. QED
  BY <1>7 DEF u, q

-----------------------------------------------------------------------------
(* Numbers and their bytes.                                                 *)

NumTo(f, s, n) == f = [i \in 0..n |-> IF i = 0 THEN 0 ELSE f[i - 1] * Byte + s[i]]

LEMMA NumExists ==
    ASSUME NEW s, NEW n \in Nat
    PROVE  \E f : NumTo(f, s, n)
<1> DEFINE W == {m \in Nat : ~\E f : NumTo(f, s, m)}
<1> SUFFICES ASSUME W # {} PROVE FALSE
  OBVIOUS
<1>1. PICK m \in W : \A k \in W : m <= k
  <2>1. W \in SUBSET Nat
    OBVIOUS
  <2> HIDE DEF W
  <2>2. QED
    BY <2>1, Least
<1>2. CASE m = 0
  <2>1. NumTo([i \in 0..0 |-> 0], s, 0)
    BY DEF NumTo
  <2>2. QED
    BY <1>2, <2>1
<1>3. CASE m # 0
  <2>1. m - 1 \in Nat /\ m - 1 \notin W
    BY <1>1, <1>3
  <2>2. PICK f : NumTo(f, s, m - 1)
    BY <2>1
  <2> DEFINE g == [i \in 0..m |-> IF i = 0 THEN 0 ELSE f[i - 1] * Byte + s[i]]
  <2>3. ASSUME NEW i \in 0..m, i # 0 PROVE f[i - 1] = g[i - 1]
    <3>1. i - 1 \in 0..(m - 1) /\ i - 1 \in 0..m
      BY <2>3
    <3>2. f[i - 1] = IF i - 1 = 0 THEN 0 ELSE f[(i - 1) - 1] * Byte + s[i - 1]
      BY <2>2, <3>1 DEF NumTo
    <3>3. QED
      BY <3>1, <3>2
  <2>4. NumTo(g, s, m)
    BY <2>3 DEF NumTo
  <2>5. QED
    BY <2>4
<1>4. QED
  BY <1>2, <1>3

LEMMA NumberDef ==
    ASSUME NEW s, Len(s) \in Nat
    PROVE  \E f : NumTo(f, s, Len(s)) /\ Number(s) = f[Len(s)]
<1>1. PICK g : NumTo(g, s, Len(s))
  BY NumExists
<1>2. Number(s) = (CHOOSE f : NumTo(f, s, Len(s)))[Len(s)]
  BY DEF Number, NumTo
<1>3. QED
  BY <1>1, <1>2

LEMMA NumberEmpty == Number(<<>>) = 0
<1>1. PICK f : NumTo(f, <<>>, Len(<<>>)) /\ Number(<<>>) = f[Len(<<>>)]
  BY NumberDef
<1>2. QED
  BY <1>1 DEF NumTo

LEMMA NumberNat ==
    ASSUME NEW s \in Seq(Nat)
    PROVE  Number(s) \in Nat
<1> DEFINE n == Len(s)
<1>1. PICK f : NumTo(f, s, n) /\ Number(s) = f[n]
  BY NumberDef
<1> DEFINE W == {m \in 0..n : f[m] \notin Nat}
<1>2. W = {}
  <2> SUFFICES ASSUME W # {} PROVE FALSE
    OBVIOUS
  <2>1. PICK m \in W : \A k \in W : m <= k
    <3>1. W \in SUBSET Nat
      OBVIOUS
    <3> HIDE DEF W
    <3>2. QED
      BY <3>1, Least
  <2>2. f[m] = IF m = 0 THEN 0 ELSE f[m - 1] * Byte + s[m]
    BY <1>1 DEF NumTo
  <2>3. m # 0 => m - 1 \in 0..n /\ m - 1 \notin W /\ s[m] \in Nat
    BY <2>1
  <2>4. m # 0 => f[m - 1] \in Nat /\ s[m] \in Nat
    BY <2>3
  <2>5. \A x, y \in Nat : x * Byte + y \in Nat
    BY Sizes
  <2>6. f[m] \in Nat
    <3>1. CASE m = 0
      BY <2>2, <3>1
    <3>2. CASE m # 0
      <4>1. PICK x \in Nat, y \in Nat : x = f[m - 1] /\ y = s[m]
        BY <2>4, <3>2
      <4>2. f[m] = x * Byte + y
        BY <2>2, <3>2, <4>1
      <4>3. QED
        BY <2>5, <4>2
    <3>3. QED
      BY <3>1, <3>2
  <2>7. QED
    BY <2>1, <2>6
<1>3. n \in 0..n
  OBVIOUS
<1>4. QED
  BY <1>1, <1>2, <1>3

\* The bytes of any whole number, and of a natural one.
LEMMA BytesOfInt ==
    ASSUME NEW n \in Int, NEW w \in Nat
    PROVE  /\ Bytes(n, w) \in Seq(0..(Byte - 1)) /\ Bytes(n, w) \in Seq(Nat)
           /\ Len(Bytes(n, w)) = w
           /\ \A i \in 1..w : Bytes(n, w)[i] = (n \div Pow(w - i)) % Byte
<1>1. ASSUME NEW i \in 1..w PROVE (n \div Pow(w - i)) % Byte \in 0..(Byte - 1)
  <2>1. Pow(w - i) \in Nat \ {0}
    <3>1. w - i \in Nat
      OBVIOUS
    <3>2. QED
      BY <3>1, PowNat
  <2>2. PICK q \in Int : q = n \div Pow(w - i)
    BY <2>1
  <2>3. Byte \in Nat \ {0}
    BY Sizes
  <2>4. QED
    BY <2>2, <2>3
<1>2. 0..(Byte - 1) \subseteq Nat
  BY Sizes
<1>3. QED
  BY <1>1, <1>2 DEF Bytes

LEMMA BytesType ==
    ASSUME NEW n \in Nat, NEW w \in Nat
    PROVE  /\ Bytes(n, w) \in Seq(0..(Byte - 1)) /\ Bytes(n, w) \in Seq(Nat)
           /\ Len(Bytes(n, w)) = w
           /\ \A i \in 1..w : Bytes(n, w)[i] = (n \div Pow(w - i)) % Byte
<1>1. n \in Int
  OBVIOUS
<1>2. QED
  BY <1>1, BytesOfInt

\* big.Int.SetBytes gives back what the bytes of a word are those of.
LEMMA NumberBytes ==
    ASSUME NEW n \in Nat, NEW w \in Nat, n < Pow(w)
    PROVE  Number(Bytes(n, w)) = n
<1> DEFINE s == Bytes(n, w)
<1>1. Len(s) = w /\ \A i \in 1..w : s[i] = (n \div Pow(w - i)) % Byte
  BY BytesType
<1> HIDE DEF s
<1>2. PICK f : NumTo(f, s, w) /\ Number(s) = f[w]
  BY <1>1, NumberDef
<1> DEFINE W == {m \in 0..w : f[m] # n \div Pow(w - m)}
<1>3. W = {}
  <2> SUFFICES ASSUME W # {} PROVE FALSE
    OBVIOUS
  <2>1. PICK m \in W : \A k \in W : m <= k
    <3>1. W \in SUBSET Nat
      OBVIOUS
    <3> HIDE DEF W
    <3>2. QED
      BY <3>1, Least
  <2>2. f[m] = IF m = 0 THEN 0 ELSE f[m - 1] * Byte + s[m]
    BY <1>2 DEF NumTo
  <2>3. CASE m = 0
    <3>1. PICK p \in Nat \ {0} : p = Pow(w)
      BY PowNat
    <3>2. n \div p = 0
      <4>1. n = p * 0 + n
        BY <3>1
      <4>2. QED
        BY <3>1, <4>1, DivisionIs
    <3>3. w - m = w
      BY <2>3
    <3>4. QED
      BY <2>2, <2>3, <3>1, <3>2, <3>3
  <2>4. CASE m # 0
    <3>1. m - 1 \in 0..w /\ m - 1 \notin W /\ m \in 1..w /\ w - m \in Nat
          /\ w - (m - 1) = (w - m) + 1
      BY <2>1, <2>4
    <3>2. PICK p \in Nat \ {0} : p = Pow(w - m)
      BY <3>1, PowNat
    <3>3. Pow(w - (m - 1)) = Byte * p
      BY <3>1, <3>2, PowNext
    <3>4. Byte \in Nat \ {0}
      BY Sizes
    <3>5. f[m - 1] = (n \div p) \div Byte
      <4>1. f[m - 1] = n \div (Byte * p)
        BY <3>1, <3>3
      <4>2. QED
        BY <3>2, <3>4, <4>1, DivTwice
    <3>6. PICK q \in Nat : q = n \div p
      BY <3>2, Division
    <3>7. f[m] = (q \div Byte) * Byte + (q % Byte)
      BY <1>1, <2>2, <2>4, <3>1, <3>2, <3>5, <3>6
    <3>8. q = Byte * (q \div Byte) + (q % Byte) /\ q \div Byte \in Nat
      BY <3>4, Division
    <3>9. (q \div Byte) * Byte = Byte * (q \div Byte)
      BY <3>4, <3>8
    <3>10. QED
      BY <3>2, <3>6, <3>7, <3>8, <3>9
  <2>5. QED
    BY <2>3, <2>4
<1>4. f[w] = n \div Pow(0)
  <2>1. w \in 0..w /\ w - w = 0
    OBVIOUS
  <2>2. QED
    BY <1>3, <2>1
<1>5. QED
  BY <1>2, <1>4, PowZero DEF s

-----------------------------------------------------------------------------
(* Text.                                                                    *)

LEMMA HexLength ==
    ASSUME NEW s, Len(s) \in Nat
    PROVE  /\ Len(BytesToHex(s)) = 2 * Len(s) /\ DOMAIN BytesToHex(s) = 1..(2 * Len(s))
           /\ Len(BytesToHex(s)) % 2 = 0 /\ Len(BytesToHex(s)) \div 2 = Len(s)
<1>1. 2 * Len(s) \in Nat
  OBVIOUS
<1>2. DOMAIN BytesToHex(s) = 1..(2 * Len(s))
  BY DEF BytesToHex
<1>3. Len(BytesToHex(s)) = 2 * Len(s)
  BY <1>1 DEF BytesToHex
<1>4. QED
  BY <1>2, <1>3

\* hex.go's way there and client.go's way back.
LEMMA HexAndBack ==
    ASSUME NEW s \in Seq(0..(Byte - 1))
    PROVE  HexToBytes(BytesToHex(s)) = s
<1> DEFINE t == BytesToHex(s)
           n == Len(s)
<1>1. n \in Nat /\ Len(t) % 2 = 0 /\ Len(t) \div 2 = n /\ DOMAIN t = 1..(2 * n)
  BY HexLength
<1>2. \A i \in 1..(2 * n) :
         t[i] = IF i % 2 = 1 THEN s[(i + 1) \div 2] \div Digit ELSE s[i \div 2] % Digit
  BY DEF BytesToHex
<1>3. \A i \in 1..n : s[i] \in Nat
  BY Sizes
<1>4. Digit \in Nat \ {0}
  BY Sizes
<1> HIDE DEF t, n
<1>5. ASSUME NEW i \in 1..n
      PROVE  /\ t[2 * i - 1] = s[i] \div Digit /\ t[2 * i] = s[i] % Digit
             /\ t[2 * i - 1] \in Nat /\ t[2 * i] \in Nat
             /\ Digit * t[2 * i - 1] + t[2 * i] = s[i]
  <2>1. 2 * i - 1 \in 1..(2 * n) /\ 2 * i \in 1..(2 * n)
    BY <1>1
  <2>2. (2 * i - 1) % 2 = 1 /\ (2 * i) % 2 = 0 /\ ((2 * i - 1) + 1) \div 2 = i /\ (2 * i) \div 2 = i
    BY <1>1
  <2>3. t[2 * i - 1] = s[i] \div Digit /\ t[2 * i] = s[i] % Digit
    BY <1>2, <2>1, <2>2
  <2>4. PICK b \in Nat : b = s[i]
    BY <1>3
  <2>5. b \div Digit \in Nat /\ b % Digit \in Nat /\ b = Digit * (b \div Digit) + (b % Digit)
    BY <1>4, Division
  <2>6. QED
    BY <2>3, <2>4, <2>5
<1>6. NoDigit \notin ToSet(t)
  <2>1. ASSUME NEW k \in 1..(2 * n) PROVE t[k] \in Nat
    <3>1. PICK i \in 1..n : k = 2 * i - 1 \/ k = 2 * i
      <4>1. CASE k % 2 = 0
        <5>1. k \div 2 \in 1..n /\ k = 2 * (k \div 2)
          BY <1>1, <4>1
        <5>2. QED
          BY <5>1
      <4>2. CASE k % 2 = 1
        <5>1. (k + 1) \div 2 \in 1..n /\ k = 2 * ((k + 1) \div 2) - 1
          BY <1>1, <4>2
        <5>2. QED
          BY <5>1
      <4>3. QED
        BY <1>1, <4>1, <4>2
    <3>2. QED
      BY <1>5, <3>1
  <2>2. QED
    BY <1>1, <2>1 DEF ToSet, NoDigit
<1>7. HexToBytes(t) = [i \in 1..n |-> Digit * t[2 * i - 1] + t[2 * i]]
  BY <1>1, <1>6 DEF HexToBytes
<1>8. s = [i \in 1..n |-> s[i]]
  BY DEF n
<1>9. HexToBytes(t) = s
  BY <1>5, <1>7, <1>8
<1>10. QED
  BY <1>9 DEF t

-----------------------------------------------------------------------------
(* One word of a reply.                                                     *)

LEMMA WordSize ==
    /\ Pow(Word) \in Nat /\ Pow(Word) > 3 /\ MaxWord = Pow(Word) - 1 /\ MaxWord \in Nat
    /\ Pow(Small) \in Nat /\ Pow(Small) <= Pow(Word)
<1>1. Pow(Small) \in Nat /\ Pow(Small) <= Pow(Word) /\ Pow(Word) \in Nat
  BY Sizes, PowNat, PowMono
<1>2. Pow(1) = Byte
  <2>1. Pow(0 + 1) = Byte * Pow(0)
    BY PowNext
  <2>2. QED
    BY <2>1, PowZero, Sizes
<1>3. Pow(1) <= Pow(Word)
  BY Sizes, PowMono
<1>4. QED
  BY <1>1, <1>2, <1>3, Sizes DEF MaxWord

LEMMA DecodedBytes ==
    ASSUME NEW n \in Nat, NEW w \in Nat
    PROVE  Decoded(Bytes(n, w)) = Bytes(n, w)
  BY BytesType, HexAndBack DEF Decoded

LEMMA WordNumber ==
    ASSUME NEW n \in 0..MaxWord
    PROVE  /\ Word0(n) = Bytes(n, Word) /\ PadUint(n) = Bytes(n, Word)
           /\ Number(Bytes(n, Word)) = n
<1>1. n \in Nat /\ n < Pow(Word) /\ Word \in Nat
  BY WordSize, Sizes
<1>2. Number(Bytes(n, Word)) = n
  BY <1>1, NumberBytes
<1>3. QED
  BY <1>1, <1>2, DecodedBytes DEF Word0, PadUint

\* abi two's complement, both ways.
LEMMA SignedNumber ==
    ASSUME NEW n \in (-((MaxWord + 1) \div 2))..MaxWord, 2 * n <= MaxWord
    PROVE  GetInt(Word0((n + MaxWord + 1) % (MaxWord + 1))) = n
<1> DEFINE P == Pow(Word)
           u == (n + MaxWord + 1) % (MaxWord + 1)
<1>1. P \in Nat /\ P > 3 /\ MaxWord + 1 = P /\ MaxWord \in Nat
  BY WordSize
<1> HIDE DEF P
<1>2. n \in Int /\ 2 * n < P /\ 2 * n >= -P
  <2>1. P = 2 * (P \div 2) + (P % 2) /\ P \div 2 \in Nat /\ P % 2 \in 0..1
    BY <1>1
  <2>2. n \in (-(P \div 2))..MaxWord
    BY <1>1
  <2>3. QED
    BY <1>1, <2>1, <2>2
<1>3. u = IF n >= 0 THEN n ELSE n + P
  <2>1. n + MaxWord + 1 = n + P /\ u = (n + P) % P
    BY <1>1, <1>2
  <2>2. CASE n >= 0
    <3>1. n + P = P * 1 + n /\ n + P \in Nat /\ n \in Nat /\ n < P
      BY <1>1, <1>2, <2>2
    <3>2. (n + P) % P = n
      BY <1>1, <3>1, DivisionIs
    <3>3. QED
      BY <2>1, <2>2, <3>2
  <2>3. CASE n < 0
    <3>1. n + P = P * 0 + (n + P) /\ n + P \in Nat /\ n + P < P
      BY <1>1, <1>2, <2>3
    <3>2. (n + P) % P = n + P
      BY <1>1, <3>1, DivisionIs
    <3>3. QED
      BY <1>2, <2>1, <2>3, <3>2
  <2>4. QED
    BY <1>2, <2>2, <2>3
<1>4. u \in 0..MaxWord
  BY <1>1, <1>2, <1>3
<1> HIDE DEF u
<1>5. Number(Word0(u)) = u
  BY <1>4, WordNumber
<1>6. GetInt(Word0(u)) = IF ((2 * u) \div P) % 2 = 1 THEN u - P ELSE u
  BY <1>5 DEF GetInt, P
<1>7. CASE n >= 0
  <2>1. 2 * u = P * 0 + 2 * u /\ 2 * u \in Nat /\ 2 * u < P
    BY <1>1, <1>2, <1>3, <1>7
  <2>2. (2 * u) \div P = 0
    BY <1>1, <2>1, DivisionIs
  <2>3. QED
    BY <1>3, <1>6, <1>7, <2>2 DEF u
<1>8. CASE n < 0
  <2>1. 2 * u = P * 1 + (2 * n + P) /\ 2 * u \in Nat /\ 2 * n + P \in Nat /\ 2 * n + P < P
    BY <1>1, <1>2, <1>3, <1>8
  <2>2. (2 * u) \div P = 1
    <3> DEFINE x == 2 * u
               r == 2 * n + P
    <3>1. x \in Nat /\ r \in Nat /\ r < P /\ x = P * 1 + r /\ P \in Nat \ {0}
      BY <1>1, <2>1
    <3> HIDE DEF x, r
    <3>2. x \div P = 1
      BY <3>1, DivisionIs
    <3>3. QED
      BY <3>2 DEF x
  <2>3. GetInt(Word0(u)) = u - P
    BY <1>6, <2>2
  <2>4. u - P = n
    BY <1>1, <1>2, <1>3, <1>8
  <2>5. QED
    BY <2>3, <2>4 DEF u
<1>9. QED
  BY <1>2, <1>7, <1>8

LEMMA CountNumber ==
    ASSUME NEW n \in 0..(Pow(Small) - 1)
    PROVE  Number(Word0(n)) = n /\ Uint64(n) = n /\ n \in 0..MaxWord
<1>1. n \in 0..MaxWord
  BY WordSize
<1>2. PICK p \in Nat \ {0} : p = Pow(Small)
  BY Sizes, PowNat
<1>3. n % p = n
  <2>1. n = p * 0 + n /\ n < p
    BY <1>2
  <2>2. QED
    BY <1>2, <2>1, DivisionIs
<1>4. QED
  BY <1>1, <1>2, <1>3, WordNumber DEF Uint64

LEMMA BoolNumber ==
    ASSUME NEW n \in {0, 1}
    PROVE  GetBool(Word0(n)) = (n = 1)
<1>1. n \in 0..MaxWord /\ n \in Nat
  BY WordSize
<1> DEFINE s == Bytes(n, Word)
<1>2. Word0(n) = s
  BY <1>1, WordNumber
<1>3. Len(s) = Word /\ s[Word] = (n \div Pow(Word - Word)) % Byte
  <2>1. Word \in 1..Word
    BY Sizes
  <2>2. QED
    BY <1>1, <2>1, Sizes, BytesType
<1>4. s[Word] = n
  <2>1. Word - Word = 0
    BY Sizes
  <2>2. n \div 1 = n
    BY <1>1
  <2>3. n % Byte = n
    <3>1. n = Byte * 0 + n /\ n < Byte
      BY Sizes
    <3>2. QED
      BY <1>1, <3>1, Sizes, DivisionIs
  <2>4. QED
    BY <1>3, <2>1, <2>2, <2>3, PowZero
<1> HIDE DEF s
<1>5. s # <<>> /\ Last(s) = n
  BY <1>3, <1>4, Sizes DEF Last
<1>6. GetBool(s) <=> n = 1
  BY <1>5 DEF GetBool
<1>7. GetBool(s) \in BOOLEAN
  BY DEF GetBool
<1>8. QED
  BY <1>2, <1>6, <1>7

-----------------------------------------------------------------------------
(* Several words of a reply.                                                *)

LEMMA Concat ==
    ASSUME NEW s \in Seq(Nat), NEW t \in Seq(Nat)
    PROVE  /\ s \o t \in Seq(Nat) /\ Len(s \o t) = Len(s) + Len(t)
           /\ \A i \in 1..Len(s) : (s \o t)[i] = s[i]
           /\ \A i \in 1..Len(t) : (s \o t)[Len(s) + i] = t[i]
  OBVIOUS

\* A part of a sequence that is known element by element.
LEMMA PartIs ==
    ASSUME NEW S, NEW s \in Seq(S), NEW t \in Seq(S), NEW a \in Nat,
           a + Len(t) <= Len(s), \A i \in 1..Len(t) : s[a + i] = t[i]
    PROVE  SubSeq(s, a + 1, a + Len(t)) = t
<1> DEFINE n == Len(t)
           p == SubSeq(s, a + 1, a + n)
<1>1. n \in Nat /\ t = [i \in 1..n |-> t[i]]
  OBVIOUS
<1>2. p \in Seq(S) /\ Len(p) = n /\ \A i \in 1..n : p[i] = s[a + i]
  OBVIOUS
<1> HIDE DEF p
<1>3. \A i \in 1..n : p[i] = t[i]
  BY <1>2
<1>4. p = t
  BY <1>1, <1>2, <1>3
<1>5. QED
  BY <1>4 DEF p

\* The fourth of the five words of latestRoundData.
LEMMA FeedNumber ==
    ASSUME NEW n \in 0..(Pow(Small) - 1)
    PROVE  LatestUpdatedAt(PadUint(1) \o PadUint(2) \o PadUint(3) \o Word0(n) \o PadUint(5))
              = <<n>>
<1> DEFINE a == PadUint(1)
           b == PadUint(2)
           c == PadUint(3)
           d == Word0(n)
           e == PadUint(5)
           ab == a \o b
           abc == ab \o c
           abcd == abc \o d
           out == abcd \o e
<1>1. ASSUME NEW k \in Nat PROVE PadUint(k) \in Seq(Nat) /\ Len(PadUint(k)) = Word
  BY BytesType, Sizes DEF PadUint
<1>2. n \in Nat /\ d = PadUint(n)
  BY CountNumber, WordNumber
<1>3. /\ a \in Seq(Nat) /\ b \in Seq(Nat) /\ c \in Seq(Nat) /\ d \in Seq(Nat) /\ e \in Seq(Nat)
      /\ Len(a) = Word /\ Len(b) = Word /\ Len(c) = Word /\ Len(d) = Word /\ Len(e) = Word
  <2>1. 1 \in Nat /\ 2 \in Nat /\ 3 \in Nat /\ 5 \in Nat
    OBVIOUS
  <2> HIDE DEF d
  <2>2. QED
    BY <1>1, <1>2, <2>1
<1> HIDE DEF a, b, c, d, e
<1>4. ab \in Seq(Nat) /\ Len(ab) = 2 * Word
  <2>1. ab \in Seq(Nat) /\ Len(ab) = Len(a) + Len(b)
    BY <1>3, Concat
  <2>2. QED
    BY <1>3, <2>1, Sizes
<1> HIDE DEF ab
<1>5. abc \in Seq(Nat) /\ Len(abc) = 3 * Word
  <2>1. abc \in Seq(Nat) /\ Len(abc) = Len(ab) + Len(c)
    BY <1>3, <1>4, Concat
  <2>2. QED
    BY <1>3, <1>4, <2>1, Sizes
<1> HIDE DEF abc
<1>6. abcd \in Seq(Nat) /\ Len(abcd) = 4 * Word /\ \A i \in 1..Word : abcd[3 * Word + i] = d[i]
  <2>1. abcd \in Seq(Nat) /\ Len(abcd) = Len(abc) + Len(d)
    BY <1>3, <1>5, Concat
  <2>2. \A i \in 1..Len(d) : abcd[Len(abc) + i] = d[i]
    <3>1. \A i \in 1..Len(d) : (abc \o d)[Len(abc) + i] = d[i]
      <4> HIDE DEF d, abc
      <4>1. abc \in Seq(Nat) /\ d \in Seq(Nat)
        BY <1>3, <1>5
      <4>2. QED
        BY <4>1, Concat
    <3>2. QED
      BY <3>1
  <2> HIDE DEF abcd
  <2>3. QED
    BY <1>3, <1>5, <2>1, <2>2, Sizes
<1> HIDE DEF abcd
<1>7. out \in Seq(Nat) /\ Len(out) = 5 * Word /\ \A i \in 1..(4 * Word) : out[i] = abcd[i]
  <2>1. /\ out \in Seq(Nat) /\ Len(out) = Len(abcd) + Len(e)
        /\ \A i \in 1..Len(abcd) : out[i] = abcd[i]
    BY <1>3, <1>6, Concat
  <2>2. QED
    BY <1>3, <1>6, <2>1, Sizes
<1> HIDE DEF out
<1>8. \A i \in 1..Len(d) : out[3 * Word + i] = d[i]
  <2>1. \A i \in 1..Word : 3 * Word + i \in 1..(4 * Word)
    BY Sizes
  <2>2. QED
    BY <1>3, <1>6, <1>7, <2>1
<1>9. SubSeq(out, 3 * Word + 1, 4 * Word) = d
  <2>1. 3 * Word \in Nat /\ 3 * Word + Len(d) = 4 * Word /\ 4 * Word <= Len(out)
    BY <1>3, <1>7, Sizes
  <2>2. SubSeq(out, 3 * Word + 1, 3 * Word + Len(d)) = d
    BY <1>3, <1>7, <1>8, <2>1, PartIs
  <2>3. QED
    BY <2>1, <2>2
<1>10. Number(d) = n /\ Uint64(n) = n
  BY CountNumber DEF d
<1>11. ~(Len(out) < 4 * Word)
  BY <1>7, Sizes
<1>12. LatestUpdatedAt(out) = <<n>>
  BY <1>9, <1>10, <1>11 DEF LatestUpdatedAt
<1>13. QED
  BY <1>12 DEF out, abcd, abc, ab, a, b, c, d, e

-----------------------------------------------------------------------------
(* Names.                                                                   *)

\* The bytes of a name, filled up with zeros.
Filled(s) ==
    [i \in 1..(((Len(s) + Word - 1) \div Word) * Word) |-> IF i <= Len(s) THEN s[i] ELSE 0]

LEMMA FilledType ==
    ASSUME NEW s \in Seq(Nat)
    PROVE  \E q \in Nat : /\ Filled(s) \in Seq(Nat) /\ Len(Filled(s)) = q * Word /\ q * Word \in Nat
                          /\ Len(s) <= q * Word
                          /\ \A i \in 1..(q * Word) :
                                Filled(s)[i] = IF i <= Len(s) THEN s[i] ELSE 0
<1> DEFINE n == Len(s)
           m == n + Word - 1
           q == m \div Word
<1>1. n \in Nat /\ m \in Nat /\ Word \in Nat \ {0}
  BY Sizes
<1>2. q \in Nat /\ m % Word < Word /\ m % Word \in Nat /\ m = Word * q + (m % Word)
  <2> HIDE DEF m
  <2>1. QED
    BY <1>1, Division
<1>3. Word * q \in Nat /\ q * Word = Word * q
  <2> HIDE DEF q
  <2>1. QED
    BY <1>1, <1>2
<1>4. n <= q * Word
  <2> HIDE DEF q
  <2>1. QED
    BY <1>1, <1>2, <1>3
<1>5. Filled(s) = [i \in 1..(q * Word) |-> IF i <= n THEN s[i] ELSE 0]
  BY DEF Filled
<1> HIDE DEF q
<1>6. \A i \in 1..(q * Word) : (IF i <= n THEN s[i] ELSE 0) \in Nat
  BY <1>1
<1>7. QED
  BY <1>1, <1>2, <1>3, <1>4, <1>5, <1>6

\* The three parts of an encoded name.
LEMMA NameParts ==
    ASSUME NEW s \in Seq(Nat), Len(s) <= MaxWord
    PROVE  \E q \in Nat :
              /\ q * Word \in Nat /\ Len(s) <= q * Word
              /\ AbiEncodeString(s) \in Seq(Nat)
              /\ Len(AbiEncodeString(s)) = 2 * Word + q * Word
              /\ SubSeq(AbiEncodeString(s), 1, Word) = Bytes(Word, Word)
              /\ SubSeq(AbiEncodeString(s), Word + 1, 2 * Word) = Bytes(Len(s), Word)
              /\ \A i \in 1..(q * Word) : AbiEncodeString(s)[2 * Word + i] =
                                              IF i <= Len(s) THEN s[i] ELSE 0
<1> DEFINE a == Bytes(Word, Word)
           b == Bytes(Len(s), Word)
           c == Filled(s)
           ab == a \o b
           out == ab \o c
<1>1. /\ a \in Seq(Nat) /\ b \in Seq(Nat) /\ Len(a) = Word /\ Len(b) = Word
      /\ Word \in Nat /\ Word >= 1 /\ Len(s) \in Nat
  <2>1. Len(s) \in Nat /\ Word \in Nat /\ Word >= 1
    BY Sizes
  <2>2. QED
    BY <2>1, BytesType
<1>2. PICK q \in Nat : /\ c \in Seq(Nat) /\ Len(c) = q * Word /\ q * Word \in Nat
                       /\ Len(s) <= q * Word
                       /\ \A i \in 1..(q * Word) : c[i] = IF i <= Len(s) THEN s[i] ELSE 0
  BY FilledType
<1>3. AbiEncodeString(s) = out
  BY DEF AbiEncodeString, Filled
<1> DEFINE p == q * Word
<1> HIDE DEF a, b, c
<1>a. /\ p \in Nat /\ Len(c) = p
      /\ \A i \in 1..p : c[i] = IF i <= Len(s) THEN s[i] ELSE 0
  BY <1>2
<1> HIDE DEF p
<1>4. ab \in Seq(Nat) /\ Len(ab) = Len(a) + Len(b)
  BY <1>1, Concat
<1>5. \A i \in 1..Len(a) : ab[i] = a[i]
  BY <1>1, Concat
<1>6. \A i \in 1..Len(b) : ab[Len(a) + i] = b[i]
  BY <1>1, Concat
<1> HIDE DEF ab
<1>7. out \in Seq(Nat) /\ Len(out) = Len(ab) + Len(c)
  BY <1>2, <1>4, Concat
<1>8. \A i \in 1..Len(ab) : out[i] = ab[i]
  BY <1>2, <1>4, Concat
<1>9. \A i \in 1..Len(c) : out[Len(ab) + i] = c[i]
  BY <1>2, <1>4, Concat
<1> HIDE DEF out
<1>10. /\ p \in Nat /\ Len(out) = 2 * Word + p /\ Len(ab) = 2 * Word
       /\ \A i \in 1..p : out[2 * Word + i] = IF i <= Len(s) THEN s[i] ELSE 0
  <2>1. p \in Nat /\ Len(out) = 2 * Word + p /\ Len(ab) = 2 * Word
    BY <1>1, <1>4, <1>7, <1>a
  <2>2. ASSUME NEW i \in 1..p PROVE out[2 * Word + i] = IF i <= Len(s) THEN s[i] ELSE 0
    <3>1. out[Len(ab) + i] = c[i]
      BY <1>9, <1>a
    <3>2. QED
      BY <1>a, <2>1, <3>1
  <2>3. QED
    BY <2>1, <2>2
<1>11. SubSeq(out, 1, Word) = a
  <2>1. \A i \in 1..Len(a) : out[0 + i] = a[i]
    BY <1>1, <1>5, <1>8, <1>10
  <2>2. out \in Seq(Nat) /\ a \in Seq(Nat) /\ 0 \in Nat /\ 0 + Len(a) <= Len(out)
    BY <1>1, <1>7, <1>10
  <2>3. SubSeq(out, 0 + 1, 0 + Len(a)) = a
    BY <2>1, <2>2, PartIs
  <2>4. QED
    BY <1>1, <2>3
<1>12. SubSeq(out, Word + 1, 2 * Word) = b
  <2>1. \A i \in 1..Len(b) : out[Word + i] = b[i]
    BY <1>1, <1>6, <1>8, <1>10
  <2>2. out \in Seq(Nat) /\ b \in Seq(Nat) /\ Word \in Nat /\ Word + Len(b) <= Len(out)
    BY <1>1, <1>7, <1>10
  <2>3. SubSeq(out, Word + 1, Word + Len(b)) = b
    BY <2>1, <2>2, PartIs
  <2>4. QED
    BY <1>1, <2>3
<1>13. QED
  BY <1>2, <1>3, <1>7, <1>10, <1>11, <1>12 DEF a, b, p

\* keys.go, abiEncodeString: what NamesEncoded says, for a name of any length.
LEMMA NameEncoded ==
    ASSUME NEW s \in Seq(Nat), Len(s) <= MaxWord
    PROVE  LET out == AbiEncodeString(s)
               offset == Number(SubSeq(out, 1, Word))
               length == Number(SubSeq(out, offset + 1, offset + Word))
           IN /\ Len(out) >= offset + Word + length
              /\ SubSeq(out, offset + Word + 1, offset + Word + length) = s
              /\ Len(out) % Word = 0
              /\ \A i \in (offset + Word + length + 1)..Len(out) : out[i] = 0
<1> DEFINE out == AbiEncodeString(s)
           n == Len(s)
<1>1. PICK q \in Nat :
         /\ q * Word \in Nat /\ n <= q * Word
         /\ out \in Seq(Nat) /\ Len(out) = 2 * Word + q * Word
         /\ SubSeq(out, 1, Word) = Bytes(Word, Word)
         /\ SubSeq(out, Word + 1, 2 * Word) = Bytes(n, Word)
         /\ \A i \in 1..(q * Word) : out[2 * Word + i] = IF i <= n THEN s[i] ELSE 0
  BY NameParts
<1>2. Word \in Nat \ {0} /\ n \in Nat
  BY Sizes
<1> HIDE DEF out
<1>3. Number(SubSeq(out, 1, Word)) = Word
  <2>1. Word < Pow(Word)
    BY <1>2, PowNat
  <2>2. QED
    BY <1>1, <1>2, <2>1, NumberBytes
<1>4. Number(SubSeq(out, Word + 1, Word + Word)) = n
  <2>1. n < Pow(Word) /\ Word + Word = 2 * Word
    BY <1>2, WordSize
  <2>2. QED
    BY <1>1, <1>2, <2>1, NumberBytes
<1> DEFINE p == q * Word
<1>5. Len(out) % Word = 0
  <2>1. 2 * Word + q * Word = Word * (q + 2) + 0 /\ q + 2 \in Nat
    BY <1>2
  <2>2. PICK z \in Nat, x \in Nat : z = q + 2 /\ x = Len(out)
    BY <1>1, SMTT(30)
  <2>3. x = Word * z + 0 /\ 0 < Word
    BY <1>1, <1>2, <2>1, <2>2
  <2>4. x % Word = 0
    BY <1>2, <2>2, <2>3, DivisionIs
  <2>5. QED
    BY <2>2, <2>4
<1>6. p \in Nat /\ n <= p /\ Len(out) = 2 * Word + p
      /\ \A i \in 1..p : out[2 * Word + i] = IF i <= n THEN s[i] ELSE 0
  BY <1>1
<1> HIDE DEF p
<1>7. SubSeq(out, 2 * Word + 1, 2 * Word + n) = s
  <2>1. \A i \in 1..Len(s) : out[2 * Word + i] = s[i]
    BY <1>2, <1>6
  <2>2. 2 * Word \in Nat /\ 2 * Word + Len(s) <= Len(out)
    BY <1>2, <1>6
  <2>3. QED
    BY <1>1, <2>1, <2>2, PartIs
<1>8. ASSUME NEW i \in (2 * Word + n + 1)..Len(out) PROVE out[i] = 0
  <2>1. i - 2 * Word \in 1..p /\ ~(i - 2 * Word <= n) /\ 2 * Word + (i - 2 * Word) = i
    BY <1>2, <1>6
  <2>2. QED
    BY <1>6, <2>1
<1>9. Word + Word = 2 * Word
  BY <1>2
<1>10. Len(out) >= 2 * Word + n
  BY <1>2, <1>6
<1>11. QED
  BY <1>2, <1>3, <1>4, <1>5, <1>7, <1>8, <1>9, <1>10 DEF out

-----------------------------------------------------------------------------
(* Words end to end.                                                        *)

Octets == 0..(Byte - 1)

LEMMA OctetsNat ==
    ASSUME NEW s \in Seq(Octets)
    PROVE  s \in Seq(Nat)
<1>1. Octets \subseteq Nat
  BY Sizes DEF Octets
<1>2. Len(s) \in Nat /\ s = [i \in 1..Len(s) |-> s[i]] /\ \A i \in 1..Len(s) : s[i] \in Nat
  BY <1>1
<1>3. QED
  BY <1>2

LEMMA OctetsConcat ==
    ASSUME NEW s \in Seq(Octets), NEW t \in Seq(Octets)
    PROVE  /\ s \o t \in Seq(Octets) /\ Len(s \o t) = Len(s) + Len(t)
           /\ \A i \in 1..Len(s) : (s \o t)[i] = s[i]
           /\ \A i \in 1..Len(t) : (s \o t)[Len(s) + i] = t[i]
  OBVIOUS

FlatTo(f, ss, n) == f = [i \in 1..n |-> IF i = 1 THEN ss[i] ELSE f[i - 1] \o ss[i]]

LEMMA FlatExists ==
    ASSUME NEW ss, NEW n \in Nat
    PROVE  \E f : FlatTo(f, ss, n)
<1> DEFINE W == {m \in Nat : ~\E f : FlatTo(f, ss, m)}
<1> SUFFICES ASSUME W # {} PROVE FALSE
  OBVIOUS
<1>1. PICK m \in W : \A k \in W : m <= k
  <2>1. W \in SUBSET Nat
    OBVIOUS
  <2> HIDE DEF W
  <2>2. QED
    BY <2>1, Least
<1>2. CASE m = 0
  <2>1. FlatTo([i \in 1..0 |-> <<>>], ss, 0)
    BY DEF FlatTo
  <2>2. QED
    BY <1>2, <2>1
<1>3. CASE m # 0
  <2>1. m - 1 \in Nat /\ m - 1 \notin W
    BY <1>1, <1>3
  <2>2. PICK f : FlatTo(f, ss, m - 1)
    BY <2>1
  <2> DEFINE g == [i \in 1..m |-> IF i = 1 THEN ss[i] ELSE f[i - 1] \o ss[i]]
  <2>3. ASSUME NEW i \in 1..m, i # 1 PROVE f[i - 1] = g[i - 1]
    <3>1. i - 1 \in 1..(m - 1) /\ i - 1 \in 1..m
      BY <2>3
    <3>2. f[i - 1] = IF i - 1 = 1 THEN ss[i - 1] ELSE f[(i - 1) - 1] \o ss[i - 1]
      BY <2>2, <3>1 DEF FlatTo
    <3>3. QED
      BY <3>1, <3>2
  <2>4. FlatTo(g, ss, m)
    BY <2>3 DEF FlatTo
  <2>5. QED
    BY <2>4
<1>4. QED
  BY <1>2, <1>3

LEMMA FlatDef ==
    ASSUME NEW ss, Len(ss) \in Nat \ {0}
    PROVE  \E f : FlatTo(f, ss, Len(ss)) /\ FlattenSeq(ss) = f[Len(ss)]
<1>1. PICK g : FlatTo(g, ss, Len(ss))
  BY FlatExists
<1>2. FlattenSeq(ss) = (CHOOSE f : FlatTo(f, ss, Len(ss)))[Len(ss)]
  BY DEF FlattenSeq, FlatTo
<1>3. QED
  BY <1>1, <1>2

\* The i-th block of h, of w elements of S, is that of ss, for the first m.
Blocks(h, ss, m, S, w) ==
    /\ h \in Seq(S) /\ Len(h) = m * w
    /\ \A i \in 1..m : \A j \in 1..w : h[(i - 1) * w + j] = ss[i][j]

LEMMA Concats ==
    ASSUME NEW S, NEW s \in Seq(S), NEW t \in Seq(S)
    PROVE  /\ s \o t \in Seq(S) /\ Len(s \o t) = Len(s) + Len(t)
           /\ \A i \in 1..Len(s) : (s \o t)[i] = s[i]
           /\ \A i \in 1..Len(t) : (s \o t)[Len(s) + i] = t[i]
  OBVIOUS

LEMMA FlatBlocks ==
    ASSUME NEW S, NEW w \in Nat \ {0}, NEW ss \in Seq(Seq(S)),
           \A i \in 1..Len(ss) : Len(ss[i]) = w
    PROVE  Blocks(FlattenSeq(ss), ss, Len(ss), S, w)
<1> DEFINE n == Len(ss)
<1>1. n \in Nat /\ \A i \in 1..n : ss[i] \in Seq(S) /\ Len(ss[i]) = w
  OBVIOUS
<1>2. w \in Nat /\ w >= 1
  OBVIOUS
<1>3. CASE n = 0
  <2>1. ss = <<>>
    BY <1>3
  <2>2. FlattenSeq(ss) = <<>>
    BY <1>3, <2>1 DEF FlattenSeq
  <2>3. <<>> \in Seq(S) /\ Len(<<>>) = 0 * w
    BY <1>2
  <2>4. QED
    BY <1>3, <2>2, <2>3 DEF Blocks
<1>4. CASE n # 0
  <2>1. PICK f : FlatTo(f, ss, n) /\ FlattenSeq(ss) = f[n]
    BY <1>1, <1>4, FlatDef
  <2> HIDE DEF n
  <2> DEFINE W == {m \in 1..n : ~Blocks(f[m], ss, m, S, w)}
  <2>2. W = {}
    <3> SUFFICES ASSUME W # {} PROVE FALSE
      OBVIOUS
    <3>1. PICK m \in W : \A k \in W : m <= k
      <4>1. W \in SUBSET Nat
        BY <1>1
      <4> HIDE DEF W
      <4>2. QED
        BY <4>1, Least
    <3>2. f[m] = IF m = 1 THEN ss[m] ELSE f[m - 1] \o ss[m]
      BY <2>1 DEF FlatTo
    <3>3. m \in 1..n /\ m \in Nat /\ m >= 1 /\ ss[m] \in Seq(S) /\ Len(ss[m]) = w
      BY <1>1
    <3>4. CASE m = 1
      <4>1. f[m] \in Seq(S) /\ Len(f[m]) = 1 * w
        BY <1>2, <3>2, <3>3, <3>4
      <4>2. \A i \in 1..1 : \A j \in 1..w : (i - 1) * w + j = j
        BY <1>2
      <4>3. Blocks(f[m], ss, m, S, w)
        BY <3>2, <3>4, <4>1, <4>2 DEF Blocks
      <4>4. QED
        BY <4>3
    <3>5. CASE m # 1
      <4>1. m - 1 \in 1..n /\ m - 1 \notin W
        BY <1>1, <3>1, <3>3, <3>5
      <4> DEFINE h == f[m - 1]
                 x == ss[m]
                 p == (m - 1) * w
      <4>2. Blocks(h, ss, m - 1, S, w) /\ f[m] = h \o x
        BY <3>2, <3>5, <4>1
      <4>3. h \in Seq(S) /\ Len(h) = p /\ x \in Seq(S) /\ Len(x) = w
        BY <3>3, <4>2 DEF Blocks
      <4>4. p \in Nat /\ p + w = m * w
        BY <1>2, <3>3
      <4>5. \A i \in 1..(m - 1) : \A j \in 1..w : h[(i - 1) * w + j] = ss[i][j]
        BY <4>2 DEF Blocks
      <4> HIDE DEF h, x, p
      <4>6. /\ h \o x \in Seq(S) /\ Len(h \o x) = p + w
            /\ \A i \in 1..p : (h \o x)[i] = h[i]
            /\ \A i \in 1..w : (h \o x)[p + i] = x[i]
        <5>1. /\ h \o x \in Seq(S) /\ Len(h \o x) = Len(h) + Len(x)
              /\ \A i \in 1..Len(h) : (h \o x)[i] = h[i]
              /\ \A i \in 1..Len(x) : (h \o x)[Len(h) + i] = x[i]
          <6>1. h \in Seq(S) /\ x \in Seq(S)
            BY <4>3
          <6>2. QED
            BY <6>1, Concats
        <5>2. Len(h) = p /\ Len(x) = w
          BY <4>3
        <5>3. QED
          BY <5>1, <5>2
      <4>7. ASSUME NEW i \in 1..m, NEW j \in 1..w
            PROVE  (h \o x)[(i - 1) * w + j] = ss[i][j]
        <5>1. CASE i = m
          BY <4>6, <5>1 DEF p, x
        <5>2. CASE i # m
          <6>1. i \in 1..(m - 1)
            BY <3>3, <5>2
          <6>2. (i - 1) * w + j \in 1..p
            <7>1. PICK d \in Nat, e \in Nat : i = e + 1 /\ m - 1 = e + 1 + d
              <8>1. i - 1 \in Nat /\ m - 1 - i \in Nat /\ i = (i - 1) + 1
                    /\ m - 1 = (i - 1) + 1 + (m - 1 - i)
                BY <3>3, <6>1
              <8>2. QED
                BY <8>1
            <7>2. /\ (e + 1 + d) * w = e * w + w + d * w
                  /\ d * w \in Nat /\ e * w \in Nat
              BY <1>2
            <7>3. p = e * w + w + d * w /\ (i - 1) * w = e * w
              BY <7>1, <7>2 DEF p
            <7>4. \A a, b \in Nat : a + j \in 1..(a + w + b)
              BY <1>2
            <7>5. QED
              BY <7>2, <7>3, <7>4
          <6>3. (h \o x)[(i - 1) * w + j] = h[(i - 1) * w + j]
            BY <4>6, <6>2
          <6>4. QED
            BY <4>5, <6>1, <6>3
        <5>3. QED
          BY <5>1, <5>2
      <4>8. Blocks(h \o x, ss, m, S, w)
        BY <4>4, <4>6, <4>7 DEF Blocks
      <4>9. QED
        BY <4>2, <4>8 DEF h, x
    <3>6. QED
      BY <3>4, <3>5
  <2>3. n \in 1..n
    BY <1>1, <1>4
  <2>4. QED
    BY <2>1, <2>2, <2>3 DEF n
<1>5. QED
  BY <1>3, <1>4

\* The i-th word of h is that of ss, for the first m.
Holds(h, ss, m) == Blocks(h, ss, m, Octets, Word)

LEMMA FlatWords ==
    ASSUME NEW ss \in Seq(Seq(Octets)), \A i \in 1..Len(ss) : Len(ss[i]) = Word
    PROVE  Holds(FlattenSeq(ss), ss, Len(ss))
<1>1. Word \in Nat \ {0}
  BY Sizes
<1>2. QED
  BY <1>1, FlatBlocks DEF Holds

-----------------------------------------------------------------------------
(* Arrays of addresses.                                                     *)

SlotsFor(addresses) == [i \in DOMAIN addresses |-> Bytes(addresses[i], Word)]

\* An encoded array: the offset, the length, and a word for each address.
LEMMA EncodedIs ==
    ASSUME NEW addresses \in Seq(Nat), Len(addresses) <= MaxWord
    PROVE  LET n == Len(addresses)
               out == Encoded(addresses)
           IN /\ out \in Seq(Octets) /\ Len(out) = 2 * Word + n * Word
              /\ SubSeq(out, 1, Word) = Bytes(Word, Word)
              /\ SubSeq(out, Word + 1, 2 * Word) = Bytes(n, Word)
              /\ \E c : /\ SubSeq(out, 2 * Word + 1, Len(out)) = c
                        /\ Holds(c, SlotsFor(addresses), n)
<1> DEFINE n == Len(addresses)
           a == Bytes(Word, Word)
           b == Bytes(n, Word)
           ss == SlotsFor(addresses)
           c == FlattenSeq(ss)
           ab == a \o b
           out == ab \o c
           p == n * Word
<1>1. n \in Nat /\ Word \in Nat /\ Word >= 1 /\ p \in Nat
  BY Sizes
<1>2. a \in Seq(Octets) /\ b \in Seq(Octets) /\ Len(a) = Word /\ Len(b) = Word
  BY <1>1, BytesType DEF Octets
<1>3. Holds(c, ss, n)
  <2>1. \A i \in 1..n : addresses[i] \in Nat
    BY <1>1
  <2>2. \A i \in 1..n : Bytes(addresses[i], Word) \in Seq(Octets) /\ Len(Bytes(addresses[i], Word)) = Word
    BY <1>1, <2>1, BytesType DEF Octets
  <2>3. DOMAIN addresses = 1..n
    BY <1>1
  <2>4. ss = [i \in 1..n |-> Bytes(addresses[i], Word)]
    BY <2>3 DEF SlotsFor
  <2> HIDE DEF ss, n
  <2>5. ss \in Seq(Seq(Octets)) /\ Len(ss) = n /\ \A i \in 1..n : Len(ss[i]) = Word
    BY <1>1, <2>2, <2>4
  <2>6. QED
    BY <2>5, FlatWords
<1>4. Encoded(addresses) = out
  BY DEF Encoded, SlotsFor
<1>5. c \in Seq(Octets) /\ Len(c) = p
  BY <1>3 DEF Holds, Blocks
<1> HIDE DEF a, b, c, p, n, ss
<1>6. ab \in Seq(Octets) /\ Len(ab) = Len(a) + Len(b)
  BY <1>2, OctetsConcat
<1>7. \A i \in 1..Len(a) : ab[i] = a[i]
  BY <1>2, OctetsConcat
<1>8. \A i \in 1..Len(b) : ab[Len(a) + i] = b[i]
  BY <1>2, OctetsConcat
<1> HIDE DEF ab
<1>9. out \in Seq(Octets) /\ Len(out) = Len(ab) + Len(c)
  BY <1>5, <1>6, OctetsConcat
<1>10. \A i \in 1..Len(ab) : out[i] = ab[i]
  BY <1>5, <1>6, OctetsConcat
<1>11. \A i \in 1..Len(c) : out[Len(ab) + i] = c[i]
  BY <1>5, <1>6, OctetsConcat
<1> HIDE DEF out
<1>12. Len(ab) = 2 * Word /\ Len(out) = 2 * Word + p
  BY <1>1, <1>2, <1>5, <1>6, <1>9
<1>13. SubSeq(out, 1, Word) = a
  <2>1. \A i \in 1..Len(a) : out[0 + i] = a[i]
    BY <1>1, <1>2, <1>7, <1>10, <1>12
  <2>2. SubSeq(out, 0 + 1, 0 + Len(a)) = a
    BY <1>1, <1>2, <1>9, <1>12, <2>1, PartIs
  <2>3. QED
    BY <1>1, <1>2, <2>2
<1>14. SubSeq(out, Word + 1, 2 * Word) = b
  <2>1. \A i \in 1..Len(b) : out[Word + i] = b[i]
    BY <1>1, <1>2, <1>8, <1>10, <1>12
  <2>2. SubSeq(out, Word + 1, Word + Len(b)) = b
    BY <1>1, <1>2, <1>9, <1>12, <2>1, PartIs
  <2>3. QED
    BY <1>1, <1>2, <2>2
<1>15. SubSeq(out, 2 * Word + 1, Len(out)) = c
  <2>1. \A i \in 1..Len(c) : out[2 * Word + i] = c[i]
    BY <1>11, <1>12
  <2>2. SubSeq(out, 2 * Word + 1, 2 * Word + Len(c)) = c
    BY <1>1, <1>5, <1>9, <1>12, <2>1, PartIs
  <2>3. QED
    BY <1>5, <1>12, <2>2
<1>16. QED
  BY <1>3, <1>4, <1>9, <1>12, <1>13, <1>14, <1>15 DEF a, b, p, n, ss

\* The last bytes of a word are those of a number that fits.
LEMMA SlotNumber ==
    ASSUME NEW addresses \in Seq(0..(Pow(Addr) - 1)), NEW c,
           Holds(c, SlotsFor(addresses), Len(addresses)), NEW i \in 1..Len(addresses)
    PROVE  Slot(c, i) = addresses[i]
<1> DEFINE n == Len(addresses)
           x == addresses[i]
           t == Bytes(x, Addr)
           at == i * Word - Addr
<1>1. /\ n \in Nat /\ i \in Nat /\ Word \in Nat /\ Addr \in Nat /\ 1 <= Addr /\ Addr <= Word
      /\ x \in Nat /\ x < Pow(Addr)
  <2>1. Pow(Addr) \in Nat
    BY Sizes, PowNat
  <2>2. QED
    BY <2>1, Sizes
<1>2. /\ Len(t) = Addr /\ t \in Seq(Octets)
      /\ \A k \in 1..Addr : t[k] = (x \div Pow(Addr - k)) % Byte
  BY <1>1, BytesType DEF Octets
<1>3. SlotsFor(addresses)[i] = Bytes(x, Word)
  BY DEF SlotsFor
<1>4. c \in Seq(Octets) /\ Len(c) = n * Word
      /\ \A j \in 1..Word : c[(i - 1) * Word + j] = Bytes(x, Word)[j]
  BY <1>3 DEF Holds, Blocks
<1>5. /\ at \in Nat /\ at + Addr <= n * Word /\ i * Word \in Nat /\ n * Word \in Nat
      /\ (i - 1) * Word = i * Word - Word
  <2>1. PICK d \in Nat, e \in Nat : i = e + 1 /\ n = e + 1 + d
    <3>1. i - 1 \in Nat /\ n - i \in Nat /\ i = (i - 1) + 1 /\ n = (i - 1) + 1 + (n - i)
      BY <1>1
    <3>2. QED
      BY <3>1
  <2>2. /\ (e + 1 + d) * Word = e * Word + Word + d * Word /\ (e + 1) * Word = e * Word + Word
        /\ d * Word \in Nat /\ e * Word \in Nat
    BY <1>1
  <2>3. i * Word = e * Word + Word /\ n * Word = e * Word + Word + d * Word
        /\ (i - 1) * Word = e * Word
    BY <2>1, <2>2
  <2>4. QED
    BY <1>1, <2>2, <2>3
<1>6. ASSUME NEW k \in 1..Addr PROVE c[at + k] = t[k]
  <2>1. Word - Addr + k \in 1..Word /\ Word - (Word - Addr + k) = Addr - k
    BY <1>1
  <2>2. (i - 1) * Word + (Word - Addr + k) = at + k
    BY <1>1, <1>5
  <2>3. Bytes(x, Word)[Word - Addr + k] = (x \div Pow(Addr - k)) % Byte
    <3>1. PICK m \in 1..Word : m = Word - Addr + k /\ Word - m = Addr - k
      BY <2>1
    <3>2. Bytes(x, Word)[m] = (x \div Pow(Word - m)) % Byte
      BY <1>1, BytesType
    <3>3. QED
      BY <3>1, <3>2
  <2>4. QED
    BY <1>2, <1>4, <2>1, <2>2, <2>3
<1>7. Number(t) = x
  BY <1>1, NumberBytes
<1> HIDE DEF t, x
<1>8. SubSeq(c, at + 1, at + Len(t)) = t
  <2>1. at \in Nat /\ at + Len(t) <= Len(c)
    BY <1>2, <1>4, <1>5
  <2> HIDE DEF at
  <2>2. \A k \in 1..Len(t) : c[at + k] = t[k]
    BY <1>2, <1>6
  <2>3. QED
    BY <1>2, <1>4, <2>1, <2>2, PartIs
<1>9. at + 1 = i * Word - Addr + 1 /\ at + Len(t) = i * Word
  BY <1>1, <1>2, <1>5
<1>10. SubSeq(c, i * Word - Addr + 1, i * Word) = t
  BY <1>8, <1>9
<1>11. QED
  BY <1>7, <1>10 DEF Slot, x

\* client.go, decodeAddressArray: the members that the RoleStore returns are the members
\* the task gets, for an array of any length whose reply has fewer than 2^64 bytes.
THEOREM ArrayDecoded ==
    ASSUME NEW addresses \in Seq(0..(Pow(Addr) - 1)),
           (Len(addresses) + 2) * Word < Pow(Small)
    PROVE  DecodeAddressArray(Decoded(Encoded(addresses))) = addresses
<1> DEFINE n == Len(addresses)
           out == Encoded(addresses)
           p == n * Word
<1>1. n \in Nat /\ Word \in Nat /\ Word >= 1 /\ p \in Nat /\ 2 * Word + p < Pow(Small) /\ n <= p
  <2>1. n \in Nat /\ Word \in Nat /\ Word >= 1
    BY Sizes
  <2>2. (n + 2) * Word = 2 * Word + n * Word /\ n * Word \in Nat
    BY <2>1
  <2>3. n <= n * Word
    <3>1. PICK w \in Nat : Word = w + 1
      <4>1. Word - 1 \in Nat /\ Word = (Word - 1) + 1
        BY <2>1
      <4>2. QED
        BY <4>1
    <3>2. n * (w + 1) = n * w + n /\ n * w \in Nat
      BY <2>1
    <3>3. QED
      BY <2>1, <3>1, <3>2
  <2>4. QED
    BY <2>1, <2>2, <2>3
<1> HIDE DEF p
<1>2. Pow(Small) \in Nat /\ Pow(Small) <= Pow(Word) /\ Pow(Word) \in Nat /\ n <= MaxWord
  BY <1>1, WordSize
<1>3. addresses \in Seq(Nat)
  <2>1. \A i \in 1..n : addresses[i] \in Nat
    <3>1. Pow(Addr) \in Nat
      BY Sizes, PowNat
    <3>2. QED
      BY <3>1
  <2>2. addresses = [i \in 1..n |-> addresses[i]]
    OBVIOUS
  <2>3. QED
    BY <1>1, <2>1, <2>2
<1>4. PICK c : /\ out \in Seq(Octets) /\ Len(out) = 2 * Word + p
               /\ SubSeq(out, 1, Word) = Bytes(Word, Word)
               /\ SubSeq(out, Word + 1, 2 * Word) = Bytes(n, Word)
               /\ SubSeq(out, 2 * Word + 1, Len(out)) = c
               /\ Holds(c, SlotsFor(addresses), n)
  BY <1>2, <1>3, EncodedIs DEF p
<1>5. Decoded(out) = out
  <2> HIDE DEF out
  <2>1. QED
    BY <1>4, HexAndBack DEF Decoded, Octets
<1> HIDE DEF out
<1>6. ASSUME NEW k \in Nat, k < Pow(Small) PROVE Uint64(k) = k
  BY <1>2, <1>6, CountNumber
<1>7. Number(Bytes(Word, Word)) = Word /\ Number(Bytes(n, Word)) = n
  BY <1>1, <1>2, NumberBytes
<1>8. Uint64(Word) = Word /\ Uint64(n) = n /\ Uint64(Word + Word) = 2 * Word /\ Uint64(p) = p
  <2>1. Word < Pow(Small) /\ n < Pow(Small) /\ 2 * Word < Pow(Small) /\ p < Pow(Small)
    BY <1>1, <1>2
  <2>2. Word + Word = 2 * Word /\ 2 * Word \in Nat
    BY <1>1
  <2>3. QED
    BY <1>1, <1>6, <2>1, <2>2
<1>9. DecodeAddressArray(out) = ArrayAt(out, Word)
  <2>1. Uint64(Number(SubSeq(out, 1, Word))) = Word
    BY <1>4, <1>7, <1>8
  <2>2. ~(Len(out) < 2 * Word) /\ ~(Len(out) < Word + Word)
    BY <1>1, <1>4
  <2>3. QED
    BY <1>8, <2>1, <2>2 DEF DecodeAddressArray
<1>10. ArrayAt(out, Word) = [i \in 1..n |-> Slot(c, i)]
  <2>1. Uint64(Number(SubSeq(out, Word + 1, Word + Word))) = n
    <3>1. Word + Word = 2 * Word
      BY <1>1
    <3>2. QED
      BY <1>4, <1>7, <1>8, <3>1
  <2>2. SubSeq(out, Word + Word + 1, Len(out)) = c
    <3>1. Word + Word = 2 * Word
      BY <1>1
    <3>2. QED
      BY <1>4, <3>1
  <2>3. Len(c) = p
    BY <1>4 DEF Holds, Blocks, p
  <2>4. ~(Len(c) < Uint64(n * Word)) /\ ~(Len(c) < n * Word)
    BY <1>1, <1>8, <2>3 DEF p
  <2>5. QED
    BY <2>1, <2>2, <2>4 DEF ArrayAt
<1>11. \A i \in 1..n : Slot(c, i) = addresses[i]
  BY <1>4, SlotNumber
<1>12. [i \in 1..n |-> Slot(c, i)] = addresses
  <2>1. addresses = [i \in 1..n |-> addresses[i]]
    OBVIOUS
  <2>2. QED
    BY <1>11, <2>1
<1>13. QED
  BY <1>5, <1>9, <1>10, <1>12 DEF out

-----------------------------------------------------------------------------
(* Replies of any form.                                                     *)

Digits == (0..(Digit - 1)) \cup {NoDigit}

\* A text that is no hex gives nothing.
LEMMA NoText ==
    ASSUME NEW text, Len(text) % 2 = 1 \/ NoDigit \in ToSet(text)
    PROVE  LET out == HexToBytes(text)
           IN /\ out = <<>> /\ GetUint(out) = 0 /\ GetInt(out) = 0 /\ GetCount(out) = 0
              /\ ~GetBool(out) /\ LatestUpdatedAt(out) = Refused
<1>1. HexToBytes(text) = <<>>
  BY DEF HexToBytes
<1>2. Number(<<>>) = 0
  BY NumberEmpty
<1>3. PICK p \in Nat : p = Pow(Small) /\ p > 0
  BY Sizes, PowNat, SMTT(30)
<1>4. PICK q \in Nat : q = Pow(Word) /\ q > 0
  BY Sizes, PowNat, SMTT(30)
<1>5. GetUint(<<>>) = 0 /\ GetInt(<<>>) = 0 /\ GetCount(<<>>) = 0
  <2>1. 0 % p = 0
    BY <1>3
  <2>2. 2 * 0 = 0 /\ 0 \div q = 0 /\ 0 % 2 = 0
    BY <1>4
  <2>3. (2 * Number(<<>>)) \div Pow(Word) % 2 = 0
    BY <1>2, <1>4, <2>2
  <2>4. GetInt(<<>>) = 0
    BY <1>2, <2>3 DEF GetInt
  <2>5. QED
    BY <1>2, <1>3, <2>1, <2>4 DEF GetUint, GetCount, Uint64
<1>6. ~GetBool(<<>>)
  BY DEF GetBool
<1>7. LatestUpdatedAt(<<>>) = Refused
  BY Sizes DEF LatestUpdatedAt
<1>8. QED
  BY <1>1, <1>5, <1>6, <1>7

LEMMA HexType ==
    ASSUME NEW text \in Seq(Digits)
    PROVE  HexToBytes(text) \in Seq(Nat)
<1>1. CASE Len(text) % 2 = 1 \/ NoDigit \in ToSet(text)
  BY <1>1 DEF HexToBytes
<1>2. CASE Len(text) % 2 = 0 /\ NoDigit \notin ToSet(text)
  <2> DEFINE n == Len(text) \div 2
  <2>1. n \in Nat /\ Len(text) = 2 * n
    BY <1>2
  <2>2. \A k \in 1..Len(text) : text[k] \in Nat
    BY <1>2, Sizes DEF ToSet, Digits
  <2> HIDE DEF n
  <2>3. ASSUME NEW i \in 1..n PROVE Digit * text[2 * i - 1] + text[2 * i] \in Nat
    <3>1. 2 * i - 1 \in 1..Len(text) /\ 2 * i \in 1..Len(text)
      BY <2>1
    <3>2. PICK x \in Nat, y \in Nat : x = text[2 * i - 1] /\ y = text[2 * i]
      BY <2>2, <3>1
    <3>3. Digit * x + y \in Nat
      BY Sizes
    <3>4. QED
      BY <3>2, <3>3
  <2>4. HexToBytes(text) = [i \in 1..n |-> Digit * text[2 * i - 1] + text[2 * i]]
    BY <1>2 DEF HexToBytes, n
  <2>5. QED
    BY <2>1, <2>3, <2>4
<1>3. Len(text) % 2 = 0 \/ Len(text) % 2 = 1
  OBVIOUS
<1>4. QED
  BY <1>1, <1>2, <1>3

\* A part of the rest of a sequence is a part of the sequence.
LEMMA PartOfRest ==
    ASSUME NEW s \in Seq(Nat), NEW a \in Nat, a <= Len(s),
           NEW x \in Nat, NEW y \in Nat, 1 <= x, y <= Len(s) - a
    PROVE  /\ SubSeq(s, a + 1, Len(s)) \in Seq(Nat) /\ Len(SubSeq(s, a + 1, Len(s))) = Len(s) - a
           /\ SubSeq(SubSeq(s, a + 1, Len(s)), x, y) = SubSeq(s, a + x, a + y)
           /\ SubSeq(s, a + x, a + y) \in Seq(Nat)
<1> DEFINE b == SubSeq(s, a + 1, Len(s))
<1>1. b \in Seq(Nat) /\ Len(b) = Len(s) - a /\ \A k \in 1..(Len(s) - a) : b[k] = s[a + k]
  OBVIOUS
<1> HIDE DEF b
<1> DEFINE m == y - x + 1
<1>2. SubSeq(b, x, y) = [k \in 1..m |-> b[x + k - 1]]
  BY <1>1
<1>3. SubSeq(s, a + x, a + y) = [k \in 1..m |-> s[a + x + k - 1]]
  OBVIOUS
<1>4. \A k \in 1..m : x + k - 1 \in 1..(Len(s) - a) /\ a + (x + k - 1) = a + x + k - 1
  OBVIOUS
<1>5. \A k \in 1..m : b[x + k - 1] = s[a + x + k - 1]
  BY <1>1, <1>4
<1>6. SubSeq(s, a + x, a + y) \in Seq(Nat)
  OBVIOUS
<1>7. QED
  BY <1>1, <1>2, <1>3, <1>5, <1>6 DEF b

LEMMA SmallNumber ==
    ASSUME NEW n \in Nat
    PROVE  Uint64(n) \in Nat /\ (n < Pow(Small) => Uint64(n) = n)
<1>1. PICK p \in Nat \ {0} : p = Pow(Small)
  BY Sizes, PowNat
<1>2. n % p \in Nat
  BY Division
<1>3. n < p => n % p = n
  <2>1. n = p * 0 + n
    BY <1>1
  <2>2. QED
    BY <2>1, DivisionIs
<1>4. QED
  BY <1>1, <1>2, <1>3 DEF Uint64

WordAt(out, i) == Number(SubSeq(out, i + 1, i + Word)) % Pow(Small)

LEMMA WordAtNat ==
    ASSUME NEW out \in Seq(Nat), NEW i \in Nat, i + Word <= Len(out)
    PROVE  WordAt(out, i) \in Nat /\ WordAt(out, i) = Uint64(Number(SubSeq(out, i + 1, i + Word)))
<1>1. SubSeq(out, i + 1, i + Word) \in Seq(Nat)
  BY Sizes
<1>2. Number(SubSeq(out, i + 1, i + Word)) \in Nat
  BY <1>1, NumberNat
<1>3. QED
  BY <1>2, SmallNumber DEF WordAt, Uint64

\* The slots of the rest of a reply are slots of the reply.
LEMMA SlotOfReply ==
    ASSUME NEW out \in Seq(Nat), NEW a \in Nat, NEW length \in Nat, NEW i \in 1..length,
           a <= Len(out), length * Word <= Len(out) - a, Word <= a
    PROVE  LET slot == Slot(SubSeq(out, a + 1, Len(out)), i)
           IN slot \in Nat /\ slot \in SlotsOf(out)
<1> DEFINE p == i * Word
           x == p - Addr + 1
           slot == Slot(SubSeq(out, a + 1, Len(out)), i)
<1>1. /\ Word \in Nat /\ Addr \in Nat /\ 1 <= Addr /\ Addr <= Word /\ i \in Nat
      /\ p \in Nat /\ Word <= p /\ p <= Len(out) - a
  <2>1. Word \in Nat /\ Addr \in Nat /\ 1 <= Addr /\ Addr <= Word
    BY Sizes
  <2>2. PICK d \in Nat, e \in Nat : i = e + 1 /\ length = e + 1 + d
    <3>1. i - 1 \in Nat /\ length - i \in Nat /\ i = (i - 1) + 1 /\ length = (i - 1) + 1 + (length - i)
      OBVIOUS
    <3>2. QED
      BY <3>1
  <2>3. /\ (e + 1 + d) * Word = e * Word + Word + d * Word /\ (e + 1) * Word = e * Word + Word
        /\ d * Word \in Nat /\ e * Word \in Nat
    BY <2>1
  <2>4. i * Word = e * Word + Word /\ length * Word = e * Word + Word + d * Word
    BY <2>2, <2>3
  <2> HIDE DEF p
  <2>5. p = e * Word + Word /\ e * Word + Word + d * Word <= Len(out) - a
    BY <2>4 DEF p
  <2>6. QED
    BY <2>1, <2>3, <2>5
<1> HIDE DEF p
<1>2. x \in Nat /\ 1 <= x /\ p <= Len(out) - a
  BY <1>1
<1>3. slot = Number(SubSeq(SubSeq(out, a + 1, Len(out)), x, p))
  BY DEF Slot, p
<1> HIDE DEF slot
<1>4. /\ SubSeq(SubSeq(out, a + 1, Len(out)), x, p) = SubSeq(out, a + x, a + p)
      /\ SubSeq(out, a + x, a + p) \in Seq(Nat)
  <2> HIDE DEF x
  <2>1. QED
    BY <1>1, <1>2, PartOfRest
<1>5. slot = Number(SubSeq(out, a + x, a + p)) /\ slot \in Nat
  BY <1>3, <1>4, NumberNat
<1> DEFINE k == a + p - Word
<1>6. k \in 0..(Len(out) - Word) /\ k + Word - Addr + 1 = a + x /\ k + Word = a + p
  BY <1>1
<1> HIDE DEF k, x
<1>7. slot = Number(SubSeq(out, k + Word - Addr + 1, k + Word))
  BY <1>5, <1>6
<1>8. slot \in SlotsOf(out)
  BY <1>6, <1>7 DEF SlotsOf
<1>9. QED
  BY <1>5, <1>8 DEF slot

\* client.go, decodeAddressArray: what comes out of any reply.
LEMMA MembersHeld ==
    ASSUME NEW out \in Seq(Nat)
    PROVE  LET res == DecodeAddressArray(out)
           IN IF res = Panic
              THEN \/ WordAt(out, 0) + Word >= Pow(Small)
                   \/ WordAt(out, WordAt(out, 0)) * Word >= Pow(Small)
              ELSE res # Refused /\ res # <<>> =>
                      /\ Len(res) = WordAt(out, WordAt(out, 0))
                      /\ ToSet(res) \subseteq SlotsOf(out)
<1> DEFINE res == DecodeAddressArray(out)
           offset == WordAt(out, 0)
           length == WordAt(out, offset)
           a == offset + Word
           body == SubSeq(out, a + 1, Len(out))
<1>1. Word \in Nat /\ Word >= 1 /\ Pow(Small) \in Nat
  BY Sizes, PowNat
<1>2. <<>> # Panic /\ Refused # Panic
  BY DEF Refused, Panic
<1>3. CASE Len(out) < 2 * Word
  BY <1>2, <1>3 DEF DecodeAddressArray
<1>4. CASE ~(Len(out) < 2 * Word)
  <2>1. offset \in Nat /\ offset = Uint64(Number(SubSeq(out, 1, Word)))
    <3>1. 0 + Word <= Len(out) /\ 0 + 1 = 1 /\ 0 + Word = Word
      BY <1>1, <1>4
    <3>2. QED
      BY <3>1, WordAtNat
  <2> HIDE DEF offset
  <2>2. a \in Nat /\ Word <= a
    BY <1>1, <2>1
  <2>3. res = IF Len(out) < Uint64(a) THEN Refused
              ELSE IF Len(out) < a THEN Panic
              ELSE ArrayAt(out, offset)
    BY <1>4, <2>1 DEF DecodeAddressArray
  <2>4. CASE Len(out) < Uint64(a)
    BY <1>2, <2>3, <2>4
  <2>5. CASE ~(Len(out) < Uint64(a)) /\ Len(out) < a
    <3>1. res = Panic
      BY <2>3, <2>5
    <3>2. Uint64(a) # a
      BY <2>5
    <3>3. ~(a < Pow(Small))
      BY <2>2, <3>2, SmallNumber
    <3>4. a >= Pow(Small)
      BY <1>1, <2>2, <3>3
    <3>5. QED
      BY <3>1, <3>4 DEF offset
  <2>6. CASE ~(Len(out) < Uint64(a)) /\ ~(Len(out) < a)
    <3>1. a <= Len(out) /\ offset + Word <= Len(out)
      BY <2>2, <2>6
    <3>2. length \in Nat /\ length = Uint64(Number(SubSeq(out, offset + 1, offset + Word)))
      BY <2>1, <3>1, WordAtNat
    <3> HIDE DEF length
    <3> DEFINE p == length * Word
    <3>3. p \in Nat
      BY <1>1, <3>2
    <3>4. Len(body) = Len(out) - a
      BY <2>2, <3>1
    <3>5. res = IF Len(body) < Uint64(p) THEN Refused
                ELSE IF Len(body) < p THEN Panic
                ELSE [i \in 1..length |-> Slot(body, i)]
      BY <2>3, <2>6, <3>2 DEF ArrayAt
    <3> HIDE DEF p, body, a, res
    <3>6. CASE Len(body) < Uint64(p)
      BY <1>2, <3>5, <3>6 DEF res
    <3>7. CASE ~(Len(body) < Uint64(p)) /\ Len(body) < p
      <4>1. res = Panic /\ Uint64(p) # p
        BY <3>5, <3>7
      <4>2. ~(p < Pow(Small))
        BY <3>3, <4>1, SmallNumber
      <4>3. p >= Pow(Small)
        BY <1>1, <3>3, <4>2
      <4>4. QED
        BY <4>1, <4>3 DEF p, length, offset, res
    <3>8. CASE ~(Len(body) < Uint64(p)) /\ ~(Len(body) < p)
      <4>1. res = [i \in 1..length |-> Slot(body, i)]
        BY <3>5, <3>8
      <4>2. length * Word <= Len(out) - a
        <5>1. p <= Len(out) - a
          BY <2>2, <3>3, <3>4, <3>8
        <5>2. QED
          BY <5>1 DEF p
      <4>3. ASSUME NEW i \in 1..length PROVE res[i] \in Nat /\ res[i] \in SlotsOf(out)
        BY <2>2, <3>1, <3>2, <4>1, <4>2, SlotOfReply DEF body
      <4>4. Len(res) = length /\ DOMAIN res = 1..length
        BY <3>2, <4>1
      <4>5. res # Panic
        <5>1. SUFFICES ASSUME res = Panic PROVE FALSE
          OBVIOUS
        <5>2. res = <<-2>>
          BY <5>1 DEF Panic
        <5>3. Len(res) = 1 /\ res[1] = -2
          BY <5>2
        <5>4. length = 1
          BY <4>4, <5>3
        <5>5. res[1] \in Nat
          BY <4>3, <5>4
        <5>6. QED
          BY <5>3, <5>5
      <4>6. ToSet(res) \subseteq SlotsOf(out)
        BY <4>3, <4>4 DEF ToSet
      <4>7. QED
        BY <4>4, <4>5, <4>6 DEF length, offset, res
    <3>9. QED
      BY <3>6, <3>7, <3>8
  <2>7. QED
    BY <2>4, <2>5, <2>6
<1>5. QED
  BY <1>3, <1>4

LEMMA HexDigits ==
    ASSUME NEW s \in Seq(Octets)
    PROVE  BytesToHex(s) \in Seq(Digits)
<1> DEFINE n == 2 * Len(s)
           c(i) == IF i % 2 = 1 THEN s[(i + 1) \div 2] \div Digit ELSE s[i \div 2] % Digit
<1>1. ASSUME NEW i \in 1..n PROVE c(i) \in Digits
  <2>1. CASE i % 2 = 1
    <3>1. (i + 1) \div 2 \in 1..Len(s)
      BY <2>1
    <3>2. PICK b \in Nat : b = s[(i + 1) \div 2] /\ b < Digit * Digit
      BY <3>1, Sizes DEF Octets
    <3>3. Digit \in Nat \ {0} /\ b \div Digit \in Nat /\ b % Digit \in Nat
          /\ b = Digit * (b \div Digit) + (b % Digit)
      BY Sizes, Division
    <3>4. b \div Digit < Digit
      <4>1. PICK d \in Nat, q \in Nat, r \in Nat :
               d = Digit /\ q = b \div Digit /\ b = d * q + r /\ b < d * d
        BY <3>2, <3>3
      <4>2. SUFFICES ASSUME ~(q < d) PROVE FALSE
        BY <4>1
      <4>3. PICK e \in Nat : q = d + e
        <5>1. q - d \in Nat /\ q = d + (q - d)
          BY <4>2
        <5>2. QED
          BY <5>1
      <4>4. d * (d + e) = d * d + d * e /\ d * e \in Nat /\ d * d \in Nat
        OBVIOUS
      <4>5. QED
        BY <4>1, <4>3, <4>4
    <3>5. QED
      BY <2>1, <3>2, <3>3, <3>4 DEF Digits
  <2>2. CASE i % 2 # 1
    <3>1. i \div 2 \in 1..Len(s)
      <4>1. i % 2 = 0
        BY <2>2
      <4>2. QED
        BY <4>1
    <3>2. PICK b \in Nat : b = s[i \div 2]
      BY <3>1, Sizes DEF Octets
    <3>3. b % Digit \in 0..(Digit - 1)
      BY Sizes
    <3>4. QED
      BY <2>2, <3>2, <3>3 DEF Digits
  <2>3. QED
    BY <2>1, <2>2
<1>2. n \in Nat /\ BytesToHex(s) = [i \in 1..n |-> c(i)]
  BY DEF BytesToHex
<1> HIDE DEF n, c
<1>3. QED
  BY <1>1, <1>2

LEMMA WordsInt == Words \subseteq Int
<1>1. PICK p \in Nat : p = Pow(Small) /\ p > 0
  BY Sizes, PowNat
<1>2. Word \in Nat /\ Word > 0 /\ MaxWord \in Int
  BY Sizes, WordSize
<1>3. p \div Word \in Int
  BY <1>1, <1>2
<1>4. QED
  BY <1>1, <1>2, <1>3 DEF Words

LEMMA RepliesType ==
    ASSUME NEW n \in Nat, NEW text \in Replies(n)
    PROVE  text \in Seq(Digits)
<1>1. PICK w \in [1..n -> Words] :
         text = BytesToHex(FlattenSeq([i \in 1..n |-> Bytes(w[i], Word)]))
  BY DEF Replies
<1> DEFINE ss == [i \in 1..n |-> Bytes(w[i], Word)]
<1>2. \A i \in 1..n : Bytes(w[i], Word) \in Seq(Octets) /\ Len(Bytes(w[i], Word)) = Word
  BY WordsInt, BytesOfInt, Sizes DEF Octets
<1>3. ss \in Seq(Seq(Octets)) /\ \A i \in 1..Len(ss) : Len(ss[i]) = Word
  BY <1>2
<1> HIDE DEF ss
<1>4. FlattenSeq(ss) \in Seq(Octets)
  BY <1>3, FlatWords DEF Holds, Blocks
<1>5. QED
  BY <1>1, <1>4, HexDigits DEF ss

-----------------------------------------------------------------------------
(* The theorems about module MCFunctions.                                   *)

ReplyArg == fun = "reply" => arg \in Seq(Digits)

\* client.go, decodeAddressArray and the decoders of one word: whatever the reply, it gives
\* nothing if it is no hex, and members only that it holds, unless it claims sizes from 2^64.
THEOREM RepliesRight == Spec => []NothingInvented
<1>1. Init => ReplyArg
  BY DEF Init, ReplyArg
<1>2. ReplyArg /\ [Next]_vars => ReplyArg'
  <2> SUFFICES ASSUME ReplyArg, [Next]_vars PROVE ReplyArg'
    OBVIOUS
  <2>1. CASE AskReply
    <3>1. PICK n \in 0..4 : \E text \in Replies(n) :
             \/ Ask("reply", text)
             \/ text # <<>> /\ Ask("reply", Front(text))
             \/ text # <<>> /\ Ask("reply", Spoil(text, Len(text) - 1))
      BY <2>1 DEF AskReply
    <3>2. PICK text \in Seq(Digits) :
             \/ arg' = text
             \/ text # <<>> /\ arg' = Front(text)
             \/ text # <<>> /\ arg' = Spoil(text, Len(text) - 1)
      <4>1. n \in Nat
        OBVIOUS
      <4>2. QED
        BY <3>1, <4>1, RepliesType DEF Ask
    <3>3. text # <<>> => Front(text) \in Seq(Digits)
      <4>1. Front(text) = [i \in 1..(Len(text) - 1) |-> text[i]]
        BY DEF Front
      <4>2. QED
        BY <4>1 DEF Front
    <3>4. Spoil(text, Len(text) - 1) \in Seq(Digits)
      <4> DEFINE m == Len(text)
                 c(j) == IF j = m - 1 THEN NoDigit ELSE text[j]
      <4>1. m \in Nat /\ \A j \in 1..m : c(j) \in Digits
        BY DEF Digits
      <4>2. DOMAIN text = 1..m
        OBVIOUS
      <4>3. Spoil(text, m - 1) = [j \in 1..m |-> c(j)]
        BY <4>2 DEF Spoil
      <4> HIDE DEF m, c
      <4>4. Spoil(text, m - 1) \in Seq(Digits)
        BY <4>1, <4>3
      <4>5. QED
        BY <4>4 DEF m
    <3>5. QED
      BY <3>2, <3>3, <3>4 DEF ReplyArg
  <2>2. CASE ~AskReply
    BY <2>2 DEF ReplyArg, Next, vars, Ask, AskNumber, AskAddresses, AskKeys, AskName,
                AskConfig, AskDigest, AskSeries
  <2>3. QED
    BY <2>1, <2>2
<1>3. ReplyArg => NothingInvented
  <2> SUFFICES ASSUME arg \in Seq(Digits)
               PROVE  LET out == HexToBytes(arg)
                          res == DecodeAddressArray(out)
                          word(i) == Number(SubSeq(out, i + 1, i + Word)) % Pow(Small)
                          huge == \/ word(0) + Word >= Pow(Small)
                                  \/ word(word(0)) * Word >= Pow(Small)
                      IN /\ Len(arg) % 2 = 1 \/ NoDigit \in ToSet(arg) =>
                               /\ GetUint(out) = 0 /\ GetInt(out) = 0 /\ GetCount(out) = 0
                               /\ ~GetBool(out) /\ LatestUpdatedAt(out) = Refused
                         /\ IF res = Panic THEN huge
                            ELSE res # Refused /\ res # <<>> =>
                                    Len(res) = word(word(0)) /\ ToSet(res) \subseteq SlotsOf(out)
    BY DEF ReplyArg, NothingInvented
  <2>1. HexToBytes(arg) \in Seq(Nat)
    BY HexType
  <2>2. QED
    BY <2>1, NoText, MembersHeld DEF WordAt
<1>4. QED
  BY <1>1, <1>2, <1>3, PTL DEF Spec

NumberArg == fun = "number" => arg \in (-((MaxWord + 1) \div 2))..MaxWord

\* client.go, GetUint, GetInt, GetCount, GetBool and LatestUpdatedAt: whatever the sizes of
\* bytes and words, each number a contract returns is the number the task gets.
THEOREM NumbersRight == Spec => []NumbersSurvive
<1>1. Init => NumberArg
  BY DEF Init, NumberArg
<1>2. NumberArg /\ [Next]_vars => NumberArg'
  BY DEF NumberArg, Next, vars, Ask, AskNumber, AskAddresses, AskReply, AskKeys, AskName,
         AskConfig, AskDigest, AskSeries
<1>3. NumberArg => NumbersSurvive
  <2> SUFFICES ASSUME arg \in (-((MaxWord + 1) \div 2))..MaxWord
               PROVE  /\ 2 * arg <= MaxWord =>
                            GetInt(Word0((arg + MaxWord + 1) % (MaxWord + 1))) = arg
                      /\ arg >= 0 => GetUint(Word0(arg)) = arg /\ Number(PadUint(arg)) = arg
                      /\ arg \in 0..(Pow(Small) - 1) =>
                            /\ GetCount(Word0(arg)) = arg
                            /\ LatestUpdatedAt(PadUint(1) \o PadUint(2) \o PadUint(3)
                                                  \o Word0(arg) \o PadUint(5)) = <<arg>>
                      /\ arg \in {0, 1} => GetBool(Word0(arg)) = (arg = 1)
    BY DEF NumberArg, NumbersSurvive
  <2>1. arg >= 0 => GetUint(Word0(arg)) = arg /\ Number(PadUint(arg)) = arg
    <3>1. arg >= 0 => arg \in 0..MaxWord
      BY WordSize
    <3>2. QED
      BY <3>1, WordNumber DEF GetUint
  <2>2. arg \in 0..(Pow(Small) - 1) => GetCount(Word0(arg)) = arg
    BY CountNumber DEF GetCount
  <2>3. QED
    BY <2>1, <2>2, SignedNumber, FeedNumber, BoolNumber
<1>4. QED
  BY <1>1, <1>2, <1>3, PTL DEF Spec
LEMMA Bounded ==
    ASSUME NEW S, NEW n \in Nat, NEW s \in BoundedSeq(S, n)
    PROVE  s \in Seq(S) /\ Len(s) \in 0..n
  BY DEF BoundedSeq, SeqOf

AddressesArg == fun = "addresses" => arg \in BoundedSeq({0, 1, 6, 15}, 3)

\* client.go, GetAddressArray: the same of the behaviours of this module, if a reply of its
\* addresses has fewer than 2^64 bytes and an address has room for 15.
THEOREM ArraysRight ==
    ASSUME 15 < Pow(Addr), 5 * Word < Pow(Small)
    PROVE  Spec => []ArraysSurvive
<1>1. Init => AddressesArg
  BY DEF Init, AddressesArg
<1>2. AddressesArg /\ [Next]_vars => AddressesArg'
  BY DEF AddressesArg, Next, vars, Ask, AskNumber, AskAddresses, AskReply, AskKeys, AskName,
         AskConfig, AskDigest, AskSeries
<1>3. AddressesArg => ArraysSurvive
  <2> SUFFICES ASSUME NEW s \in BoundedSeq({0, 1, 6, 15}, 3)
               PROVE  DecodeAddressArray(Decoded(Encoded(s))) = s
    BY DEF AddressesArg, ArraysSurvive
  <2>1. /\ {0, 1, 6, 15} \subseteq 0..(Pow(Addr) - 1)
        /\ s \in Seq({0, 1, 6, 15}) /\ Len(s) \in 0..3
    <3>1. Addr \in Nat /\ Pow(Addr) \in Nat
      BY Sizes, PowNat
    <3>2. 3 \in Nat
      OBVIOUS
    <3>3. s \in Seq({0, 1, 6, 15}) /\ Len(s) \in 0..3
      BY <3>2, Bounded
    <3>4. QED
      BY <3>1, <3>3
  <2>2. s \in Seq(0..(Pow(Addr) - 1))
    <3>1. Len(s) \in Nat /\ s = [i \in 1..Len(s) |-> s[i]]
      BY <2>1
    <3>2. \A i \in 1..Len(s) : s[i] \in {0, 1, 6, 15}
      BY <2>1
    <3>3. \A i \in 1..Len(s) : s[i] \in 0..(Pow(Addr) - 1)
      BY <2>1, <3>2
    <3>4. ASSUME NEW B, NEW k \in Nat, k = Len(s), s = [i \in 1..k |-> s[i]],
                 \A i \in 1..k : s[i] \in B
          PROVE  s \in Seq(B)
      BY <3>4, SMTT(30)
    <3>5. QED
      BY <3>1, <3>3, <3>4
  <2> DEFINE n == Len(s)
  <2>3. (n + 2) * Word <= 5 * Word
    <3>1. PICK w \in Nat : w = Word
      BY Sizes
    <3>2. (0 + 2) * w <= 5 * w /\ (1 + 2) * w <= 5 * w /\ (2 + 2) * w <= 5 * w /\ (3 + 2) * w <= 5 * w
      OBVIOUS
    <3>3. n = 0 \/ n = 1 \/ n = 2 \/ n = 3
      BY <2>1
    <3>4. QED
      BY <3>1, <3>2, <3>3
  <2>4. (n + 2) * Word < Pow(Small)
    <3>1. n \in Nat /\ Word \in Nat /\ Small \in Nat
      BY <2>1, Sizes
    <3>2. PICK c \in Nat : c = Pow(Small)
      BY <3>1, PowNat
    <3>3. PICK a \in Nat, b \in Nat : a = (n + 2) * Word /\ b = 5 * Word
      BY <3>1
    <3>4. a <= b /\ b < c
      BY <2>3, <3>2, <3>3
    <3>5. QED
      BY <3>2, <3>3, <3>4
  <2>5. QED
    BY <2>2, <2>4, ArrayDecoded
<1>4. QED
  BY <1>1, <1>2, <1>3, PTL DEF Spec

NameArg == fun = "name" => arg \in BoundedSeq({1, 2}, 2 * Word + 1)

\* keys.go, abiEncodeString: the encoding of a name gives the name back, in whole words.
THEOREM NamesRight == Spec => []NamesEncoded
<1>1. Init => NameArg
  BY DEF Init, NameArg
<1>2. NameArg /\ [Next]_vars => NameArg'
  BY DEF NameArg, Next, vars, Ask, AskNumber, AskAddresses, AskReply, AskKeys, AskName,
         AskConfig, AskDigest, AskSeries
<1>3. NameArg => NamesEncoded
  <2>1. SUFFICES ASSUME fun = "name", arg \in BoundedSeq({1, 2}, 2 * Word + 1)
                 PROVE  arg \in Seq(Nat) /\ Len(arg) <= MaxWord
    BY NameEncoded DEF NameArg, NamesEncoded
  <2>2. arg \in Seq({1, 2}) /\ Len(arg) \in 0..(2 * Word + 1)
    <3>1. 2 * Word + 1 \in Nat
      BY Sizes
    <3>2. QED
      BY <2>1, <3>1, Bounded
  <2>3. arg \in Seq(Nat)
    <3>1. Len(arg) \in Nat /\ arg = [i \in 1..Len(arg) |-> arg[i]]
      BY <2>2
    <3>2. \A i \in 1..Len(arg) : arg[i] \in Nat
      BY <2>2
    <3>3. QED
      BY <3>1, <3>2
  <2>4. 2 * Word + 1 <= MaxWord
    <3>1. PICK w \in Nat : w = Word /\ 1 <= w
      BY Sizes
    <3>2. Pow(w) \in Nat /\ Pow(w) >= 3 * w + 1
      BY PowNat
    <3>3. QED
      BY <3>1, <3>2, WordSize
  <2>5. QED
    BY <2>2, <2>3, <2>4, Sizes, WordSize
<1>4. QED
  BY <1>1, <1>2, <1>3, PTL DEF Spec

-----------------------------------------------------------------------------
(* The configuration.                                                       *)

ConfigFields == {"url", "requestTimeout", "callConcurrency", "port", "path", "quickInterval",
                 "dailyAtUTC", "level", "enabled", "slackWebhookEnv", "versions"}

\* A file whose webhook is to be found in HOOK.
ConfigFile(file) ==
    /\ DOMAIN file = ConfigFields
    /\ file.requestTimeout \in Int /\ file.quickInterval \in Int
    /\ file.callConcurrency \in Int /\ file.port \in Int
    /\ file.slackWebhookEnv = "HOOK"
    /\ \A i \in DOMAIN file.versions :
          DOMAIN file.versions[i] = {"name", "dataStore", "roleStore"}

\* At most one number is found in METRICS_PORT.
ConfigEnvironment(env) ==
    env.METRICS_PORT \in SUBSET Int /\ \A m, n \in env.METRICS_PORT : m = n

\* What the environment changes in the file.
LEMMA Overridden ==
    ASSUME NEW file, NEW env, ConfigFile(file), ConfigEnvironment(env)
    PROVE  LET c == ApplyEnvOverrides(env, file)
           IN /\ c.url = Override(env.RPC_URL, file.url)
              /\ c.port \in Int
              /\ \A n \in env.METRICS_PORT : c.port = n
              /\ env.METRICS_PORT = {} => c.port = file.port
              /\ \A k \in {"requestTimeout", "callConcurrency", "path", "quickInterval",
                           "dailyAtUTC", "slackWebhookEnv", "versions"} : c[k] = file[k]
              /\ DOMAIN c = DOMAIN file
<1> DEFINE c == ApplyEnvOverrides(env, file)
<1>1. DOMAIN c = DOMAIN file
  BY DEF ApplyEnvOverrides
<1>2. DOMAIN file = ConfigFields
  BY DEF ConfigFile
<1>3. c.url = Override(env.RPC_URL, file.url)
  BY <1>2 DEF ConfigFields, ApplyEnvOverrides
<1>4. c.port = IF env.METRICS_PORT = {} THEN file.port ELSE CHOOSE n \in env.METRICS_PORT : TRUE
  BY <1>2 DEF ConfigFields, ApplyEnvOverrides
<1>5. \A n \in env.METRICS_PORT : c.port = n
  BY <1>4 DEF ConfigEnvironment
<1>6. c.port \in Int
  BY <1>4, <1>5 DEF ConfigFile, ConfigEnvironment
<1>7. \A k \in {"requestTimeout", "callConcurrency", "path", "quickInterval",
                "dailyAtUTC", "slackWebhookEnv", "versions"} : c[k] = file[k]
  BY <1>2 DEF ConfigFields, ApplyEnvOverrides
<1>8. QED
  BY <1>1, <1>3, <1>4, <1>5, <1>6, <1>7

\* What is set where nothing was.
LEMMA Defaulted ==
    ASSUME NEW c, DOMAIN c = ConfigFields
    PROVE  LET d == Defaults(c)
           IN /\ d.requestTimeout = (IF c.requestTimeout = 0 THEN 30 ELSE c.requestTimeout)
              /\ d.callConcurrency = (IF c.callConcurrency <= 0 THEN 8 ELSE c.callConcurrency)
              /\ d.port = (IF c.port = 0 THEN 8080 ELSE c.port)
              /\ d.path = Override(c.path, "/metrics")
              /\ d.quickInterval = (IF c.quickInterval = 0 THEN 3600 ELSE c.quickInterval)
              /\ d.url = c.url /\ d.slackWebhookEnv = c.slackWebhookEnv
  BY DEF Defaults, ConfigFields

LEMMA DefaultTime ==
    ASSUME NEW c, DOMAIN c = ConfigFields
    PROVE  Defaults(c).dailyAtUTC = Override(c.dailyAtUTC, "00:00")
  BY DEF Defaults, ConfigFields

LEMMA WebhookSame ==
    ASSUME NEW c, NEW env, c.slackWebhookEnv = "HOOK"
    PROVE  SlackWebhookURL(c, env) = env.HOOK
  BY DEF SlackWebhookURL

\* config.go, Load: what ConfigRuns says, for any file and any environment.
LEMMA Loaded ==
    ASSUME NEW file, NEW env, ConfigFile(file), ConfigEnvironment(env)
    PROVE  LoadsWell(file, env)
<1> DEFINE o == ApplyEnvOverrides(env, file)
           d == Defaults(o)
           loaded == Load(file, env)
<1>1. /\ o.url = Override(env.RPC_URL, file.url)
      /\ o.port \in Int
      /\ \A n \in env.METRICS_PORT : o.port = n
      /\ env.METRICS_PORT = {} => o.port = file.port
      /\ o.requestTimeout = file.requestTimeout /\ o.callConcurrency = file.callConcurrency
      /\ o.path = file.path /\ o.quickInterval = file.quickInterval
      /\ o.dailyAtUTC = file.dailyAtUTC /\ o.slackWebhookEnv = file.slackWebhookEnv
      /\ o.versions = file.versions /\ DOMAIN o = DOMAIN file
  BY Overridden
<1>2. DOMAIN o = ConfigFields
  BY <1>1 DEF ConfigFile
<1> HIDE DEF o
<1>3. /\ d.requestTimeout = (IF o.requestTimeout = 0 THEN 30 ELSE o.requestTimeout)
      /\ d.callConcurrency = (IF o.callConcurrency <= 0 THEN 8 ELSE o.callConcurrency)
      /\ d.port = (IF o.port = 0 THEN 8080 ELSE o.port)
      /\ d.path = Override(o.path, "/metrics")
      /\ d.quickInterval = (IF o.quickInterval = 0 THEN 3600 ELSE o.quickInterval)
      /\ d.url = o.url /\ d.slackWebhookEnv = o.slackWebhookEnv
  BY <1>2, Defaulted
<1>t. d.dailyAtUTC = Override(o.dailyAtUTC, "00:00")
  BY <1>2, DefaultTime
<1> HIDE DEF d
<1>4. /\ file.requestTimeout \in Int /\ file.callConcurrency \in Int /\ file.quickInterval \in Int
      /\ file.slackWebhookEnv = "HOOK"
      /\ \A i \in DOMAIN file.versions :
            DOMAIN file.versions[i] = {"name", "dataStore", "roleStore"}
  BY DEF ConfigFile
<1>5. loaded = IF Valid(o) THEN [accepted |-> TRUE, cfg |-> d] ELSE Rejected
  BY DEF Load, o, d
<1>6. Valid(o) <=> Required(file, env)
  <2>1. o.url # "" <=> (file.url # "" \/ env.RPC_URL # "")
    <3>1. o.url = Override(env.RPC_URL, file.url)
      BY <1>1
    <3>2. QED
      BY <3>1 DEF Override
  <2>2. ASSUME NEW i \in DOMAIN file.versions
        PROVE  VersionComplete(file.versions[i])
               <=> "" \notin {file.versions[i][k] : k \in DOMAIN file.versions[i]}
    BY <1>4 DEF VersionComplete
  <2>3. QED
    BY <1>1, <2>1, <2>2 DEF Valid, Required
<1> HIDE DEF loaded
<1>7. loaded.accepted <=> Valid(o)
  BY <1>5 DEF Rejected
<1>8. loaded.accepted => loaded.cfg = d
  BY <1>5, <1>7
<1> DEFINE r == file.requestTimeout
           q == file.quickInterval
           k == file.callConcurrency
           n == o.port
<1>9. r \in Int /\ q \in Int /\ k \in Int /\ n \in Int
  BY <1>1, <1>4
<1>10. /\ d.requestTimeout = (IF r = 0 THEN 30 ELSE r) /\ d.quickInterval = (IF q = 0 THEN 3600 ELSE q)
       /\ d.callConcurrency = (IF k <= 0 THEN 8 ELSE k) /\ d.port = (IF n = 0 THEN 8080 ELSE n)
  <2>1. o.requestTimeout = r /\ o.quickInterval = q /\ o.callConcurrency = k
    BY <1>1
  <2>2. /\ d.requestTimeout = (IF o.requestTimeout = 0 THEN 30 ELSE o.requestTimeout)
        /\ d.quickInterval = (IF o.quickInterval = 0 THEN 3600 ELSE o.quickInterval)
        /\ d.callConcurrency = (IF o.callConcurrency <= 0 THEN 8 ELSE o.callConcurrency)
        /\ d.port = (IF o.port = 0 THEN 8080 ELSE o.port)
    BY <1>3
  <2> HIDE DEF r, q, k
  <2>3. QED
    BY <2>1, <2>2
<1>11. TakesPort(file, env, d)
  <2>1. (\A m \in env.METRICS_PORT : n = m) /\ (env.METRICS_PORT = {} => n = file.port)
    BY <1>1
  <2>2. d.port = (IF n = 0 THEN 8080 ELSE n)
    BY <1>10
  <2>3. QED
    BY <2>1, <2>2 DEF TakesPort
<1>12. TakesURLs(file, env, d)
  <2>1. SlackWebhookURL(d, env) = env.HOOK
    <3>1. d.slackWebhookEnv = "HOOK"
      BY <1>1, <1>3, <1>4
    <3>2. QED
      BY <3>1, WebhookSame
  <2>2. d.url = Override(env.RPC_URL, file.url)
    BY <1>1, <1>3
  <2>3. QED
    BY <2>1, <2>2 DEF TakesURLs, Override
<1>13. d.path # ""
  <2>1. d.path = Override(file.path, "/metrics")
    BY <1>1, <1>3
  <2>2. QED
    BY <2>1 DEF Override
<1>14. d.dailyAtUTC # ""
  <2>1. o.dailyAtUTC = file.dailyAtUTC
    BY <1>1
  <2>2. d.dailyAtUTC = Override(file.dailyAtUTC, "00:00")
    BY <1>t, <2>1
  <2>3. QED
    BY <2>2 DEF Override
<1>15. Usable(file, d)
  <2>1. /\ d.requestTimeout > 0 \/ (d.requestTimeout < 0 /\ d.requestTimeout = r)
        /\ d.quickInterval > 0 \/ (d.quickInterval < 0 /\ d.quickInterval = q)
        /\ d.callConcurrency > 0 /\ d.port # 0
    <3> HIDE DEF r, q, k, n
    <3>1. QED
      BY <1>9, <1>10
  <2>2. QED
    BY <1>13, <1>14, <2>1 DEF Usable
<1>16. QED
  BY <1>6, <1>7, <1>8, <1>11, <1>12, <1>15 DEF loaded, LoadsWell

LEMMA FilesLoad ==
    ASSUME NEW f \in Files
    PROVE  ConfigFile(f)
<1>1. DOMAIN f = ConfigFields
  BY DEF Files, ConfigFields
<1>2. /\ f.requestTimeout \in {-1, 0, 5} /\ f.quickInterval \in {-1, 0, 60}
      /\ f.callConcurrency \in {-1, 0, 3} /\ f.port \in {0, 9090}
      /\ f.slackWebhookEnv = "HOOK" /\ f.versions \in {<<>>} \cup {<<v>> : v \in VersionEntries}
  BY DEF Files
<1>3. \A v \in VersionEntries : DOMAIN v = {"name", "dataStore", "roleStore"}
  BY DEF VersionEntries
<1>4. ASSUME NEW i \in DOMAIN f.versions
      PROVE  DOMAIN f.versions[i] = {"name", "dataStore", "roleStore"}
  BY <1>2, <1>3
<1>5. QED
  BY <1>1, <1>2, <1>4 DEF ConfigFile

LEMMA EnvironmentsLoad ==
    ASSUME NEW e \in Environments
    PROVE  ConfigEnvironment(e)
<1>1. e.METRICS_PORT \in Ports
  BY DEF Environments
<1>2. QED
  BY <1>1 DEF ConfigEnvironment, Ports

ConfigArg == fun = "config" => \E f \in Files, e \in Environments : arg = <<f, e>>

\* config.go, Load: a loaded configuration has everything the program needs of it, but that a
\* negative time stays one, and takes the port and the URLs where they are to come from.
THEOREM ConfigRight == Spec => []ConfigRuns
<1>1. Init => ConfigArg
  BY DEF Init, ConfigArg
<1>2. ConfigArg /\ [Next]_vars => ConfigArg'
  BY DEF ConfigArg, Next, vars, Ask, AskNumber, AskAddresses, AskReply, AskKeys, AskName,
         AskConfig, AskDigest, AskSeries
<1>3. ConfigArg => ConfigRuns
  <2>1. SUFFICES ASSUME NEW f \in Files, NEW e \in Environments, arg = <<f, e>>
                 PROVE  LoadsWell(arg[1], arg[2])
    BY DEF ConfigArg, ConfigRuns
  <2>2. arg[1] = f /\ arg[2] = e
    BY <2>1
  <2>3. LoadsWell(f, e)
    BY FilesLoad, EnvironmentsLoad, Loaded
  <2>4. QED
    BY <2>2, <2>3
<1>4. QED
  BY <1>1, <1>2, <1>3, PTL DEF Spec

-----------------------------------------------------------------------------
(* Keys.                                                                    *)

\* A name as keys.go has them: bytes, not more than a word can count.
Nameable(s) == s \in Seq(Nat) /\ Len(s) <= MaxWord

LEMMA Cancel ==
    ASSUME NEW a \in Nat, NEW b \in Nat, NEW w \in Nat \ {0}, a * w = b * w
    PROVE  a = b
<1>1. ASSUME NEW x \in Nat, NEW y \in Nat, x < y PROVE x * w < y * w
  <2>1. PICK d \in Nat : y = x + d + 1
    <3>1. y - x - 1 \in Nat /\ y = x + (y - x - 1) + 1
      BY <1>1
    <3>2. QED
      BY <3>1
  <2>2. (x + d + 1) * w = x * w + d * w + w /\ d * w \in Nat /\ x * w \in Nat
    OBVIOUS
  <2>3. QED
    BY <2>1, <2>2
<1>2. a * w \in Nat /\ b * w \in Nat
  OBVIOUS
<1>3. CASE a < b
  <2>1. a * w < b * w
    BY <1>1, <1>3
  <2>2. QED
    BY <1>2, <2>1
<1>4. CASE b < a
  <2>1. b * w < a * w
    BY <1>1, <1>4
  <2>2. QED
    BY <1>2, <2>1
<1>5. QED
  BY <1>3, <1>4

LEMMA HashSame ==
    ASSUME NEW x, NEW y, Hash(x) = Hash(y)
    PROVE  x = y
<1>1. <<"keccak", x>>[2] = <<"keccak", y>>[2]
  BY DEF Hash
<1>2. QED
  BY <1>1

\* Different names have different encodings, even if one begins like the other.
LEMMA RootsApart ==
    ASSUME NEW c, NEW d, Nameable(Name[c]), Nameable(Name[d]), RootHash(c) = RootHash(d)
    PROVE  Name[c] = Name[d]
<1> DEFINE x == AbiEncodeString(Name[c])
           y == AbiEncodeString(Name[d])
           back(out) == LET offset == Number(SubSeq(out, 1, Word))
                            length == Number(SubSeq(out, offset + 1, offset + Word))
                        IN SubSeq(out, offset + Word + 1, offset + Word + length)
<1>1. x = y
  BY HashSame DEF RootHash
<1>2. back(x) = Name[c]
  BY NameEncoded DEF Nameable
<1>3. back(y) = Name[d]
  BY NameEncoded DEF Nameable
<1> HIDE DEF x, y, back
<1>4. QED
  BY <1>1, <1>2, <1>3

LEMMA RootLength ==
    ASSUME NEW s, Nameable(s)
    PROVE  Len(AbiEncodeString(s)) % Word = 0
  BY NameEncoded DEF Nameable

WordsOf(ps) == ps \in Seq(Seq(Octets)) /\ \A i \in 1..Len(ps) : Len(ps[i]) = Word

\* What is hashed: the root, and then the parts.
Hashed(x, ps) ==
    LET f == FlattenSeq(ps)
        h == <<x>> \o f
        n == Len(ps)
    IN /\ Holds(f, ps, n) /\ n \in Nat /\ Len(h) = 1 + n * Word /\ h[1] = x
       /\ \A i \in 1..(n * Word) : h[1 + i] = f[i]

LEMMA Preimage ==
    ASSUME NEW x, NEW ps, WordsOf(ps)
    PROVE  Hashed(x, ps)
<1> DEFINE f == FlattenSeq(ps)
           n == Len(ps)
           p == n * Word
<1>1. Holds(f, ps, n) /\ n \in Nat
  BY FlatWords DEF WordsOf
<1>2. f \in Seq(Octets) /\ Len(f) = p /\ p \in Nat
  BY <1>1, Sizes DEF Holds, Blocks
<1> HIDE DEF f, p
<1>3. <<x>> \in Seq(Octets \cup {x}) /\ Len(<<x>>) = 1 /\ <<x>>[1] = x
  OBVIOUS
<1>4. f \in Seq(Octets \cup {x})
  BY <1>2
<1>5. Len(<<x>> \o f) = 1 + p /\ (<<x>> \o f)[1] = x /\ \A i \in 1..p : (<<x>> \o f)[1 + i] = f[i]
  BY <1>2, <1>3, <1>4
<1>6. QED
  BY <1>1, <1>5 DEF f, p, Hashed

\* A key with parts is no root.
LEMMA PartsNoRoot ==
    ASSUME Word > 1, NEW c, Nameable(Name[c]), NEW x, NEW ps, WordsOf(ps)
    PROVE  KeccakOf(x, ps) # RootHash(c)
<1> SUFFICES ASSUME KeccakOf(x, ps) = RootHash(c) PROVE FALSE
  OBVIOUS
<1>1. <<x>> \o FlattenSeq(ps) = AbiEncodeString(Name[c])
  BY HashSame DEF KeccakOf, RootHash
<1>2. Len(AbiEncodeString(Name[c])) % Word = 0
  BY RootLength
<1>3. PICK n \in Nat : Len(<<x>> \o FlattenSeq(ps)) = 1 + n * Word
  BY Preimage DEF Hashed
<1>4. (1 + n * Word) % Word = 1
  <2>1. PICK w \in Nat \ {0}, l \in Nat : w = Word /\ l = 1 + n * Word /\ l = w * n + 1 /\ 1 < w
    BY Sizes
  <2>2. l % w = 1
    BY <2>1, DivisionIs
  <2>3. QED
    BY <2>1, <2>2
<1>5. QED
  BY <1>1, <1>2, <1>3, <1>4

\* Keys are the same only if their roots and their parts are.
LEMMA PartsSame ==
    ASSUME NEW x, NEW y, NEW ps, NEW qs, WordsOf(ps), WordsOf(qs),
           KeccakOf(x, ps) = KeccakOf(y, qs)
    PROVE  x = y /\ ps = qs
<1> DEFINE f == FlattenSeq(ps)
           g == FlattenSeq(qs)
           m == Len(ps)
           n == Len(qs)
<1>1. <<x>> \o f = <<y>> \o g
  BY HashSame DEF KeccakOf
<1>2. /\ Holds(f, ps, m) /\ m \in Nat /\ Len(<<x>> \o f) = 1 + m * Word /\ (<<x>> \o f)[1] = x
      /\ \A i \in 1..(m * Word) : (<<x>> \o f)[1 + i] = f[i]
  <2>1. Hashed(x, ps)
    BY Preimage
  <2>2. QED
    BY <2>1 DEF Hashed
<1>3. /\ Holds(g, qs, n) /\ n \in Nat /\ Len(<<y>> \o g) = 1 + n * Word /\ (<<y>> \o g)[1] = y
      /\ \A i \in 1..(n * Word) : (<<y>> \o g)[1 + i] = g[i]
  <2>1. Hashed(y, qs)
    BY Preimage
  <2>2. QED
    BY <2>1 DEF Hashed
<1>4. ps \in Seq(Seq(Octets)) /\ qs \in Seq(Seq(Octets))
      /\ (\A i \in 1..m : Len(ps[i]) = Word) /\ (\A i \in 1..n : Len(qs[i]) = Word)
  BY DEF WordsOf
<1> HIDE DEF f, g
<1>5. x = y
  BY <1>1, <1>2, <1>3
<1>6. m = n
  <2>1. Word \in Nat \ {0} /\ m * Word \in Nat /\ n * Word \in Nat
    BY <1>2, <1>3, Sizes
  <2> DEFINE p == m * Word
             q == n * Word
  <2>2. 1 + p = 1 + q
    BY <1>1, <1>2, <1>3
  <2>3. p = q
    <3>1. p \in Nat /\ q \in Nat
      BY <2>1
    <3> HIDE DEF p, q
    <3>2. QED
      BY <2>2, <3>1
  <2>4. QED
    BY <1>2, <1>3, <2>1, <2>3, Cancel
<1>7. f = g
  <2>1. f \in Seq(Octets) /\ g \in Seq(Octets) /\ Len(f) = m * Word /\ Len(g) = m * Word
    BY <1>2, <1>3, <1>6 DEF Holds, Blocks
  <2>2. \A i \in 1..(m * Word) : f[i] = g[i]
    BY <1>1, <1>2, <1>3, <1>5, <1>6
  <2> DEFINE p == m * Word
  <2>3. p \in Nat
    BY <1>2, Sizes
  <2> HIDE DEF p
  <2>4. f = [i \in 1..p |-> f[i]] /\ g = [i \in 1..p |-> g[i]]
    BY <2>1, <2>3 DEF p
  <2>5. QED
    BY <2>2, <2>4 DEF p
<1>8. ASSUME NEW i \in 1..m PROVE ps[i] = qs[i]
  <2>1. \A j \in 1..Word : ps[i][j] = f[(i - 1) * Word + j] /\ qs[i][j] = g[(i - 1) * Word + j]
    BY <1>2, <1>3, <1>6 DEF Holds, Blocks
  <2>2. \A j \in 1..Word : ps[i][j] = qs[i][j]
    BY <1>7, <2>1
  <2>3. /\ ps[i] \in Seq(Octets) /\ qs[i] \in Seq(Octets)
        /\ Len(ps[i]) = Word /\ Len(qs[i]) = Word /\ Word \in Nat
    BY <1>4, <1>6, Sizes
  <2>4. ps[i] = [j \in 1..Word |-> ps[i][j]] /\ qs[i] = [j \in 1..Word |-> qs[i][j]]
    BY <2>3
  <2>5. QED
    BY <2>2, <2>4
<1>9. ps = qs
  <2>1. ps = [i \in 1..m |-> ps[i]] /\ qs = [i \in 1..m |-> qs[i]]
    BY <1>4, <1>6
  <2>2. QED
    BY <1>8, <2>1
<1>10. QED
  BY <1>5, <1>9

LEMMA PaddedWord ==
    ASSUME NEW a \in 0..MaxWord
    PROVE  /\ AddressPadded(a) \in Seq(Octets) /\ Len(AddressPadded(a)) = Word
           /\ Number(AddressPadded(a)) = a
<1>1. a \in Nat /\ a < Pow(Word) /\ Word \in Nat
  BY WordSize, Sizes
<1>2. QED
  BY <1>1, BytesType, NumberBytes DEF AddressPadded, Octets

LEMMA PaddedSide ==
    ASSUME NEW b \in BOOLEAN
    PROVE  /\ BoolPadded(b) \in Seq(Octets) /\ Len(BoolPadded(b)) = Word
           /\ Number(BoolPadded(b)) = (IF b THEN 1 ELSE 0)
<1>1. PICK n \in 0..MaxWord : n = IF b THEN 1 ELSE 0
  BY WordSize
<1>2. QED
  BY <1>1, PaddedWord DEF AddressPadded, BoolPadded

\* The constant and the parts of the key of a lookup.
ConstantOf(r) ==
    CASE r[1] = "minCollateral"  -> "MIN_COLLATERAL_FACTOR"
      [] r[1] = "maxOI"          -> "MAX_OPEN_INTEREST"
      [] r[1] = "pool"           -> "POOL_AMOUNT"
      [] r[1] = "maxPool"        -> "MAX_POOL_AMOUNT"
      [] r[1] = "oi"             -> "OPEN_INTEREST"
      [] r[1] = "borrowing"      -> "BORROWING_FACTOR"
      [] r[1] = "liquidationFee" -> "LIQUIDATION_FEE_FACTOR"
      [] r[1] = "claimable"      -> "CLAIMABLE_FEE_AMOUNT"
      [] r[1] = "funding"        -> "FUNDING_FEE_AMOUNT_PER_SIZE"
      [] r[1] = "feature"        -> r[2]
Constants == {"MIN_COLLATERAL_FACTOR", "MAX_OPEN_INTEREST", "POOL_AMOUNT", "MAX_POOL_AMOUNT",
              "OPEN_INTEREST", "BORROWING_FACTOR", "LIQUIDATION_FEE_FACTOR",
              "CLAIMABLE_FEE_AMOUNT", "FUNDING_FEE_AMOUNT_PER_SIZE"}

OfMarket(A) == {<<k, m>> : k \in {"minCollateral", "liquidationFee"}, m \in A}
OfSide(A) == {<<k, m, side>> : k \in {"maxOI", "borrowing"}, m \in A, side \in BOOLEAN}
OfToken(A) == {<<k, m, t>> : k \in {"pool", "maxPool", "claimable"}, m \in A, t \in A}
OfTokenSide(A) ==
    {<<k, m, t, side>> : k \in {"oi", "funding"}, m \in A, t \in A, side \in BOOLEAN}
OfFeature(C) == {<<"feature", c>> : c \in C}
OfHandler(C, A) == {<<"feature", c, h>> : c \in C, h \in A}

\* The lookups under a root, and whose root it is.
Roots == ListNames \cup {"MAX_ORACLE_PRICE_AGE"}
OfRoot(C) == OfFeature(C) \cup {<<"list", c>> : c \in ListNames} \cup {<<"maxPriceAge">>}
RootOf(t) == IF t[1] = "maxPriceAge" THEN "MAX_ORACLE_PRICE_AGE" ELSE t[2]

PartsOf(r) ==
    CASE r[1] \in {"minCollateral", "liquidationFee"} -> <<AddressPadded(r[2])>>
      [] r[1] \in {"maxOI", "borrowing"} -> <<AddressPadded(r[2]), BoolPadded(r[3])>>
      [] r[1] \in {"pool", "maxPool", "claimable"} -> <<AddressPadded(r[2]), AddressPadded(r[3])>>
      [] r[1] \in {"oi", "funding"} ->
            <<AddressPadded(r[2]), AddressPadded(r[3]), BoolPadded(r[4])>>
      [] r[1] = "feature" -> <<AddressPadded(r[3])>>

\* The lookups of the tasks with addresses of A and features of C, but of a root.
Keyed(A, C) == OfMarket(A) \cup OfSide(A) \cup OfToken(A) \cup OfTokenSide(A) \cup OfHandler(C, A)

LEMMA OnePart ==
    ASSUME NEW a \in 0..MaxWord
    PROVE  WordsOf(<<AddressPadded(a)>>)
<1>1. AddressPadded(a) \in Seq(Octets) /\ Len(AddressPadded(a)) = Word
  BY PaddedWord
<1>2. QED
  BY <1>1 DEF WordsOf

LEMMA TwoParts ==
    ASSUME NEW v, NEW w, v \in Seq(Octets), w \in Seq(Octets), Len(v) = Word, Len(w) = Word
    PROVE  WordsOf(<<v, w>>)
  BY DEF WordsOf

LEMMA ThreeParts ==
    ASSUME NEW u, NEW v, NEW w, u \in Seq(Octets), v \in Seq(Octets), w \in Seq(Octets),
           Len(u) = Word, Len(v) = Word, Len(w) = Word
    PROVE  WordsOf(<<u, v, w>>)
  BY DEF WordsOf

LEMMA KeyIs ==
    ASSUME NEW A \in SUBSET (0..MaxWord), NEW C, NEW r \in Keyed(A, C)
    PROVE  /\ KeyOf(r) = KeccakOf(RootHash(ConstantOf(r)), PartsOf(r)) /\ WordsOf(PartsOf(r))
<1>1. CASE r \in OfMarket(A)
  <2>1. PICK k \in {"minCollateral", "liquidationFee"}, a \in A : r = <<k, a>>
    BY <1>1 DEF OfMarket
  <2>2. r[1] = k /\ r[2] = a
    BY <2>1
  <2>3. PartsOf(r) = <<AddressPadded(a)>>
    BY <2>2 DEF PartsOf
  <2>4. KeyOf(r) = KeccakOf(RootHash(ConstantOf(r)), <<AddressPadded(a)>>)
    BY <2>2 DEF KeyOf, ConstantOf, MinCollateralFactorKey, LiquidationFeeFactorKey
  <2>5. QED
    BY <2>3, <2>4, OnePart
<1>2. CASE r \in OfSide(A)
  <2>1. PICK k \in {"maxOI", "borrowing"}, a \in A, b \in BOOLEAN : r = <<k, a, b>>
    BY <1>2 DEF OfSide
  <2>2. r[1] = k /\ r[2] = a /\ r[3] = b
    BY <2>1
  <2>3. PartsOf(r) = <<AddressPadded(a), BoolPadded(b)>>
    BY <2>2 DEF PartsOf
  <2>4. KeyOf(r) = KeccakOf(RootHash(ConstantOf(r)), <<AddressPadded(a), BoolPadded(b)>>)
    BY <2>2 DEF KeyOf, ConstantOf, MaxOpenInterestKey, BorrowingFactorKey
  <2>5. QED
    BY <2>3, <2>4, TwoParts, PaddedWord, PaddedSide
<1>3. CASE r \in OfToken(A)
  <2>1. PICK k \in {"pool", "maxPool", "claimable"}, a \in A, t \in A : r = <<k, a, t>>
    BY <1>3 DEF OfToken
  <2>2. r[1] = k /\ r[2] = a /\ r[3] = t
    BY <2>1
  <2>3. PartsOf(r) = <<AddressPadded(a), AddressPadded(t)>>
    BY <2>2 DEF PartsOf
  <2>4. KeyOf(r) = KeccakOf(RootHash(ConstantOf(r)), <<AddressPadded(a), AddressPadded(t)>>)
    BY <2>2 DEF KeyOf, ConstantOf, PoolAmountKey, MaxPoolAmountKey, ClaimableFeeAmountKey
  <2>5. QED
    BY <2>3, <2>4, TwoParts, PaddedWord
<1>4. CASE r \in OfTokenSide(A)
  <2>1. PICK k \in {"oi", "funding"}, a \in A, t \in A, b \in BOOLEAN : r = <<k, a, t, b>>
    BY <1>4 DEF OfTokenSide
  <2>2. r[1] = k /\ r[2] = a /\ r[3] = t /\ r[4] = b
    BY <2>1
  <2>3. PartsOf(r) = <<AddressPadded(a), AddressPadded(t), BoolPadded(b)>>
    BY <2>2 DEF PartsOf
  <2>4. KeyOf(r) = KeccakOf(RootHash(ConstantOf(r)),
                            <<AddressPadded(a), AddressPadded(t), BoolPadded(b)>>)
    BY <2>2 DEF KeyOf, ConstantOf, OpenInterestKey, FundingFeeAmountPerSizeKey
  <2>5. QED
    BY <2>3, <2>4, ThreeParts, PaddedWord, PaddedSide
<1>5. CASE r \in OfHandler(C, A)
  <2>1. PICK c \in C, a \in A : r = <<"feature", c, a>>
    BY <1>5 DEF OfHandler
  <2>2. r[1] = "feature" /\ r[2] = c /\ r[3] = a /\ Len(r) = 3
    BY <2>1
  <2>3. PartsOf(r) = <<AddressPadded(a)>>
    BY <2>2 DEF PartsOf
  <2>4. KeyOf(r) = FeatureKeyForHandler(c, a)
    BY <2>2 DEF KeyOf
  <2>5. KeyOf(r) = KeccakOf(RootHash(ConstantOf(r)), <<AddressPadded(a)>>)
    BY <2>2, <2>4 DEF ConstantOf, FeatureKeyForHandler
  <2>6. QED
    BY <2>3, <2>5, OnePart
<1>6. QED
  BY <1>1, <1>2, <1>3, <1>4, <1>5 DEF Keyed

LEMMA Components ==
    ASSUME NEW t, NEW u, NEW v, NEW x, NEW y, NEW z
    PROVE  /\ <<t>> = <<x>> => t = x
           /\ <<t, u>> = <<x, y>> => t = x /\ u = y
           /\ <<t, u, v>> = <<x, y, z>> => t = x /\ u = y /\ v = z
<1>1. ASSUME <<t>> = <<x>> PROVE t = x
  <2>1. <<t>>[1] = <<x>>[1]
    BY <1>1
  <2>2. QED
    BY <2>1
<1>2. ASSUME <<t, u>> = <<x, y>> PROVE t = x /\ u = y
  <2>1. <<t, u>>[1] = <<x, y>>[1] /\ <<t, u>>[2] = <<x, y>>[2]
    BY <1>2
  <2>2. QED
    BY <2>1
<1>3. ASSUME <<t, u, v>> = <<x, y, z>> PROVE t = x /\ u = y /\ v = z
  <2>1. /\ <<t, u, v>>[1] = <<x, y, z>>[1] /\ <<t, u, v>>[2] = <<x, y, z>>[2]
        /\ <<t, u, v>>[3] = <<x, y, z>>[3]
    BY <1>3
  <2>2. QED
    BY <2>1
<1>4. QED
  BY <1>1, <1>2, <1>3

LEMMA SameAddress ==
    ASSUME NEW a \in 0..MaxWord, NEW b \in 0..MaxWord, AddressPadded(a) = AddressPadded(b)
    PROVE  a = b
<1>1. Number(AddressPadded(a)) = a /\ Number(AddressPadded(b)) = b
  BY PaddedWord
<1>2. QED
  BY <1>1

LEMMA SameSide ==
    ASSUME NEW a \in BOOLEAN, NEW b \in BOOLEAN, BoolPadded(a) = BoolPadded(b)
    PROVE  a = b
<1>1. Number(BoolPadded(a)) = (IF a THEN 1 ELSE 0) /\ Number(BoolPadded(b)) = (IF b THEN 1 ELSE 0)
  BY PaddedSide
<1>2. QED
  BY <1>1

\* What is looked up tells the shape of the lookup.
MarketKinds == {"minCollateral", "liquidationFee"}
SideKinds == {"maxOI", "borrowing"}
TokenKinds == {"pool", "maxPool", "claimable"}
TokenSideKinds == {"oi", "funding"}

LEMMA Kinds ==
    ASSUME NEW A, NEW C
    PROVE  /\ \A t \in OfMarket(A) : t[1] \in MarketKinds
           /\ \A t \in OfSide(A) : t[1] \in SideKinds
           /\ \A t \in OfToken(A) : t[1] \in TokenKinds
           /\ \A t \in OfTokenSide(A) : t[1] \in TokenSideKinds
           /\ \A t \in OfHandler(C, A) : t[1] = "feature" /\ t[2] \in C
<1>1. \A t \in OfMarket(A) : t[1] \in MarketKinds
  BY DEF OfMarket, MarketKinds
<1>2. \A t \in OfSide(A) : t[1] \in SideKinds
  BY DEF OfSide, SideKinds
<1>3. \A t \in OfToken(A) : t[1] \in TokenKinds
  BY DEF OfToken, TokenKinds
<1>4. \A t \in OfTokenSide(A) : t[1] \in TokenSideKinds
  BY DEF OfTokenSide, TokenSideKinds
<1>5. \A t \in OfHandler(C, A) : t[1] = "feature" /\ t[2] \in C
  BY DEF OfHandler
<1>6. QED
  BY <1>1, <1>2, <1>3, <1>4, <1>5

LEMMA KindOf ==
    ASSUME NEW A, NEW C, C \cap Constants = {}, NEW r \in Keyed(A, C), NEW s \in Keyed(A, C),
           ConstantOf(r) = ConstantOf(s)
    PROVE  r[1] = s[1]
<1> DEFINE K == MarketKinds \cup SideKinds \cup TokenKinds \cup TokenSideKinds
<1>1. ASSUME NEW t \in Keyed(A, C)
      PROVE  t[1] \in K \/ (t[1] = "feature" /\ t[2] \in C)
  <2>1. /\ t \in OfMarket(A) => t[1] \in MarketKinds
        /\ t \in OfSide(A) => t[1] \in SideKinds
        /\ t \in OfToken(A) => t[1] \in TokenKinds
        /\ t \in OfTokenSide(A) => t[1] \in TokenSideKinds
        /\ t \in OfHandler(C, A) => t[1] = "feature" /\ t[2] \in C
    BY Kinds
  <2>2. QED
    BY <2>1 DEF Keyed
<1>2. \A t : t[1] = "feature" => ConstantOf(t) = t[2]
  BY DEF ConstantOf
<1>3. \A t : t[1] \in K => ConstantOf(t) \in Constants
  BY DEF ConstantOf, Constants, MarketKinds, SideKinds, TokenKinds, TokenSideKinds
<1>4. ASSUME NEW t, NEW u, t[1] \in K, u[1] \in K, ConstantOf(t) = ConstantOf(u)
      PROVE  t[1] = u[1]
  BY <1>4 DEF ConstantOf, MarketKinds, SideKinds, TokenKinds, TokenSideKinds
<1>5. QED
  BY <1>1, <1>2, <1>3, <1>4

\* Lookups of one kind with one constant differ in a part of their keys.
LEMMA SameLookup ==
    ASSUME NEW A \in SUBSET (0..MaxWord), NEW C, NEW r \in Keyed(A, C), NEW s \in Keyed(A, C),
           r[1] = s[1], ConstantOf(r) = ConstantOf(s), PartsOf(r) = PartsOf(s)
    PROVE  r = s
<1>1. /\ r \in OfMarket(A) => s \in OfMarket(A)
      /\ r \in OfSide(A) => s \in OfSide(A)
      /\ r \in OfToken(A) => s \in OfToken(A)
      /\ r \in OfTokenSide(A) => s \in OfTokenSide(A)
      /\ r \in OfHandler(C, A) => s \in OfHandler(C, A)
  BY Kinds DEF Keyed, MarketKinds, SideKinds, TokenKinds, TokenSideKinds
<1>2. CASE r \in OfMarket(A)
  <2>1. PICK k \in MarketKinds, a \in A : r = <<k, a>>
    BY <1>2 DEF OfMarket, MarketKinds
  <2>2. PICK l \in MarketKinds, b \in A : s = <<l, b>>
    BY <1>1, <1>2 DEF OfMarket, MarketKinds
  <2>3. r[1] = k /\ r[2] = a /\ s[1] = l /\ s[2] = b
    BY <2>1, <2>2
  <2>4. PartsOf(r) = <<AddressPadded(a)>>
    BY <2>3 DEF PartsOf, MarketKinds
  <2>5. PartsOf(s) = <<AddressPadded(b)>>
    BY <2>3 DEF PartsOf, MarketKinds
  <2>6. AddressPadded(a) = AddressPadded(b)
    BY <2>4, <2>5, Components
  <2>7. QED
    BY <2>1, <2>2, <2>3, <2>6, SameAddress
<1>3. CASE r \in OfSide(A)
  <2>1. PICK k \in SideKinds, a \in A, c \in BOOLEAN : r = <<k, a, c>>
    BY <1>3 DEF OfSide, SideKinds
  <2>2. PICK l \in SideKinds, b \in A, d \in BOOLEAN : s = <<l, b, d>>
    BY <1>1, <1>3 DEF OfSide, SideKinds
  <2>3. r[1] = k /\ r[2] = a /\ r[3] = c /\ s[1] = l /\ s[2] = b /\ s[3] = d
    BY <2>1, <2>2
  <2>4. PartsOf(r) = <<AddressPadded(a), BoolPadded(c)>>
    BY <2>3 DEF PartsOf, SideKinds
  <2>5. PartsOf(s) = <<AddressPadded(b), BoolPadded(d)>>
    BY <2>3 DEF PartsOf, SideKinds
  <2>6. AddressPadded(a) = AddressPadded(b) /\ BoolPadded(c) = BoolPadded(d)
    <3>1. <<AddressPadded(a), BoolPadded(c)>>
          = <<AddressPadded(b), BoolPadded(d)>>
      BY <2>4, <2>5
    <3>2. QED
      BY <3>1, Components, Zenon
  <2>7. a = b /\ c = d
    BY <2>6, SameAddress, SameSide
  <2>8. QED
    BY <2>1, <2>2, <2>3, <2>7
<1>4. CASE r \in OfToken(A)
  <2>1. PICK k \in TokenKinds, a \in A, c \in A : r = <<k, a, c>>
    BY <1>4 DEF OfToken, TokenKinds
  <2>2. PICK l \in TokenKinds, b \in A, d \in A : s = <<l, b, d>>
    BY <1>1, <1>4 DEF OfToken, TokenKinds
  <2>3. r[1] = k /\ r[2] = a /\ r[3] = c /\ s[1] = l /\ s[2] = b /\ s[3] = d
    BY <2>1, <2>2
  <2>4. PartsOf(r) = <<AddressPadded(a), AddressPadded(c)>>
    BY <2>3 DEF PartsOf, TokenKinds
  <2>5. PartsOf(s) = <<AddressPadded(b), AddressPadded(d)>>
    BY <2>3 DEF PartsOf, TokenKinds
  <2>6. AddressPadded(a) = AddressPadded(b) /\ AddressPadded(c) = AddressPadded(d)
    <3>1. <<AddressPadded(a), AddressPadded(c)>>
          = <<AddressPadded(b), AddressPadded(d)>>
      BY <2>4, <2>5
    <3>2. QED
      BY <3>1, Components, Zenon
  <2>7. a = b /\ c = d
    BY <2>6, SameAddress
  <2>8. QED
    BY <2>1, <2>2, <2>3, <2>7
<1>5. CASE r \in OfTokenSide(A)
  <2>1. PICK k \in TokenSideKinds, a \in A, c \in A, e \in BOOLEAN : r = <<k, a, c, e>>
    BY <1>5 DEF OfTokenSide, TokenSideKinds
  <2>2. PICK l \in TokenSideKinds, b \in A, d \in A, f \in BOOLEAN : s = <<l, b, d, f>>
    BY <1>1, <1>5 DEF OfTokenSide, TokenSideKinds
  <2>3. /\ r[1] = k /\ r[2] = a /\ r[3] = c /\ r[4] = e
        /\ s[1] = l /\ s[2] = b /\ s[3] = d /\ s[4] = f
    BY <2>1, <2>2
  <2>4. PartsOf(r) = <<AddressPadded(a), AddressPadded(c), BoolPadded(e)>>
    BY <2>3 DEF PartsOf, TokenSideKinds
  <2>5. PartsOf(s) = <<AddressPadded(b), AddressPadded(d), BoolPadded(f)>>
    BY <2>3 DEF PartsOf, TokenSideKinds
  <2>6. /\ AddressPadded(a) = AddressPadded(b) /\ AddressPadded(c) = AddressPadded(d)
        /\ BoolPadded(e) = BoolPadded(f)
    <3>1. <<AddressPadded(a), AddressPadded(c), BoolPadded(e)>>
          = <<AddressPadded(b), AddressPadded(d), BoolPadded(f)>>
      BY <2>4, <2>5
    <3>2. QED
      BY <3>1, Components, Zenon
  <2>7. a = b /\ c = d /\ e = f
    BY <2>6, SameAddress, SameSide
  <2>8. QED
    BY <2>1, <2>2, <2>3, <2>7
<1>6. CASE r \in OfHandler(C, A)
  <2>1. PICK c \in C, a \in A : r = <<"feature", c, a>>
    BY <1>6 DEF OfHandler
  <2>2. PICK d \in C, b \in A : s = <<"feature", d, b>>
    BY <1>1, <1>6 DEF OfHandler
  <2>3. r[1] = "feature" /\ r[2] = c /\ r[3] = a /\ s[1] = "feature" /\ s[2] = d /\ s[3] = b
    BY <2>1, <2>2
  <2>4. PartsOf(r) = <<AddressPadded(a)>>
    BY <2>3 DEF PartsOf
  <2>5. PartsOf(s) = <<AddressPadded(b)>>
    BY <2>3 DEF PartsOf
  <2>6. AddressPadded(a) = AddressPadded(b)
    BY <2>4, <2>5, Components
  <2>7. c = d
    BY <2>3 DEF ConstantOf
  <2>8. QED
    BY <2>1, <2>2, <2>6, <2>7, SameAddress
<1>7. QED
  BY <1>2, <1>3, <1>4, <1>5, <1>6 DEF Keyed

\* The constants have names, each another.
Named(S) ==
    /\ \A c \in S : Nameable(Name[c])
    /\ \A c, d \in S : Name[c] = Name[d] => c = d

\* A lookup under a root is that of a feature, of a list or of the price age.
LEMMA RootCases ==
    ASSUME NEW C, NEW t \in OfRoot(C)
    PROVE  /\ KeyOf(t) = RootHash(RootOf(t))
           /\ \/ RootOf(t) \in C /\ t = <<"feature", RootOf(t)>>
              \/ RootOf(t) \in ListNames /\ t = <<"list", RootOf(t)>>
              \/ RootOf(t) = "MAX_ORACLE_PRICE_AGE" /\ t = <<"maxPriceAge">>
<1>1. ASSUME NEW c \in C, t = <<"feature", c>>
      PROVE  RootOf(t) = c /\ KeyOf(t) = RootHash(c)
  <2>1. t[1] = "feature" /\ t[2] = c /\ Len(t) = 2
    BY <1>1
  <2>2. QED
    BY <2>1 DEF KeyOf, RootOf, FeatureKeyRoot
<1>2. ASSUME NEW c \in ListNames, t = <<"list", c>>
      PROVE  RootOf(t) = c /\ KeyOf(t) = RootHash(c)
  <2>1. t[1] = "list" /\ t[2] = c
    BY <1>2
  <2>2. QED
    BY <2>1 DEF KeyOf, RootOf
<1>3. ASSUME t = <<"maxPriceAge">>
      PROVE  RootOf(t) = "MAX_ORACLE_PRICE_AGE" /\ KeyOf(t) = RootHash("MAX_ORACLE_PRICE_AGE")
  <2>1. t[1] = "maxPriceAge"
    BY <1>3
  <2>2. QED
    BY <2>1 DEF KeyOf, RootOf
<1>4. \/ \E c \in C : t = <<"feature", c>>
      \/ \E c \in ListNames : t = <<"list", c>>
      \/ t = <<"maxPriceAge">>
  BY DEF OfRoot, OfFeature
<1>5. QED
  BY <1>1, <1>2, <1>3, <1>4

\* Whose root is looked up says what for, no feature having the name of a list.
LEMMA RootSame ==
    ASSUME NEW C, C \cap Roots = {}, NEW t \in OfRoot(C), NEW u \in OfRoot(C),
           RootOf(t) = RootOf(u)
    PROVE  t = u
<1>1. "MAX_ORACLE_PRICE_AGE" \notin C \cup ListNames /\ C \cap ListNames = {}
  BY DEF Roots, ListNames
<1>2. PICK c : c = RootOf(t) /\ c = RootOf(u)
  OBVIOUS
<1>3. \/ c \in C /\ t = <<"feature", c>>
      \/ c \in ListNames /\ t = <<"list", c>>
      \/ c = "MAX_ORACLE_PRICE_AGE" /\ t = <<"maxPriceAge">>
  BY <1>2, RootCases
<1>4. \/ c \in C /\ u = <<"feature", c>>
      \/ c \in ListNames /\ u = <<"list", c>>
      \/ c = "MAX_ORACLE_PRICE_AGE" /\ u = <<"maxPriceAge">>
  BY <1>2, RootCases
<1>5. /\ c \in C => c \notin ListNames /\ c # "MAX_ORACLE_PRICE_AGE"
      /\ c \in ListNames => c # "MAX_ORACLE_PRICE_AGE"
  BY <1>1
<1>6. CASE c \in C
  BY <1>3, <1>4, <1>5, <1>6, Zenon
<1>7. CASE c \in ListNames
  BY <1>3, <1>4, <1>5, <1>7, Zenon
<1>8. CASE c = "MAX_ORACLE_PRICE_AGE"
  BY <1>3, <1>4, <1>5, <1>8, Zenon
<1>9. QED
  BY <1>3, <1>6, <1>7, <1>8

\* keys.go: what KeysDistinct says, for any addresses and any features.
THEOREM KeysApart ==
    ASSUME Word > 1, NEW A \in SUBSET (0..MaxWord), NEW C, C \cap (Constants \cup Roots) = {},
           Named(C \cup Constants \cup Roots),
           NEW r \in Keyed(A, C) \cup OfRoot(C), NEW s \in Keyed(A, C) \cup OfRoot(C),
           KeyOf(r) = KeyOf(s)
    PROVE  r = s
<1>1. ASSUME NEW t \in OfRoot(C)
      PROVE  RootOf(t) \in C \cup Roots /\ KeyOf(t) = RootHash(RootOf(t))
  BY RootCases DEF Roots
<1>2. ASSUME NEW t \in Keyed(A, C)
      PROVE  ConstantOf(t) \in C \cup Constants
  <2>1. CASE t[1] = "feature"
    <3>1. t[2] \in C
      BY <2>1, Kinds DEF Keyed, MarketKinds, SideKinds, TokenKinds, TokenSideKinds
    <3>2. QED
      BY <2>1, <3>1 DEF ConstantOf
  <2>2. CASE t[1] # "feature"
    <3>1. t[1] \in MarketKinds \cup SideKinds \cup TokenKinds \cup TokenSideKinds
      BY <2>2, Kinds DEF Keyed
    <3>2. QED
      BY <3>1 DEF ConstantOf, Constants, MarketKinds, SideKinds, TokenKinds, TokenSideKinds
  <2>3. QED
    BY <2>1, <2>2
<1>3. ASSUME NEW c \in C \cup Constants \cup Roots, NEW d \in C \cup Constants \cup Roots,
             RootHash(c) = RootHash(d)
      PROVE  c = d
  <2>1. Name[c] = Name[d]
    BY <1>3, RootsApart DEF Named
  <2>2. QED
    BY <2>1 DEF Named
<1>4. CASE r \in OfRoot(C) /\ s \in OfRoot(C)
  <2>1. RootHash(RootOf(r)) = RootHash(RootOf(s))
    BY <1>1, <1>4
  <2>2. RootOf(r) = RootOf(s)
    BY <1>1, <1>3, <1>4, <2>1
  <2>3. QED
    BY <1>4, <2>2, RootSame
<1>5. ASSUME NEW t \in OfRoot(C), NEW u \in Keyed(A, C) PROVE KeyOf(t) # KeyOf(u)
  <2>1. KeyOf(t) = RootHash(RootOf(t)) /\ Nameable(Name[RootOf(t)])
    BY <1>1 DEF Named
  <2>2. KeyOf(u) = KeccakOf(RootHash(ConstantOf(u)), PartsOf(u)) /\ WordsOf(PartsOf(u))
    BY KeyIs
  <2>3. QED
    BY <2>1, <2>2, PartsNoRoot
<1>6. CASE r \in Keyed(A, C) /\ s \in Keyed(A, C)
  <2>1. /\ KeyOf(r) = KeccakOf(RootHash(ConstantOf(r)), PartsOf(r)) /\ WordsOf(PartsOf(r))
        /\ KeyOf(s) = KeccakOf(RootHash(ConstantOf(s)), PartsOf(s)) /\ WordsOf(PartsOf(s))
    BY <1>6, KeyIs
  <2>2. RootHash(ConstantOf(r)) = RootHash(ConstantOf(s)) /\ PartsOf(r) = PartsOf(s)
    <3> DEFINE x == RootHash(ConstantOf(r))
               y == RootHash(ConstantOf(s))
               ps == PartsOf(r)
               qs == PartsOf(s)
    <3>1. WordsOf(ps) /\ WordsOf(qs) /\ KeccakOf(x, ps) = KeccakOf(y, qs)
      BY <2>1
    <3> HIDE DEF x, y, ps, qs
    <3>2. x = y /\ ps = qs
      BY <3>1, PartsSame
    <3>3. QED
      BY <3>2 DEF x, y, ps, qs
  <2>3. ConstantOf(r) = ConstantOf(s)
    BY <1>2, <1>3, <1>6, <2>2
  <2>4. r[1] = s[1]
    BY <1>6, <2>3, KindOf
  <2>5. QED
    BY <1>6, <2>2, <2>3, <2>4, SameLookup
<1>7. QED
  BY <1>4, <1>5, <1>6

KeysArg == fun = "keys" => \E a, b \in Lookups : arg = <<a, b>>

\* keys.go: the same of the behaviours of this module, if a word has more than one byte and
\* the constants have names, each another.
THEOREM KeysRight ==
    ASSUME Word > 1, Named(TwoFeatures \cup Constants \cup Roots)
    PROVE  Spec => []KeysDistinct
<1> DEFINE C == TwoFeatures
           A == {1, 6, 7}
<1>1. Init => KeysArg
  BY DEF Init, KeysArg
<1>2. KeysArg /\ [Next]_vars => KeysArg'
  BY DEF KeysArg, Next, vars, Ask, AskNumber, AskAddresses, AskReply, AskKeys, AskName,
         AskConfig, AskDigest, AskSeries
<1>3. KeysArg => KeysDistinct
  <2>1. SUFFICES ASSUME NEW a \in Lookups, NEW b \in Lookups, KeyOf(a) = KeyOf(b)
                 PROVE  a = b
    BY DEF KeysArg, KeysDistinct
  <2>2. A \in SUBSET (0..MaxWord)
    <3>1. Pow(2) \in Nat /\ Pow(2) >= 16
      <4>1. Pow(1) = Byte * 1
        BY PowZero, PowNext
      <4>2. Pow(2) = Byte * Pow(1)
        BY PowNext
      <4>3. PICK c \in Nat : Byte = c + 4
        <5>1. Byte - 4 \in Nat /\ Byte = (Byte - 4) + 4
          BY Sizes
        <5>2. QED
          BY <5>1
      <4>4. (c + 4) * (c + 4) = c * c + 8 * c + 16 /\ c * c \in Nat
        OBVIOUS
      <4>5. QED
        BY <4>1, <4>2, <4>3, <4>4
    <3>2. Pow(2) <= Pow(Word) /\ Pow(Word) \in Nat
      BY Sizes, PowMono, PowNat
    <3>3. QED
      BY <3>1, <3>2, WordSize
  <2>3. Lookups \subseteq Keyed(A, C) \cup OfRoot(C)
    BY DEF Lookups, Keyed, OfMarket, OfSide, OfToken, OfTokenSide, OfFeature, OfHandler, OfRoot
  <2>4. C \cap (Constants \cup Roots) = {}
    BY DEF Constants, Roots, ListNames, TwoFeatures
  <2>5. Named(C \cup Constants \cup Roots)
    OBVIOUS
  <2> HIDE DEF A, C
  <2>6. a \in Keyed(A, C) \cup OfRoot(C) /\ b \in Keyed(A, C) \cup OfRoot(C)
    BY <2>3
  <2>7. QED
    BY <2>1, <2>2, <2>4, <2>5, <2>6, KeysApart
<1>4. QED
  BY <1>1, <1>2, <1>3, PTL DEF Spec

-----------------------------------------------------------------------------
(* The series of the metrics: which task of which version sets a gauge.     *)

\* The task that sets the gauges of a vector.
SetterOf ==
    [native         |-> "vault_balances",
     usdt           |-> "vault_balances",
     count          |-> "roles",
     delay          |-> "timelock",
     minCollateral  |-> "market_params",
     borrowing      |-> "market_params",
     liquidationFee |-> "market_params",
     claimable      |-> "fees",
     total          |-> "fees",
     gap            |-> "fees",
     funding        |-> "funding",
     ratio          |-> "funding",
     keeper         |-> "keeper_gas",
     fdUsdt         |-> "keeper_gas",
     feature        |-> "features",
     queue          |-> "queue",
     oi             |-> "market_oi",
     maxOI          |-> "market_oi",
     pool           |-> "market_oi",
     maxPool        |-> "market_oi",
     maxPriceAge    |-> "oracle_config",
     feedAge        |-> "chainlink"]

Shared == {"keeper", "feedAge"}

\* g has a value for each label of its vector, and says which task t of which version v
\* sets it.
Owns(v, t, g) ==
    /\ Len(g) = 1 + Len(Labels[g[1]]) /\ SetterOf[g[1]] = t
    /\ IF g[1] \in Shared THEN v = "v1" ELSE g[2] = v

StepOwned(v, t, s) == \A i \in DOMAIN s.pub : s.pub[i] = T!CutMark \/ Owns(v, t, s.pub[i])
ItemOwned(v, t, item) == \A i \in DOMAIN item : StepOwned(v, t, item[i])

LEMMA GaugeOwned ==
    ASSUME NEW v, NEW t, NEW k, SetterOf[k] = t, k \notin Shared
    PROVE  /\ Len(Labels[k]) = 1 => Owns(v, t, <<k, v>>)
           /\ Len(Labels[k]) = 2 => \A n : Owns(v, t, <<k, v, n>>)
           /\ Len(Labels[k]) = 3 => \A n, x : Owns(v, t, <<k, v, n, x>>)
<1>1. ASSUME NEW g, g[1] = k, g[2] = v, Len(g) = 1 + Len(Labels[k])
      PROVE  Owns(v, t, g)
  BY <1>1, Zenon DEF Owns
<1>2. ASSUME Len(Labels[k]) = 1 PROVE Owns(v, t, <<k, v>>)
  <2>1. <<k, v>>[1] = k /\ <<k, v>>[2] = v /\ Len(<<k, v>>) = 1 + Len(Labels[k])
    BY <1>2
  <2>2. QED
    BY <1>1, <2>1, Zenon
<1>3. ASSUME Len(Labels[k]) = 2, NEW n PROVE Owns(v, t, <<k, v, n>>)
  <2>1. <<k, v, n>>[1] = k /\ <<k, v, n>>[2] = v /\ Len(<<k, v, n>>) = 1 + Len(Labels[k])
    BY <1>3
  <2>2. QED
    BY <1>1, <2>1, Zenon
<1>4. ASSUME Len(Labels[k]) = 3, NEW n, NEW x PROVE Owns(v, t, <<k, v, n, x>>)
  <2>1. /\ <<k, v, n, x>>[1] = k /\ <<k, v, n, x>>[2] = v
        /\ Len(<<k, v, n, x>>) = 1 + Len(Labels[k])
    BY <1>4
  <2>2. QED
    BY <1>1, <2>1, Zenon
<1>5. QED
  BY <1>2, <1>3, <1>4

LEMMA SharedOwned ==
    ASSUME NEW t, NEW k \in Shared, SetterOf[k] = t, Len(Labels[k]) = 1
    PROVE  \A n : Owns("v1", t, <<k, n>>)
<1> SUFFICES ASSUME NEW n PROVE Owns("v1", t, <<k, n>>)
  OBVIOUS
<1>1. <<k, n>>[1] = k /\ Len(<<k, n>>) = 1 + Len(Labels[k])
  OBVIOUS
<1>2. QED
  BY <1>1, Zenon DEF Owns

LEMMA GaugesOwned ==
    ASSUME NEW v
    PROVE  /\ \A n : /\ Owns(v, "vault_balances", <<"native", v, n>>)
                     /\ Owns(v, "vault_balances", <<"usdt", v, n>>)
                     /\ Owns(v, "roles", <<"count", v, n>>)
                     /\ Owns(v, "timelock", <<"delay", v, n>>)
                     /\ Owns(v, "market_params", <<"minCollateral", v, n>>)
                     /\ Owns(v, "market_params", <<"liquidationFee", v, n>>)
                     /\ Owns(v, "fees", <<"claimable", v, n>>)
                     /\ Owns(v, "funding", <<"ratio", v, n>>)
                     /\ Owns(v, "queue", <<"queue", v, n>>)
                     /\ Owns(v, "market_oi", <<"pool", v, n>>)
                     /\ Owns(v, "market_oi", <<"maxPool", v, n>>)
           /\ \A n, x : /\ Owns(v, "market_params", <<"borrowing", v, n, x>>)
                        /\ Owns(v, "funding", <<"funding", v, n, x>>)
                        /\ Owns(v, "features", <<"feature", v, n, x>>)
                        /\ Owns(v, "market_oi", <<"oi", v, n, x>>)
                        /\ Owns(v, "market_oi", <<"maxOI", v, n, x>>)
           /\ Owns(v, "fees", <<"total", v>>) /\ Owns(v, "fees", <<"gap", v>>)
           /\ Owns(v, "keeper_gas", <<"fdUsdt", v>>)
           /\ Owns(v, "oracle_config", <<"maxPriceAge", v>>)
           /\ \A n : /\ v = "v1" => Owns(v, "keeper_gas", <<"keeper", n>>)
                     /\ v = "v1" => Owns(v, "chainlink", <<"feedAge", n>>)
<1>1. \A n : Owns(v, "vault_balances", <<"native", v, n>>)
  <2>1. SetterOf["native"] = "vault_balances" /\ Len(Labels["native"]) = 2
    BY DEF SetterOf, Labels
  <2>2. QED
    BY <2>1, GaugeOwned DEF Shared
<1>2. \A n : Owns(v, "vault_balances", <<"usdt", v, n>>)
  <2>1. SetterOf["usdt"] = "vault_balances" /\ Len(Labels["usdt"]) = 2
    BY DEF SetterOf, Labels
  <2>2. QED
    BY <2>1, GaugeOwned DEF Shared
<1>3. \A n : Owns(v, "roles", <<"count", v, n>>)
  <2>1. SetterOf["count"] = "roles" /\ Len(Labels["count"]) = 2
    BY DEF SetterOf, Labels
  <2>2. QED
    BY <2>1, GaugeOwned DEF Shared
<1>4. \A n : Owns(v, "timelock", <<"delay", v, n>>)
  <2>1. SetterOf["delay"] = "timelock" /\ Len(Labels["delay"]) = 2
    BY DEF SetterOf, Labels
  <2>2. QED
    BY <2>1, GaugeOwned DEF Shared
<1>5. \A n : Owns(v, "market_params", <<"minCollateral", v, n>>)
  <2>1. SetterOf["minCollateral"] = "market_params" /\ Len(Labels["minCollateral"]) = 2
    BY DEF SetterOf, Labels
  <2>2. QED
    BY <2>1, GaugeOwned DEF Shared
<1>6. \A n, x : Owns(v, "market_params", <<"borrowing", v, n, x>>)
  <2>1. SetterOf["borrowing"] = "market_params" /\ Len(Labels["borrowing"]) = 3
    BY DEF SetterOf, Labels
  <2>2. QED
    BY <2>1, GaugeOwned DEF Shared
<1>7. \A n : Owns(v, "market_params", <<"liquidationFee", v, n>>)
  <2>1. SetterOf["liquidationFee"] = "market_params" /\ Len(Labels["liquidationFee"]) = 2
    BY DEF SetterOf, Labels
  <2>2. QED
    BY <2>1, GaugeOwned DEF Shared
<1>8. \A n : Owns(v, "fees", <<"claimable", v, n>>)
  <2>1. SetterOf["claimable"] = "fees" /\ Len(Labels["claimable"]) = 2
    BY DEF SetterOf, Labels
  <2>2. QED
    BY <2>1, GaugeOwned DEF Shared
<1>9. Owns(v, "fees", <<"total", v>>)
  <2>1. SetterOf["total"] = "fees" /\ Len(Labels["total"]) = 1
    BY DEF SetterOf, Labels
  <2>2. QED
    BY <2>1, GaugeOwned DEF Shared
<1>10. Owns(v, "fees", <<"gap", v>>)
  <2>1. SetterOf["gap"] = "fees" /\ Len(Labels["gap"]) = 1
    BY DEF SetterOf, Labels
  <2>2. QED
    BY <2>1, GaugeOwned DEF Shared
<1>11. \A n, x : Owns(v, "funding", <<"funding", v, n, x>>)
  <2>1. SetterOf["funding"] = "funding" /\ Len(Labels["funding"]) = 3
    BY DEF SetterOf, Labels
  <2>2. QED
    BY <2>1, GaugeOwned DEF Shared
<1>12. \A n : Owns(v, "funding", <<"ratio", v, n>>)
  <2>1. SetterOf["ratio"] = "funding" /\ Len(Labels["ratio"]) = 2
    BY DEF SetterOf, Labels
  <2>2. QED
    BY <2>1, GaugeOwned DEF Shared
<1>13. Owns(v, "keeper_gas", <<"fdUsdt", v>>)
  <2>1. SetterOf["fdUsdt"] = "keeper_gas" /\ Len(Labels["fdUsdt"]) = 1
    BY DEF SetterOf, Labels
  <2>2. QED
    BY <2>1, GaugeOwned DEF Shared
<1>14. \A n, x : Owns(v, "features", <<"feature", v, n, x>>)
  <2>1. SetterOf["feature"] = "features" /\ Len(Labels["feature"]) = 3
    BY DEF SetterOf, Labels
  <2>2. QED
    BY <2>1, GaugeOwned DEF Shared
<1>15. \A n : Owns(v, "queue", <<"queue", v, n>>)
  <2>1. SetterOf["queue"] = "queue" /\ Len(Labels["queue"]) = 2
    BY DEF SetterOf, Labels
  <2>2. QED
    BY <2>1, GaugeOwned DEF Shared
<1>16. \A n, x : Owns(v, "market_oi", <<"oi", v, n, x>>)
  <2>1. SetterOf["oi"] = "market_oi" /\ Len(Labels["oi"]) = 3
    BY DEF SetterOf, Labels
  <2>2. QED
    BY <2>1, GaugeOwned DEF Shared
<1>17. \A n, x : Owns(v, "market_oi", <<"maxOI", v, n, x>>)
  <2>1. SetterOf["maxOI"] = "market_oi" /\ Len(Labels["maxOI"]) = 3
    BY DEF SetterOf, Labels
  <2>2. QED
    BY <2>1, GaugeOwned DEF Shared
<1>18. \A n : Owns(v, "market_oi", <<"pool", v, n>>)
  <2>1. SetterOf["pool"] = "market_oi" /\ Len(Labels["pool"]) = 2
    BY DEF SetterOf, Labels
  <2>2. QED
    BY <2>1, GaugeOwned DEF Shared
<1>19. \A n : Owns(v, "market_oi", <<"maxPool", v, n>>)
  <2>1. SetterOf["maxPool"] = "market_oi" /\ Len(Labels["maxPool"]) = 2
    BY DEF SetterOf, Labels
  <2>2. QED
    BY <2>1, GaugeOwned DEF Shared
<1>20. Owns(v, "oracle_config", <<"maxPriceAge", v>>)
  <2>1. SetterOf["maxPriceAge"] = "oracle_config" /\ Len(Labels["maxPriceAge"]) = 1
    BY DEF SetterOf, Labels
  <2>2. QED
    BY <2>1, GaugeOwned DEF Shared
<1>21. v = "v1" => \A n : Owns(v, "keeper_gas", <<"keeper", n>>)
  <2>1. SetterOf["keeper"] = "keeper_gas" /\ Len(Labels["keeper"]) = 1
    BY DEF SetterOf, Labels
  <2>2. QED
    BY <2>1, SharedOwned DEF Shared
<1>22. v = "v1" => \A n : Owns(v, "chainlink", <<"feedAge", n>>)
  <2>1. SetterOf["feedAge"] = "chainlink" /\ Len(Labels["feedAge"]) = 1
    BY DEF SetterOf, Labels
  <2>2. QED
    BY <2>1, SharedOwned DEF Shared
<1>23. QED
  BY <1>1, <1>2, <1>3, <1>4, <1>5, <1>6, <1>7, <1>8, <1>9, <1>10, <1>11,
     <1>12, <1>13, <1>14, <1>15, <1>16, <1>17, <1>18, <1>19, <1>20, <1>21, <1>22

LEMMA ShowOwned ==
    ASSUME NEW v, NEW t, NEW r, NEW e, Owns(v, t, r)
    PROVE  StepOwned(v, t, T!Show(r, e))
<1>1. T!Show(r, e).pub = <<r>>
  BY DEF T!Show, T!Step
<1>2. QED
  BY <1>1 DEF StepOwned

LEMMA ItemsOwned ==
    ASSUME NEW v, NEW t
    PROVE  /\ \A a : StepOwned(v, t, a) => ItemOwned(v, t, <<a>>)
           /\ \A a, b : StepOwned(v, t, a) /\ StepOwned(v, t, b) => ItemOwned(v, t, <<a, b>>)
  BY DEF ItemOwned

LEMMA FourOwned ==
    ASSUME NEW v, NEW t, NEW a, NEW b, NEW c, NEW d,
           StepOwned(v, t, a), StepOwned(v, t, b), StepOwned(v, t, c), StepOwned(v, t, d)
    PROVE  ItemOwned(v, t, <<a, b, c, d>>)
  BY DEF ItemOwned

LEMMA SixOwned ==
    ASSUME NEW v, NEW t, NEW a, NEW b, NEW c, NEW d, NEW e, NEW f,
           StepOwned(v, t, a), StepOwned(v, t, b), StepOwned(v, t, c),
           StepOwned(v, t, d), StepOwned(v, t, e), StepOwned(v, t, f)
    PROVE  ItemOwned(v, t, <<a, b, c, d, e, f>>)
<1> DEFINE item == <<a, b, c, d, e, f>>
<1>1. /\ DOMAIN item = 1..6 /\ item[1] = a /\ item[2] = b /\ item[3] = c /\ item[4] = d
      /\ item[5] = e /\ item[6] = f
  OBVIOUS
<1> HIDE DEF item
<1>2. \A i \in 1..6 : StepOwned(v, t, item[i])
  BY <1>1
<1>3. ItemOwned(v, t, item)
  BY <1>1, <1>2 DEF ItemOwned
<1>4. QED
  BY <1>3 DEF item

LEMMA SingleOwned ==
    ASSUME NEW v, NEW t, NEW r, Owns(v, t, r)
    PROVE  ItemOwned(v, t, T!Single(r))
<1>1. StepOwned(v, t, T!Show(r, "next"))
  BY ShowOwned
<1>2. T!Single(r) = <<T!Show(r, "next")>>
  BY DEF T!Single
<1>3. QED
  BY <1>1, <1>2, ItemsOwned

LEMMA OnlyLoop ==
    ASSUME NEW A, NEW q, q = <<A>>, NEW k \in DOMAIN q
    PROVE  q[k] = A
  OBVIOUS

LEMMA FlattenSame == \A ss : T!FlattenSeq(ss) = FlattenSeq(ss)
  BY DEF T!FlattenSeq, FlattenSeq

\* One case per task, as its Run is written.
LEMMA PlanOwned ==
    ASSUME NEW v, NEW t \in TaskNames,
           NEW l \in DOMAIN T!PlanOf(v, t).loops, NEW item \in T!PlanOf(v, t).loops[l]
    PROVE  ItemOwned(v, t, item)
<1> DEFINE p == T!PlanOf(v, t)
<1>0. l \in DOMAIN p.loops /\ item \in p.loops[l]
  OBVIOUS
<1> HIDE DEF p
<1>1. CASE t = "vault_balances"
  <2> DEFINE A == {<<T!Show(<<"native", v, n>>, "item"), T!Show(<<"usdt", v, n>>, "item")>>
                     : n \in Vaults[v]}
  <2>1. p.loops = <<A>>
    BY <1>1 DEF p, T!PlanOf, T!VaultBalances, T!Plan
  <2>2. item \in A
    <3> HIDE DEF A
    <3>1. QED
      BY <1>0, <2>1, OnlyLoop
  <2>3. PICK n : item = <<T!Show(<<"native", v, n>>, "item"), T!Show(<<"usdt", v, n>>, "item")>>
    BY <2>2
  <2>4. /\ StepOwned(v, t, T!Show(<<"native", v, n>>, "item"))
        /\ StepOwned(v, t, T!Show(<<"usdt", v, n>>, "item"))
    <3>1. /\ Owns(v, t, <<"native", v, n>>)
          /\ Owns(v, t, <<"usdt", v, n>>)
      BY <1>1, GaugesOwned
    <3>2. QED
      BY <3>1, ShowOwned
  <2>5. QED
    BY <2>3, <2>4, ItemsOwned
<1>2. CASE t = "roles"
  <2>1. p.loops = [i \in DOMAIN RoleNames |->
                      {<<T!Step(<<"count", v, RoleNames[i]>>,
                                <<<<"count", v, RoleNames[i]>>, T!CutMark>>, "item"),
                         T!Step(<<"members", v, RoleNames[i]>>, <<>>, "item")>>}]
    BY <1>2 DEF p, T!PlanOf, T!Roles, T!Plan
  <2>2. l \in DOMAIN RoleNames
    BY <1>0, <2>1
  <2> DEFINE n == RoleNames[l]
             a == T!Step(<<"count", v, n>>, <<<<"count", v, n>>, T!CutMark>>, "item")
             b == T!Step(<<"members", v, n>>, <<>>, "item")
  <2>3. item = <<a, b>>
    BY <1>0, <2>1, <2>2
  <2>4. a.pub = <<<<"count", v, n>>, T!CutMark>> /\ b.pub = <<>>
    BY DEF T!Step
  <2>5. Owns(v, t, <<"count", v, n>>)
    BY <1>2, GaugesOwned
  <2> HIDE DEF a, b, n
  <2>6. StepOwned(v, t, a) /\ StepOwned(v, t, b)
    BY <2>4, <2>5 DEF StepOwned
  <2>7. QED
    BY <2>3, <2>6, ItemsOwned
<1>3. CASE t = "timelock"
  <2> DEFINE A == {T!Single(<<"delay", v, n>>) : n \in Timelocks[v]}
  <2>1. p.loops = <<A>>
    BY <1>3 DEF p, T!PlanOf, T!Timelock, T!Plan
  <2>2. item \in A
    <3> HIDE DEF A
    <3>1. QED
      BY <1>0, <2>1, OnlyLoop
  <2>3. PICK n : item = T!Single(<<"delay", v, n>>)
    BY <2>2
  <2>4. QED
    BY <1>3, <2>3, GaugesOwned, SingleOwned
<1>4. CASE t = "market_params"
  <2> DEFINE A == {<<T!Show(<<"minCollateral", v, m>>, "next"),
                    T!Show(<<"borrowing", v, m, "long">>, "next"),
                    T!Show(<<"borrowing", v, m, "short">>, "next"),
                    T!Show(<<"liquidationFee", v, m>>, "next")>>
                     : m \in Markets[v]}
  <2>1. p.loops = <<A>>
    BY <1>4 DEF p, T!PlanOf, T!MarketParams, T!Plan
  <2>2. item \in A
    <3> HIDE DEF A
    <3>1. QED
      BY <1>0, <2>1, OnlyLoop
  <2>3. PICK m : item = <<T!Show(<<"minCollateral", v, m>>, "next"),
                            T!Show(<<"borrowing", v, m, "long">>, "next"),
                            T!Show(<<"borrowing", v, m, "short">>, "next"),
                            T!Show(<<"liquidationFee", v, m>>, "next")>>
    BY <2>2
  <2>4. /\ StepOwned(v, t, T!Show(<<"minCollateral", v, m>>, "next"))
        /\ StepOwned(v, t, T!Show(<<"borrowing", v, m, "long">>, "next"))
        /\ StepOwned(v, t, T!Show(<<"borrowing", v, m, "short">>, "next"))
        /\ StepOwned(v, t, T!Show(<<"liquidationFee", v, m>>, "next"))
    <3>1. /\ Owns(v, t, <<"minCollateral", v, m>>)
          /\ Owns(v, t, <<"borrowing", v, m, "long">>)
          /\ Owns(v, t, <<"borrowing", v, m, "short">>)
          /\ Owns(v, t, <<"liquidationFee", v, m>>)
      BY <1>4, GaugesOwned
    <3>2. QED
      BY <3>1, ShowOwned
  <2>5. QED
    BY <2>3, <2>4, FourOwned
<1>5. CASE t = "fees"
  <2> DEFINE A == {T!Single(<<"claimable", v, m>>) : m \in Markets[v]}
             b == T!Step(T!NoCall, <<<<"total", v>>>>, "next")
             c == T!Step(<<"fdBalance", v>>, <<<<"gap", v>>>>, "task")
             end == IF T!FD \in Vaults[v] THEN <<{<<c>>}>> ELSE <<>>
  <2>1. p.loops = <<>> \/ p.loops = <<A, {<<b>>}>> \o end
    BY <1>5 DEF p, T!PlanOf, T!Fees, T!Plan
  <2>2. p.loops[l] \in {A, {<<b>>}, {<<c>>}}
    <3> HIDE DEF A, b, c
    <3>1. l \in DOMAIN (<<A, {<<b>>}>> \o end)
      BY <1>0, <2>1
    <3>2. (<<A, {<<b>>}>> \o end)[l] \in {A, {<<b>>}, {<<c>>}}
      BY <3>1
    <3>3. QED
      BY <1>0, <2>1, <3>2
  <2>3. item \in A \/ item = <<b>> \/ item = <<c>>
    <3> HIDE DEF A, b, c
    <3>1. QED
      BY <1>0, <2>2
  <2>4. item \in A => ItemOwned(v, t, item)
    <3>1. item \in A => \E m : item = T!Single(<<"claimable", v, m>>)
      OBVIOUS
    <3> HIDE DEF A
    <3>2. QED
      BY <1>5, <3>1, GaugesOwned, SingleOwned
  <2>5. b.pub = <<<<"total", v>>>> /\ c.pub = <<<<"gap", v>>>>
    BY DEF T!Step
  <2>6. Owns(v, t, <<"total", v>>) /\ Owns(v, t, <<"gap", v>>)
    BY <1>5, GaugesOwned
  <2> HIDE DEF A, b, c
  <2>7. StepOwned(v, t, b) /\ StepOwned(v, t, c)
    BY <2>5, <2>6 DEF StepOwned
  <2>8. QED
    BY <2>3, <2>4, <2>7, ItemsOwned
<1>6. CASE t = "funding"
  <2> DEFINE a(m) == T!Step(<<"funding", v, m, "long">>, <<>>, "item")
             b(m) == T!Step(<<"funding", v, m, "short">>,
                            <<<<"funding", v, m, "long">>, <<"funding", v, m, "short">>,
                              T!CutMark, <<"ratio", v, m>>>>, "item")
             A == {<<a(m), b(m)>> : m \in Markets[v]}
  <2>1. p.loops = <<A>>
    BY <1>6 DEF p, T!PlanOf, T!Funding, T!Plan
  <2>2. item \in A
    <3> HIDE DEF A
    <3>1. QED
      BY <1>0, <2>1, OnlyLoop
  <2>3. PICK m : item = <<a(m), b(m)>>
    BY <2>2
  <2>4. /\ a(m).pub = <<>>
        /\ b(m).pub = <<<<"funding", v, m, "long">>, <<"funding", v, m, "short">>, T!CutMark,
                        <<"ratio", v, m>>>>
    BY DEF T!Step
  <2>5. /\ Owns(v, t, <<"funding", v, m, "long">>) /\ Owns(v, t, <<"funding", v, m, "short">>)
        /\ Owns(v, t, <<"ratio", v, m>>)
    BY <1>6, GaugesOwned
  <2> HIDE DEF a, b
  <2>6. StepOwned(v, t, a(m)) /\ StepOwned(v, t, b(m))
    BY <2>4, <2>5 DEF StepOwned
  <2>7. QED
    BY <2>3, <2>6, ItemsOwned
<1>7. CASE t = "keeper_gas"
  <2> DEFINE A == {T!Single(<<"keeper", k>>) : k \in Keepers}
             B == {T!Single(<<"fdUsdt", v>>)}
             a == IF v = "v1" THEN <<A>> ELSE <<>>
             b == IF T!FD \in Vaults[v] /\ v \in UsdtSet THEN <<B>> ELSE <<>>
  <2>1. p.loops = a \o b
    BY <1>7 DEF p, T!PlanOf, T!KeeperGas, T!Plan
  <2>2. (v = "v1" /\ p.loops[l] = A) \/ p.loops[l] = B
    <3> HIDE DEF A, B
    <3>1. l \in DOMAIN (a \o b)
      BY <1>0, <2>1
    <3>2. (v = "v1" /\ (a \o b)[l] = A) \/ (a \o b)[l] = B
      BY <3>1
    <3>3. QED
      BY <2>1, <3>2
  <2>3. \/ v = "v1" /\ \E k : item = T!Single(<<"keeper", k>>)
        \/ item = T!Single(<<"fdUsdt", v>>)
    BY <1>0, <2>2
  <2>4. QED
    BY <1>7, <2>3, GaugesOwned, SingleOwned
<1>8. CASE t = "features"
  <2> DEFINE root(i) == {T!Single(<<"feature", v, FeatureNames[i], "root">>)}
             each(i) == {T!Single(<<"feature", v, FeatureNames[i], h>>) : h \in Handlers[v]}
             S == {root(i) : i \in DOMAIN FeatureNames} \cup {each(i) : i \in DOMAIN FeatureNames}
             ss == [i \in DOMAIN FeatureNames |-> <<root(i), each(i)>>]
  <2>1. p.loops = FlattenSeq(ss)
    BY <1>8, FlattenSame DEF p, T!PlanOf, T!Features, T!Plan
  <2>2. ss \in Seq(Seq(S)) /\ \A i \in 1..Len(ss) : Len(ss[i]) = 2
    <3>1. \A i \in DOMAIN FeatureNames : root(i) \in S /\ each(i) \in S
      OBVIOUS
    <3>2. DOMAIN FeatureNames = 1..Len(FeatureNames) /\ Len(FeatureNames) \in Nat
      BY SeriesAssumption
    <3> HIDE DEF S, root, each
    <3>3. \A i \in DOMAIN FeatureNames : <<root(i), each(i)>> \in Seq(S)
      BY <3>1
    <3>4. QED
      BY <3>2, <3>3
  <2>3. p.loops \in Seq(S)
    <3> HIDE DEF S, ss, p
    <3>1. 2 \in Nat \ {0}
      OBVIOUS
    <3>2. Blocks(FlattenSeq(ss), ss, Len(ss), S, 2)
      BY <2>2, <3>1, FlatBlocks
    <3>3. QED
      BY <2>1, <3>2 DEF Blocks
  <2>4. p.loops[l] \in S
    <3> HIDE DEF S
    <3>1. QED
      BY <1>0, <2>3
  <2>5. \E n, h : item = T!Single(<<"feature", v, n, h>>)
    BY <1>0, <2>4
  <2>6. QED
    BY <1>8, <2>5, GaugesOwned, SingleOwned
<1>9. CASE t = "queue"
  <2>1. p.loops = [i \in DOMAIN T!Lists |-> {T!Single(<<"queue", v, T!Lists[i]>>)}]
    BY <1>9 DEF p, T!PlanOf, T!Queue, T!Plan
  <2>2. item = T!Single(<<"queue", v, T!Lists[l]>>)
    BY <1>0, <2>1
  <2>3. QED
    BY <1>9, <2>2, GaugesOwned, SingleOwned
<1>10. CASE t = "market_oi"
  <2> DEFINE A == {<<T!Show(<<"oi", v, m, "long">>, "next"),
                    T!Show(<<"maxOI", v, m, "long">>, "next"),
                    T!Show(<<"oi", v, m, "short">>, "next"),
                    T!Show(<<"maxOI", v, m, "short">>, "next"),
                    T!Show(<<"pool", v, m>>, "next"),
                    T!Show(<<"maxPool", v, m>>, "next")>>
                     : m \in Markets[v]}
  <2>1. p.loops = <<A>>
    BY <1>10 DEF p, T!PlanOf, T!MarketOI, T!Plan
  <2>2. item \in A
    <3> HIDE DEF A
    <3>1. QED
      BY <1>0, <2>1, OnlyLoop
  <2>3. PICK m : item = <<T!Show(<<"oi", v, m, "long">>, "next"),
                            T!Show(<<"maxOI", v, m, "long">>, "next"),
                            T!Show(<<"oi", v, m, "short">>, "next"),
                            T!Show(<<"maxOI", v, m, "short">>, "next"),
                            T!Show(<<"pool", v, m>>, "next"),
                            T!Show(<<"maxPool", v, m>>, "next")>>
    BY <2>2
  <2>4. /\ StepOwned(v, t, T!Show(<<"oi", v, m, "long">>, "next"))
        /\ StepOwned(v, t, T!Show(<<"maxOI", v, m, "long">>, "next"))
        /\ StepOwned(v, t, T!Show(<<"oi", v, m, "short">>, "next"))
        /\ StepOwned(v, t, T!Show(<<"maxOI", v, m, "short">>, "next"))
        /\ StepOwned(v, t, T!Show(<<"pool", v, m>>, "next"))
        /\ StepOwned(v, t, T!Show(<<"maxPool", v, m>>, "next"))
    <3>1. /\ Owns(v, t, <<"oi", v, m, "long">>)
          /\ Owns(v, t, <<"maxOI", v, m, "long">>)
          /\ Owns(v, t, <<"oi", v, m, "short">>)
          /\ Owns(v, t, <<"maxOI", v, m, "short">>)
          /\ Owns(v, t, <<"pool", v, m>>)
          /\ Owns(v, t, <<"maxPool", v, m>>)
      BY <1>10, GaugesOwned
    <3>2. QED
      BY <3>1, ShowOwned
  <2>5. QED
    BY <2>3, <2>4, SixOwned
<1>11. CASE t = "oracle_config"
  <2>1. p.loops = <<{T!Single(<<"maxPriceAge", v>>)}>>
    BY <1>11 DEF p, T!PlanOf, T!OracleConfig, T!Plan
  <2>2. item = T!Single(<<"maxPriceAge", v>>)
    BY <1>0, <2>1, OnlyLoop
  <2>3. QED
    BY <1>11, <2>2, GaugesOwned, SingleOwned
<1>12. CASE t = "chainlink"
  <2> DEFINE A == {T!Single(<<"feedAge", f>>) : f \in Feeds}
  <2>1. \/ p.loops = <<>>
        \/ v = "v1" /\ p.loops = <<A>>
    <3>1. p = T!Chainlink(v)
      BY <1>12 DEF p, T!PlanOf
    <3>2. v # "v1" => p.loops = <<>>
      BY <3>1 DEF T!Chainlink, T!Plan
    <3>3. v = "v1" => p.loops = <<A>>
      BY <3>1 DEF T!Chainlink, T!Plan
    <3> HIDE DEF A
    <3>4. QED
      BY <3>2, <3>3
  <2>2. v = "v1" /\ item \in A
    <3> HIDE DEF A
    <3>1. p.loops # <<>>
      BY <1>0
    <3>2. v = "v1" /\ p.loops = <<A>>
      BY <2>1, <3>1
    <3>3. QED
      BY <1>0, <3>2, OnlyLoop
  <2>3. PICK f : item = T!Single(<<"feedAge", f>>)
    BY <2>2
  <2>4. QED
    BY <1>12, <2>2, <2>3, GaugesOwned, SingleOwned
<1>13. QED
  BY <1>1, <1>2, <1>3, <1>4, <1>5, <1>6, <1>7, <1>8, <1>9, <1>10, <1>11, <1>12 DEF TaskNames

LEMMA SetByOwned ==
    ASSUME NEW v, NEW t \in TaskNames, NEW g \in SetBy(T!PlanOf(v, t))
    PROVE  Owns(v, t, g)
<1> DEFINE p == T!PlanOf(v, t)
<1>1. PICK item \in UNION ToSet(p.loops) : \E i \in DOMAIN item : g \in ToSet(item[i].pub)
  BY DEF SetBy
<1>2. PICK l \in DOMAIN p.loops : item \in p.loops[l]
  BY <1>1 DEF ToSet
<1>3. PICK i \in DOMAIN item : g \in ToSet(item[i].pub)
  BY <1>1
<1>4. PICK k \in DOMAIN item[i].pub : g = item[i].pub[k]
  BY <1>3 DEF ToSet
<1>5. ItemOwned(v, t, item)
  BY <1>2, PlanOwned
<1>6. g = T!CutMark \/ Owns(v, t, g)
  <2>1. StepOwned(v, t, item[i])
    BY <1>5 DEF ItemOwned
  <2>2. \A s : StepOwned(v, t, s) =>
               \A x \in DOMAIN s.pub : s.pub[x] = T!CutMark \/ Owns(v, t, s.pub[x])
    BY Zenon DEF StepOwned
  <2>3. item[i].pub[k] = T!CutMark \/ Owns(v, t, item[i].pub[k])
    BY <1>4, <2>1, <2>2, Zenon
  <2>4. QED
    BY <1>4, <2>3, Zenon
<1>7. g # T!CutMark
  BY DEF SetBy, T!CutMark
<1>8. QED
  BY <1>6, <1>7

\* A position of m blocks of w elements lies in one of them.
LEMMA Position ==
    ASSUME NEW m \in Nat, NEW w \in Nat \ {0}, NEW q \in 1..(m * w)
    PROVE  \E i \in 1..m, j \in 1..w : q = (i - 1) * w + j
<1>1. q - 1 \in Nat /\ q \in Nat /\ w \in Nat /\ q <= m * w
  BY SMTT(30)
<1>2. PICK d \in Nat, r \in Nat : r < w /\ q - 1 = w * d + r
  <2>1. (q - 1) \div w \in Nat /\ (q - 1) % w \in Nat /\ (q - 1) % w < w
        /\ q - 1 = w * ((q - 1) \div w) + ((q - 1) % w)
    BY <1>1, Division
  <2>2. QED
    BY <2>1
<1>3. d < m
  <2> SUFFICES ASSUME d >= m PROVE FALSE
    OBVIOUS
  <2>1. PICK e \in Nat : d = m + e
    <3>1. d - m \in Nat /\ d = m + (d - m)
      OBVIOUS
    <3>2. QED
      BY <3>1
  <2>2. w * (m + e) = m * w + w * e /\ w * e \in Nat /\ m * w \in Nat
    BY <1>1
  <2>3. PICK a \in Nat, b \in Nat : a = m * w /\ b = w * e
    BY <2>2
  <2>4. q - 1 = a + b + r /\ q <= a
    BY <1>1, <1>2, <2>1, <2>2, <2>3
  <2>5. QED
    BY <1>1, <2>4
<1>4. d + 1 \in 1..m /\ r + 1 \in 1..w
  BY <1>1, <1>2, <1>3
<1>5. q = ((d + 1) - 1) * w + (r + 1)
  <2>1. (d + 1) - 1 = d /\ d * w = w * d /\ w * d \in Nat
    BY <1>1
  <2>2. q = w * d + (r + 1)
    BY <1>1, <1>2, <2>1
  <2>3. QED
    BY <2>1, <2>2
<1>6. QED
  BY <1>4, <1>5

\* Where the job of a position of AllPlans comes from.
LEMMA JobOf ==
    ASSUME NEW V, arg \in Seq(V), NEW q \in DOMAIN T!AllPlans
    PROVE  \E i \in DOMAIN arg, j \in DOMAIN Tasks :
              /\ q = (i - 1) * Len(Tasks) + j
              /\ T!AllPlans[q] = T!PlanOf(arg[i], Tasks[j])
<1> DEFINE S == {T!PlanOf(v, t) : v \in V, t \in TaskNames}
           ss == [i \in DOMAIN arg |-> [j \in DOMAIN Tasks |-> T!PlanOf(arg[i], Tasks[j])]]
           m == Len(arg)
           w == Len(Tasks)
<1>1. /\ m \in Nat /\ w \in Nat \ {0} /\ DOMAIN arg = 1..m /\ DOMAIN Tasks = 1..w
      /\ Tasks \in Seq(TaskNames)
  BY SeriesAssumption
<1>2. ASSUME NEW i \in DOMAIN arg
      PROVE  [j \in DOMAIN Tasks |-> T!PlanOf(arg[i], Tasks[j])] \in Seq(S)
  <2>1. arg[i] \in V /\ \A j \in DOMAIN Tasks : Tasks[j] \in TaskNames
    BY <1>1
  <2>2. \A j \in DOMAIN Tasks : T!PlanOf(arg[i], Tasks[j]) \in S
    BY <2>1
  <2> HIDE DEF S
  <2>3. QED
    BY <1>1, <2>2
<1>3. ss \in Seq(Seq(S)) /\ Len(ss) = m /\ \A i \in 1..Len(ss) : Len(ss[i]) = w
  <2> HIDE DEF S
  <2>1. \A i \in DOMAIN arg : Len([j \in DOMAIN Tasks |-> T!PlanOf(arg[i], Tasks[j])]) = w
    BY <1>1
  <2>2. QED
    BY <1>1, <1>2, <2>1
<1>4. T!AllPlans = FlattenSeq(ss)
  BY FlattenSame DEF T!AllPlans
<1>5. \A i \in 1..m : \A j \in 1..w : ss[i][j] = T!PlanOf(arg[i], Tasks[j])
  BY <1>1
<1> HIDE DEF S, ss, m, w
<1>6. Blocks(T!AllPlans, ss, m, S, w)
  BY <1>1, <1>3, <1>4, FlatBlocks
<1>7. q \in 1..(m * w)
  BY <1>6 DEF Blocks
<1>8. PICK i \in 1..m, j \in 1..w : q = (i - 1) * w + j
  BY <1>1, <1>7, Position
<1>9. T!AllPlans[q] = T!PlanOf(arg[i], Tasks[j])
  BY <1>5, <1>6, <1>8 DEF Blocks
<1>10. QED
  BY <1>1, <1>8, <1>9 DEF w

\* A task of another version, or another task, has another timestamp; that of the feeds is
\* set for v1 only.
LEMMA StampSame ==
    ASSUME NEW v, NEW w, NEW t \in TaskNames, NEW u \in TaskNames,
           T!PlanOf(v, t).stamped, T!PlanOf(w, u).stamped, LastRun(v, t) = LastRun(w, u)
    PROVE  t = u /\ v = w
<1>1. LastRun(v, t)[2] = LastRun(w, u)[2]
  BY Zenon
<1>2. LastRun(v, t)[2] = (IF t = "chainlink" THEN <<t>> ELSE <<t, v>>)
  BY DEF LastRun
<1>3. LastRun(w, u)[2] = (IF u = "chainlink" THEN <<u>> ELSE <<u, w>>)
  BY DEF LastRun
<1>4. (IF t = "chainlink" THEN <<t>> ELSE <<t, v>>) = (IF u = "chainlink" THEN <<u>> ELSE <<u, w>>)
  BY <1>1, <1>2, <1>3
<1>5. \A x : T!PlanOf(x, "chainlink") = T!Chainlink(x)
  BY DEF T!PlanOf
<1>6. \A x : x # "v1" => ~T!Chainlink(x).stamped
  BY DEF T!Chainlink, T!Plan
<1>7. CASE t = "chainlink"
  <2>1. u = "chainlink"
    BY <1>4, <1>7
  <2>2. v = "v1" /\ w = "v1"
    BY <1>5, <1>6, <1>7, <2>1
  <2>3. QED
    BY <1>7, <2>1, <2>2
<1>8. CASE t # "chainlink"
  <2>1. u # "chainlink"
    BY <1>4, <1>8
  <2>2. <<t, v>> = <<u, w>>
    BY <1>4, <1>8, <2>1
  <2>3. QED
    BY <2>2
<1>9. QED
  BY <1>7, <1>8

\* exporter.go, gas.go, chainlink.go: whatever the versions, vaults, markets, roles,
\* features, keepers and feeds and in whichever order the tasks come, each gauge of a run
\* has a value for each label of its vector and, versions having different names, one job
\* that sets it, and each job a timestamp of its own.
THEOREM SeriesOwned ==
    ASSUME NEW V, arg \in Seq(V)
    PROVE  /\ Labelled(T!AllPlans)
           /\ IsInjective(arg) => OneWriter(T!AllPlans) /\ OneStamp(arg)
<1>1. Tasks \in Seq(TaskNames) /\ IsInjective(Tasks)
  BY SeriesAssumption
<1>2. \A j \in DOMAIN Tasks : Tasks[j] \in TaskNames
  BY <1>1
<1>3. ASSUME NEW q \in DOMAIN T!AllPlans, NEW g \in SetBy(T!AllPlans[q])
      PROVE  \E i \in DOMAIN arg, j \in DOMAIN Tasks :
                q = (i - 1) * Len(Tasks) + j /\ Owns(arg[i], Tasks[j], g)
  <2>1. PICK i \in DOMAIN arg, j \in DOMAIN Tasks :
                q = (i - 1) * Len(Tasks) + j /\ T!AllPlans[q] = T!PlanOf(arg[i], Tasks[j])
    BY JobOf
  <2>2. Tasks[j] \in TaskNames /\ g \in SetBy(T!PlanOf(arg[i], Tasks[j]))
    BY <1>2, <1>3, <2>1
  <2>3. Owns(arg[i], Tasks[j], g)
    BY <2>2, SetByOwned
  <2>4. QED
    BY <2>1, <2>3
<1>4. Labelled(T!AllPlans)
  <2> SUFFICES ASSUME NEW q \in DOMAIN T!AllPlans, NEW g \in SetBy(T!AllPlans[q])
               PROVE  Len(g) = 1 + Len(Labels[g[1]])
    BY DEF Labelled
  <2>1. QED
    BY <1>3 DEF Owns
<1>5. ASSUME IsInjective(arg) PROVE OneWriter(T!AllPlans)
  <2> SUFFICES ASSUME NEW q \in DOMAIN T!AllPlans, NEW r \in DOMAIN T!AllPlans,
                      NEW g \in SetBy(T!AllPlans[q]), g \in SetBy(T!AllPlans[r])
               PROVE  q = r
    BY DEF OneWriter
  <2>1. PICK i \in DOMAIN arg, j \in DOMAIN Tasks :
                q = (i - 1) * Len(Tasks) + j /\ Owns(arg[i], Tasks[j], g)
    BY <1>3
  <2>2. PICK i2 \in DOMAIN arg, j2 \in DOMAIN Tasks :
                r = (i2 - 1) * Len(Tasks) + j2 /\ Owns(arg[i2], Tasks[j2], g)
    BY <1>3
  <2>3. Tasks[j] = Tasks[j2] /\ arg[i] = arg[i2]
    BY <2>1, <2>2, Zenon DEF Owns
  <2>4. j = j2 /\ i = i2
    BY <1>1, <1>5, <2>3, Zenon DEF IsInjective
  <2>5. QED
    BY <2>1, <2>2, <2>4
<1>6. ASSUME IsInjective(arg) PROVE OneStamp(arg)
  <2> SUFFICES ASSUME NEW i \in DOMAIN arg, NEW k \in DOMAIN arg,
                      NEW j \in DOMAIN Tasks, NEW l \in DOMAIN Tasks,
                      T!PlanOf(arg[i], Tasks[j]).stamped, T!PlanOf(arg[k], Tasks[l]).stamped,
                      LastRun(arg[i], Tasks[j]) = LastRun(arg[k], Tasks[l])
               PROVE  i = k /\ j = l
    BY DEF OneStamp
  <2>1. Tasks[j] \in TaskNames /\ Tasks[l] \in TaskNames
    BY <1>2
  <2>2. Tasks[j] = Tasks[l] /\ arg[i] = arg[k]
    BY <2>1, StampSame
  <2>3. QED
    BY <1>1, <1>6, <2>2, Zenon DEF IsInjective
<1>7. QED
  BY <1>4, <1>5, <1>6

SeriesArg == fun = "series" => arg \in BoundedSeq({"v1", "v2"}, 2)

\* exporter.go, gas.go, chainlink.go: the same of the behaviours of this module.
THEOREM SeriesRight == Spec => []SeriesHaveOneWriter
<1>1. Init => SeriesArg
  BY DEF Init, SeriesArg
<1>2. SeriesArg /\ [Next]_vars => SeriesArg'
  BY DEF SeriesArg, Next, vars, Ask, AskNumber, AskAddresses, AskReply, AskKeys, AskName,
         AskConfig, AskDigest, AskSeries
<1>3. SeriesArg => SeriesHaveOneWriter
  <2> SUFFICES ASSUME arg \in BoundedSeq({"v1", "v2"}, 2)
               PROVE  /\ Labelled(T!AllPlans)
                      /\ IsInjective(arg) => OneWriter(T!AllPlans) /\ OneStamp(arg)
    BY DEF SeriesArg, SeriesHaveOneWriter
  <2>1. 2 \in Nat
    OBVIOUS
  <2>2. arg \in Seq({"v1", "v2"})
    BY <2>1, Bounded
  <2>3. QED
    BY <2>2, SeriesOwned
<1>4. QED
  BY <1>1, <1>2, <1>3, PTL DEF Spec

-----------------------------------------------------------------------------
(* The digest, for every list of reports, whatever their versions, tasks,   *)
(* lines and findings.                                                      *)

-----------------------------------------------------------------------------
(* Sequences, from the left.                                                *)

LEMMA Appended ==
    ASSUME NEW A, NEW s \in Seq(A), NEW x \in A
    PROVE  /\ Append(s, x) \in Seq(A) /\ Len(s) \in Nat /\ Len(Append(s, x)) = Len(s) + 1
           /\ DOMAIN s = 1..Len(s) /\ DOMAIN Append(s, x) = 1..(Len(s) + 1)
           /\ \A i \in 1..Len(s) : Append(s, x)[i] = s[i]
           /\ Append(s, x)[Len(s) + 1] = x
  OBVIOUS

LEMMA AppendIs ==
    ASSUME NEW A, NEW s \in Seq(A), NEW x \in A
    PROVE  Append(s, x) = [i \in 1..(Len(s) + 1) |-> IF i = Len(s) + 1 THEN x ELSE s[i]]
<1>1. /\ Append(s, x) \in Seq(A) /\ Len(s) \in Nat /\ Len(Append(s, x)) = Len(s) + 1
      /\ \A i \in 1..Len(s) : Append(s, x)[i] = s[i]
      /\ Append(s, x)[Len(s) + 1] = x
  BY Appended
<1>2. ASSUME NEW t \in Seq(A)
      PROVE  t = [i \in 1..Len(t) |-> t[i]]
  OBVIOUS
<1> DEFINE t == Append(s, x)
<1> HIDE DEF t
<1>3. t = [i \in 1..Len(t) |-> t[i]]
  BY <1>1, <1>2 DEF t
<1>4. /\ Len(s) \in Nat /\ Len(t) = Len(s) + 1 /\ t[Len(s) + 1] = x
      /\ \A i \in 1..Len(s) : t[i] = s[i]
  BY <1>1 DEF t
<1>5. t = [i \in 1..(Len(s) + 1) |-> IF i = Len(s) + 1 THEN x ELSE s[i]]
  BY <1>3, <1>4
<1>6. QED
  BY <1>5 DEF t

LEMMA Concatenated ==
    ASSUME NEW A, NEW s \in Seq(A), NEW t \in Seq(A)
    PROVE  /\ s \o t \in Seq(A) /\ s \o <<>> = s /\ <<>> \o s = s
           /\ \A x \in A : s \o Append(t, x) = Append(s \o t, x)
           /\ \A u \in Seq(A) : (s \o t) \o u = s \o (t \o u)
  BY SMTT(20)

Associates(A) == \A s, t, u \in Seq(A) : (s \o t) \o u = s \o (t \o u)

LEMMA Associative ==
    ASSUME NEW A
    PROVE  Associates(A)
<1>1. ASSUME NEW s \in Seq(A), NEW t \in Seq(A), NEW u \in Seq(A)
      PROVE  (s \o t) \o u = s \o (t \o u)
  BY SMTT(20)
<1>2. QED
  BY <1>1 DEF Associates

LEMMA NothingIn == \A A : <<>> \in Seq(A)
  OBVIOUS

\* Induction over how a sequence grows, for sets instead of predicates.
LEMMA Growing ==
    ASSUME NEW A, NEW P, <<>> \in P,
           \A s \in Seq(A), x \in A : s \in P => Append(s, x) \in P
    PROVE  Seq(A) \subseteq P
<1> DEFINE W == {n \in Nat : \E s \in Seq(A) : Len(s) = n /\ s \notin P}
<1> SUFFICES ASSUME W # {} PROVE FALSE
  OBVIOUS
<1>1. PICK m \in W : \A k \in W : m <= k
  <2>1. W \in SUBSET Nat
    OBVIOUS
  <2> HIDE DEF W
  <2>2. QED
    BY <2>1, Least
<1>2. PICK s \in Seq(A) : Len(s) = m /\ s \notin P
  BY <1>1
<1>3. m # 0
  BY <1>2
<1>4. m \in Nat /\ m - 1 \in Nat /\ m - 1 \notin W
  BY <1>1, <1>3
<1> DEFINE t == [i \in 1..(m - 1) |-> s[i]]
<1>5. t \in Seq(A) /\ Len(t) = m - 1 /\ s[m] \in A
  BY <1>2, <1>4
<1>6. s = Append(t, s[m])
  BY <1>2, <1>4
<1>7. t \in P
  BY <1>4, <1>5
<1>8. QED
  BY <1>2, <1>5, <1>6, <1>7

\* What a sequence of sequences has been flattened to does not depend on what follows.
SameTo(ss, tt, n) == \A i \in 1..n : ss[i] = tt[i]

LEMMA FlatAgree ==
    ASSUME NEW n \in Nat, NEW ss, NEW tt, SameTo(ss, tt, n),
           NEW f, FlatTo(f, ss, n), NEW g, FlatTo(g, tt, n + 1)
    PROVE  \A i \in 1..n : f[i] = g[i]
<1> DEFINE W == {i \in Nat : i \in 1..n /\ f[i] # g[i]}
<1> SUFFICES ASSUME W # {} PROVE FALSE
  OBVIOUS
<1>1. PICK w \in W : \A j \in W : w <= j
  <2>1. W \in SUBSET Nat
    OBVIOUS
  <2> HIDE DEF W
  <2>2. QED
    BY <2>1, Least
<1>2. w \in 1..n /\ f[w] # g[w]
  BY <1>1
<1>3. /\ f[w] = IF w = 1 THEN ss[w] ELSE f[w - 1] \o ss[w]
      /\ g[w] = IF w = 1 THEN tt[w] ELSE g[w - 1] \o tt[w]
  <2>1. w \in 1..(n + 1)
    BY <1>2
  <2>2. f[w] = IF w = 1 THEN ss[w] ELSE f[w - 1] \o ss[w]
    BY <2>1 DEF FlatTo
  <2>3. g[w] = IF w = 1 THEN tt[w] ELSE g[w - 1] \o tt[w]
    BY <2>1 DEF FlatTo
  <2>4. QED
    BY <2>2, <2>3
<1>4. w # 1
  BY <1>2, <1>3 DEF SameTo
<1>5. w - 1 \in 1..n /\ w - 1 \notin W
  BY <1>1, <1>2, <1>4
<1>6. f[w - 1] = g[w - 1]
  BY <1>5
<1>7. QED
  BY <1>2, <1>3, <1>4, <1>6 DEF SameTo

LEMMA FlatNone == FlattenSeq(<<>>) = <<>>
  BY DEF FlattenSeq

LEMMA FlatAppended ==
    ASSUME NEW B, NEW ss \in Seq(Seq(B)), NEW x \in Seq(B)
    PROVE  FlattenSeq(Append(ss, x)) = FlattenSeq(ss) \o x
<1> DEFINE tt == Append(ss, x)
           n == Len(ss)
<1>1. /\ n \in Nat /\ Len(tt) = n + 1 /\ tt[n + 1] = x
      /\ \A i \in 1..n : ss[i] = tt[i]
  BY Appended
<1>2. PICK g : FlatTo(g, tt, n + 1) /\ FlattenSeq(tt) = g[n + 1]
  <2> HIDE DEF tt, n
  <2>1. Len(tt) \in Nat \ {0}
    BY <1>1
  <2>2. \E g : FlatTo(g, tt, Len(tt)) /\ FlattenSeq(tt) = g[Len(tt)]
    BY <2>1, FlatDef
  <2>3. QED
    BY <1>1, <2>2
<1>3. g[n + 1] = IF n + 1 = 1 THEN x ELSE g[n] \o x
  <2> HIDE DEF tt, n
  <2>1. n + 1 \in 1..(n + 1)
    BY <1>1
  <2>2. g[n + 1] = IF n + 1 = 1 THEN tt[n + 1] ELSE g[(n + 1) - 1] \o tt[n + 1]
    BY <1>2, <2>1 DEF FlatTo
  <2>3. QED
    BY <1>1, <2>2
<1>4. CASE n = 0
  <2>1. ss = <<>>
    BY <1>4
  <2>2. QED
    BY <1>2, <1>3, <1>4, <2>1, FlatNone
<1>5. CASE n # 0
  <2>1. PICK f : FlatTo(f, ss, n) /\ FlattenSeq(ss) = f[n]
    BY <1>1, <1>5, FlatDef
  <2> HIDE DEF tt, n
  <2>3. \A i \in 1..n : f[i] = g[i]
    <3>1. n \in Nat /\ SameTo(ss, tt, n)
      BY <1>1 DEF SameTo
    <3>2. FlatTo(f, ss, n) /\ FlatTo(g, tt, n + 1)
      BY <1>2, <2>1
    <3>3. QED
      BY <3>1, <3>2, FlatAgree
  <2>4. f[n] = g[n]
    BY <1>1, <1>5, <2>3
  <2>5. g[n + 1] = g[n] \o x
    BY <1>1, <1>3, <1>5
  <2>6. QED
    BY <1>2, <2>1, <2>4, <2>5 DEF tt
<1>6. QED
  BY <1>4, <1>5

\* f[x] is what a loop appends in the turn for x: elements of B.
Turns(f, A, B) == f \in [A -> Seq(B)]

\* What a loop over s appends, if it appends f[x] for x.
Gather(f, s) == FlattenSeq([i \in DOMAIN s |-> f[s[i]]])

LEMMA GatherNothing ==
    ASSUME NEW f
    PROVE  Gather(f, <<>>) = <<>>
<1>1. [i \in DOMAIN <<>> |-> f[<<>>[i]]] = <<>>
  OBVIOUS
<1>2. QED
  BY <1>1, FlatNone DEF Gather

LEMMA GatherNext ==
    ASSUME NEW A, NEW B, NEW f, Turns(f, A, B), NEW s \in Seq(A), NEW x \in A
    PROVE  Gather(f, Append(s, x)) = Gather(f, s) \o f[x]
<1> DEFINE ss == [i \in DOMAIN s |-> f[s[i]]]
<1>1. ss \in Seq(Seq(B)) /\ f[x] \in Seq(B)
  BY DEF Turns
<1>2. [i \in DOMAIN Append(s, x) |-> f[Append(s, x)[i]]] = Append(ss, f[x])
  OBVIOUS
<1>3. FlattenSeq(Append(ss, f[x])) = FlattenSeq(ss) \o f[x]
  <2> HIDE DEF ss
  <2>1. QED
    BY <1>1, FlatAppended
<1>4. QED
  BY <1>2, <1>3 DEF Gather

LEMMA GatherType ==
    ASSUME NEW A, NEW B, NEW f, Turns(f, A, B), NEW s \in Seq(A)
    PROVE  Gather(f, s) \in Seq(B)
<1> DEFINE P == {t \in Seq(A) : Gather(f, t) \in Seq(B)}
<1>1. <<>> \in P
  BY GatherNothing, NothingIn
<1>2. ASSUME NEW t \in Seq(A), NEW x \in A, t \in P PROVE Append(t, x) \in P
  <2>1. Gather(f, Append(t, x)) = Gather(f, t) \o f[x]
    BY GatherNext
  <2>2. Append(t, x) \in Seq(A) /\ Gather(f, t) \in Seq(B) /\ f[x] \in Seq(B)
    BY <1>2, Appended DEF Turns
  <2>3. Gather(f, t) \o f[x] \in Seq(B)
    BY <2>2, Concatenated
  <2>4. QED
    BY <2>1, <2>2, <2>3
<1>3. Seq(A) \subseteq P
  <2> HIDE DEF P
  <2>1. QED
    BY <1>1, <1>2, Growing
<1>4. QED
  BY <1>3

LEMMA GatherOne ==
    ASSUME NEW A, NEW B, NEW f, Turns(f, A, B), NEW x \in A
    PROVE  Gather(f, <<x>>) = f[x]
<1>1. Append(<<>>, x) = <<x>>
  OBVIOUS
<1>2. <<>> \in Seq(A) /\ f[x] \in Seq(B)
  <2>1. f[x] \in Seq(B)
    BY DEF Turns
  <2>2. QED
    BY <2>1, NothingIn
<1>3. Gather(f, Append(<<>>, x)) = Gather(f, <<>>) \o f[x]
  <2>1. \A w \in Seq(A) : Gather(f, Append(w, x)) = Gather(f, w) \o f[x]
    BY GatherNext
  <2>2. QED
    BY <1>2, <2>1
<1>4. QED
  BY <1>1, <1>2, <1>3, GatherNothing, Concatenated

LEMMA GatherConcat ==
    ASSUME NEW A, NEW B, NEW f, Turns(f, A, B), NEW s \in Seq(A), NEW t \in Seq(A)
    PROVE  Gather(f, s \o t) = Gather(f, s) \o Gather(f, t)
<1> DEFINE P == {u \in Seq(A) : Gather(f, s \o u) = Gather(f, s) \o Gather(f, u)}
<1>1. <<>> \in P
  <2>1. Gather(f, s) \in Seq(B)
    BY GatherType
  <2>2. QED
    BY <2>1, GatherNothing
<1>2. ASSUME NEW u \in Seq(A), NEW x \in A, u \in P PROVE Append(u, x) \in P
  <2>1. /\ s \o u \in Seq(A) /\ s \o Append(u, x) = Append(s \o u, x)
        /\ Append(u, x) \in Seq(A)
    BY Concatenated, Appended
  <2>2. \A w \in Seq(A) : Gather(f, Append(w, x)) = Gather(f, w) \o f[x]
    BY GatherNext
  <2>3. /\ Gather(f, Append(s \o u, x)) = Gather(f, s \o u) \o f[x]
        /\ Gather(f, Append(u, x)) = Gather(f, u) \o f[x]
    BY <2>1, <2>2
  <2>4. Gather(f, s) \in Seq(B) /\ Gather(f, u) \in Seq(B) /\ f[x] \in Seq(B)
    BY GatherType DEF Turns
  <2>5. (Gather(f, s) \o Gather(f, u)) \o f[x] = Gather(f, s) \o (Gather(f, u) \o f[x])
    <3>1. ASSUME NEW a \in Seq(B), NEW b \in Seq(B), NEW c \in Seq(B)
          PROVE  (a \o b) \o c = a \o (b \o c)
      BY SMTT(20)
    <3>2. QED
      BY <2>4, <3>1
  <2>6. QED
    BY <1>2, <2>1, <2>3, <2>5
<1>3. Seq(A) \subseteq P
  <2> HIDE DEF P
  <2>1. QED
    BY <1>1, <1>2, Growing
<1>4. QED
  BY <1>3

Joins(f, A) == \A s, t \in Seq(A) : Gather(f, s \o t) = Gather(f, s) \o Gather(f, t)

LEMMA Joined ==
    ASSUME NEW A, NEW B, NEW f, Turns(f, A, B)
    PROVE  Joins(f, A)
<1>1. ASSUME NEW s \in Seq(A), NEW t \in Seq(A)
      PROVE  Gather(f, s \o t) = Gather(f, s) \o Gather(f, t)
  BY <1>1, GatherConcat
<1>2. QED
  BY <1>1 DEF Joins

\* Two loops, one over what the other appends, are one.
LEMMA GatherTwice ==
    ASSUME NEW A, NEW B, NEW C, NEW f, Turns(f, A, B), NEW g, Turns(g, B, C),
           NEW s \in Seq(A)
    PROVE  Gather(g, Gather(f, s)) = Gather([x \in A |-> Gather(g, f[x])], s)
<1> DEFINE h == [x \in A |-> Gather(g, f[x])]
           P == {t \in Seq(A) : Gather(g, Gather(f, t)) = Gather(h, t)}
<1>1. Turns(h, A, C)
  <2>1. ASSUME NEW x \in A PROVE Gather(g, f[x]) \in Seq(C)
    <3>1. f[x] \in Seq(B)
      BY DEF Turns
    <3>2. QED
      BY <3>1, GatherType
  <2>2. QED
    BY <2>1 DEF Turns
<1>2. <<>> \in P
  BY GatherNothing
<1>3. ASSUME NEW t \in Seq(A), NEW x \in A, t \in P PROVE Append(t, x) \in P
  <2>1. Gather(f, Append(t, x)) = Gather(f, t) \o f[x]
    BY GatherNext
  <2>2. Gather(f, t) \in Seq(B) /\ f[x] \in Seq(B) /\ Append(t, x) \in Seq(A)
    BY GatherType, Appended DEF Turns
  <2>3. Gather(g, Gather(f, t) \o f[x]) = Gather(g, Gather(f, t)) \o Gather(g, f[x])
    <3>1. ASSUME NEW y \in Seq(B), NEW z \in Seq(B)
          PROVE  Gather(g, y \o z) = Gather(g, y) \o Gather(g, z)
      BY GatherConcat
    <3> HIDE DEF P, h
    <3>2. QED
      BY <2>2, <3>1
  <2>4. Gather(h, Append(t, x)) = Gather(h, t) \o h[x]
    <3> HIDE DEF h
    <3>1. QED
      BY <1>1, GatherNext
  <2>5. Gather(g, Gather(f, t)) = Gather(h, t) /\ h[x] = Gather(g, f[x])
    BY <1>3
  <2>6. QED
    BY <2>1, <2>2, <2>3, <2>4, <2>5
<1>4. Seq(A) \subseteq P
  <2> HIDE DEF P
  <2>1. QED
    BY <1>2, <1>3, Growing
<1>5. QED
  BY <1>4

\* Only what f is on the elements of s matters.
LEMMA GatherSame ==
    ASSUME NEW A, NEW s \in Seq(A), NEW f, NEW g, \A i \in 1..Len(s) : f[s[i]] = g[s[i]]
    PROVE  Gather(f, s) = Gather(g, s)
<1>1. DOMAIN s = 1..Len(s)
  OBVIOUS
<1>2. [i \in DOMAIN s |-> f[s[i]]] = [i \in DOMAIN s |-> g[s[i]]]
  BY <1>1
<1>3. QED
  BY <1>2 DEF Gather

LEMMA GatherEmpty ==
    ASSUME NEW A, NEW B, NEW f, Turns(f, A, B), NEW s \in Seq(A),
           \A i \in 1..Len(s) : f[s[i]] = <<>>
    PROVE  Gather(f, s) = <<>>
<1> DEFINE P == {t \in Seq(A) : (\A i \in 1..Len(t) : f[t[i]] = <<>>) => Gather(f, t) = <<>>}
<1>1. <<>> \in P
  BY GatherNothing, NothingIn
<1>2. ASSUME NEW t \in Seq(A), NEW x \in A, t \in P PROVE Append(t, x) \in P
  <2> SUFFICES ASSUME \A i \in 1..Len(Append(t, x)) : f[Append(t, x)[i]] = <<>>
               PROVE  Gather(f, Append(t, x)) = <<>>
    BY Appended
  <2>1. /\ Len(t) \in Nat /\ Len(Append(t, x)) = Len(t) + 1 /\ Append(t, x)[Len(t) + 1] = x
        /\ \A i \in 1..Len(t) : Append(t, x)[i] = t[i]
    BY Appended
  <2>2. f[x] = <<>> /\ \A i \in 1..Len(t) : f[t[i]] = <<>>
    BY <2>1
  <2>3. Gather(f, Append(t, x)) = Gather(f, t) \o f[x]
    BY GatherNext
  <2>4. QED
    BY <1>2, <2>2, <2>3
<1>3. Seq(A) \subseteq P
  <2> HIDE DEF P
  <2>1. QED
    BY <1>1, <1>2, Growing
<1>4. QED
  BY <1>3

\* Every element is there once.
Distinct(s) == \A i, j \in 1..Len(s) : s[i] = s[j] => i = j

\* A loop that appends something in one turn only.
LEMMA GatherOnly ==
    ASSUME NEW A, NEW B, NEW f, Turns(f, A, B), NEW s \in Seq(A), Distinct(s),
           NEW v \in A, \E k \in 1..Len(s) : s[k] = v, \A x \in A \ {v} : f[x] = <<>>
    PROVE  Gather(f, s) = f[v]
<1> DEFINE P == {t \in Seq(A) : Distinct(t) /\ (\E k \in 1..Len(t) : t[k] = v)
                                => Gather(f, t) = f[v]}
<1>1. <<>> \in P
  OBVIOUS
<1>2. ASSUME NEW t \in Seq(A), NEW x \in A, t \in P PROVE Append(t, x) \in P
  <2> DEFINE u == Append(t, x)
  <2>0. Gather(f, u) = Gather(f, t) \o f[x]
    BY GatherNext
  <2> SUFFICES ASSUME Distinct(u), \E k \in 1..Len(u) : u[k] = v
               PROVE  Gather(f, u) = f[v]
    BY Appended
  <2>1. /\ Len(t) \in Nat /\ Len(u) = Len(t) + 1 /\ u[Len(t) + 1] = x
        /\ \A i \in 1..Len(t) : u[i] = t[i]
    BY Appended
  <2>3. f[x] \in Seq(B) /\ f[v] \in Seq(B)
    BY DEF Turns
  <2> HIDE DEF u
  <2>4. CASE x = v
    <3>1. \A i \in 1..Len(t) : t[i] # v
      <4> SUFFICES ASSUME NEW i \in 1..Len(t), t[i] = v PROVE FALSE
        OBVIOUS
      <4>1. i \in 1..Len(u) /\ Len(t) + 1 \in 1..Len(u) /\ u[i] = u[Len(t) + 1]
        BY <2>1, <2>4
      <4>2. i = Len(t) + 1
        BY <4>1 DEF Distinct
      <4>3. QED
        BY <2>1, <4>2
    <3>2. \A i \in 1..Len(t) : f[t[i]] = <<>>
      BY <3>1
    <3>3. Gather(f, t) = <<>>
      BY <3>2, GatherEmpty
    <3>4. QED
      BY <2>0, <2>3, <2>4, <3>3
  <2>5. CASE x # v
    <3>1. Distinct(t)
      <4> SUFFICES ASSUME NEW i \in 1..Len(t), NEW j \in 1..Len(t), t[i] = t[j] PROVE i = j
        BY DEF Distinct
      <4>1. i \in 1..Len(u) /\ j \in 1..Len(u) /\ u[i] = u[j]
        BY <2>1
      <4>2. QED
        BY <4>1 DEF Distinct
    <3>2. PICK k \in 1..Len(u) : u[k] = v
      OBVIOUS
    <3>3. k # Len(t) + 1
      BY <2>1, <2>5, <3>2
    <3>4. k \in 1..Len(t)
      BY <2>1, <3>2, <3>3
    <3>5. t[k] = v
      BY <2>1, <3>2, <3>4
    <3>6. Gather(f, t) = f[v] /\ f[x] = <<>>
      BY <1>2, <2>5, <3>1, <3>4, <3>5
    <3>7. QED
      BY <2>0, <2>3, <3>6
  <2>6. QED
    BY <2>4, <2>5
<1>3. Seq(A) \subseteq P
  <2> HIDE DEF P
  <2>1. QED
    BY <1>1, <1>2, Growing
<1>4. QED
  BY <1>3

\* A loop that appends one thing a turn.
LEMMA GatherSingle ==
    ASSUME NEW A, NEW B, NEW f, Turns(f, A, B), NEW g \in [A -> B], NEW s \in Seq(A),
           \A x \in A : f[x] = <<g[x]>>
    PROVE  Gather(f, s) = [i \in 1..Len(s) |-> g[s[i]]]
<1> DEFINE P == {t \in Seq(A) : Gather(f, t) = [i \in 1..Len(t) |-> g[t[i]]]}
<1>1. <<>> \in P
  <2>1. [i \in 1..Len(<<>>) |-> g[<<>>[i]]] = <<>>
    OBVIOUS
  <2>2. QED
    BY <2>1, GatherNothing, NothingIn
<1>2. ASSUME NEW t \in Seq(A), NEW x \in A, t \in P PROVE Append(t, x) \in P
  <2>1. Gather(f, Append(t, x)) = Gather(f, t) \o <<g[x]>>
    <3>1. Gather(f, Append(t, x)) = Gather(f, t) \o f[x]
      BY GatherNext
    <3>2. QED
      BY <3>1
  <2>2. /\ Len(t) \in Nat /\ Len(Append(t, x)) = Len(t) + 1 /\ Append(t, x)[Len(t) + 1] = x
        /\ \A i \in 1..Len(t) : Append(t, x)[i] = t[i]
    BY Appended
  <2>3. [i \in 1..Len(t) |-> g[t[i]]] \o <<g[x]>>
        = [i \in 1..(Len(t) + 1) |-> g[Append(t, x)[i]]]
    BY <2>2
  <2>4. QED
    BY <1>2, <2>1, <2>2, <2>3, Appended
<1>3. Seq(A) \subseteq P
  <2> HIDE DEF P
  <2>1. QED
    BY <1>1, <1>2, Growing
<1>4. QED
  BY <1>3

-----------------------------------------------------------------------------
(* The order of the versions.                                               *)

Versioned(R, V) == \A r \in R : r.version \in V

\* What the i-th report adds to the order.
NewAt(s, i) == IF \E k \in 1..(i - 1) : s[k].version = s[i].version
               THEN <<>> ELSE <<s[i].version>>

LEMMA OrderNext ==
    ASSUME NEW V, NEW R, Versioned(R, V), NEW s \in Seq(R), NEW r \in R
    PROVE  VersionOrder(Append(s, r))
           = VersionOrder(s) \o (IF \E k \in 1..Len(s) : s[k].version = r.version
                                 THEN <<>> ELSE <<r.version>>)
<1> DEFINE t == Append(s, r)
           n == Len(s)
           x == IF \E k \in 1..Len(s) : s[k].version = r.version THEN <<>> ELSE <<r.version>>
           ss == [i \in 1..n |-> NewAt(s, i)]
           tt == [i \in 1..(n + 1) |-> NewAt(t, i)]
<1>1. /\ n \in Nat /\ t[n + 1] = r /\ \A i \in 1..n : t[i] = s[i]
      /\ DOMAIN s = 1..n /\ DOMAIN t = 1..(n + 1)
  BY Appended
<1>2. x \in Seq(V)
  BY DEF Versioned
<1>3. ASSUME NEW i \in 1..n PROVE NewAt(s, i) \in Seq(V)
  <2>1. s[i].version \in V
    BY <1>1 DEF Versioned
  <2>2. QED
    BY <2>1 DEF NewAt
<1> HIDE DEF t
<1>4. ASSUME NEW i \in 1..n PROVE NewAt(t, i) = NewAt(s, i)
  <2>1. t[i] = s[i] /\ \A k \in 1..(i - 1) : t[k] = s[k]
    BY <1>1
  <2>2. QED
    BY <2>1 DEF NewAt
<1>5. NewAt(t, n + 1) = x
  <2>1. (n + 1) - 1 = n
    BY <1>1
  <2>2. (\E k \in 1..((n + 1) - 1) : t[k].version = t[n + 1].version)
        <=> (\E k \in 1..n : s[k].version = r.version)
    BY <1>1, <2>1
  <2>3. QED
    BY <1>1, <2>2 DEF NewAt
<1>6. ss \in Seq(Seq(V)) /\ Len(ss) = n
  BY <1>1, <1>3
<1>7. tt = Append(ss, x)
  <2> HIDE DEF x
  <2>1. Append(ss, x) = [i \in 1..(n + 1) |-> IF i <= n THEN NewAt(s, i) ELSE x]
    BY <1>1
  <2>2. \A i \in 1..(n + 1) : NewAt(t, i) = IF i <= n THEN NewAt(s, i) ELSE x
    BY <1>1, <1>4, <1>5
  <2>3. QED
    BY <2>1, <2>2
<1>8. VersionOrder(s) = FlattenSeq(ss) /\ VersionOrder(t) = FlattenSeq(tt)
  BY <1>1 DEF VersionOrder, NewAt
<1>9. FlattenSeq(Append(ss, x)) = FlattenSeq(ss) \o x
  <2> HIDE DEF ss, x
  <2>1. QED
    BY <1>2, <1>6, FlatAppended
<1>10. QED
  BY <1>7, <1>8, <1>9 DEF t

\* v is the version of one of the reports.
Reported(v, s) == \E k \in 1..Len(s) : s[k].version = v
Listed(v, o) == \E k \in 1..Len(o) : o[k] = v

LEMMA OrderNone == VersionOrder(<<>>) = <<>>
<1>1. [i \in DOMAIN <<>> |-> IF \E k \in 1..(i - 1) : <<>>[k].version = <<>>[i].version
                             THEN <<>> ELSE <<<<>>[i].version>>] = <<>>
  OBVIOUS
<1>2. QED
  BY <1>1, FlatNone DEF VersionOrder

\* o lists every version of s once.
Orders(o, s, V) ==
    /\ o \in Seq(V) /\ Distinct(o)
    /\ \A v \in V : Listed(v, o) <=> Reported(v, s)

LEMMA OrderIs ==
    ASSUME NEW V, NEW R, Versioned(R, V), NEW s \in Seq(R)
    PROVE  Orders(VersionOrder(s), s, V)
<1> DEFINE P == {t \in Seq(R) : Orders(VersionOrder(t), t, V)}
<1>1. <<>> \in P
  <2>1. <<>> \in Seq(V) /\ <<>> \in Seq(R)
    BY NothingIn
  <2>2. Distinct(<<>>)
    BY DEF Distinct
  <2>3. \A v \in V : ~Listed(v, <<>>) /\ ~Reported(v, <<>>)
    BY DEF Listed, Reported
  <2>4. QED
    BY <2>1, <2>2, <2>3, OrderNone DEF Orders
<1>2. ASSUME NEW t \in Seq(R), NEW r \in R, t \in P PROVE Append(t, r) \in P
  <2> DEFINE o == VersionOrder(t)
             u == Append(t, r)
             w == r.version
  <2>1. /\ u \in Seq(R) /\ Len(t) \in Nat /\ Len(u) = Len(t) + 1
        /\ \A i \in 1..Len(t) : u[i] = t[i]
        /\ u[Len(t) + 1] = r
    BY Appended
  <2>2. w \in V
    BY DEF Versioned
  <2>3. Orders(o, t, V)
    BY <1>2
  <2>4. VersionOrder(u) = o \o (IF Reported(w, t) THEN <<>> ELSE <<w>>)
    BY OrderNext DEF Reported
  <2> HIDE DEF o, u, w
  <2>5. ASSUME NEW v \in V PROVE Reported(v, u) <=> Reported(v, t) \/ v = w
    <3>1. ASSUME NEW k \in 1..Len(t), t[k].version = v PROVE Reported(v, u)
      <4>1. k \in 1..Len(u) /\ u[k] = t[k]
        BY <2>1
      <4>2. QED
        BY <3>1, <4>1 DEF Reported
    <3>2. v = w => Reported(v, u)
      BY <2>1 DEF Reported, w
    <3>3. ASSUME NEW k \in 1..Len(u), u[k].version = v PROVE Reported(v, t) \/ v = w
      <4>1. CASE k = Len(t) + 1
        BY <2>1, <3>3, <4>1 DEF w
      <4>2. CASE k # Len(t) + 1
        <5>1. k \in 1..Len(t)
          BY <2>1, <4>2
        <5>2. t[k].version = v
          BY <2>1, <3>3, <5>1
        <5>3. QED
          BY <5>1, <5>2 DEF Reported
      <4>3. QED
        BY <4>1, <4>2
    <3>4. QED
      BY <3>1, <3>2, <3>3 DEF Reported
  <2>6. CASE Reported(w, t)
    <3>1. VersionOrder(u) = o
      BY <2>3, <2>4, <2>6, Concatenated DEF Orders
    <3>2. \A v \in V : Reported(v, u) <=> Reported(v, t)
      BY <2>5, <2>6
    <3>3. Orders(o, u, V)
      BY <2>3, <3>2 DEF Orders
    <3>4. QED
      BY <2>1, <3>1, <3>3 DEF u
  <2>7. CASE ~Reported(w, t)
    <3> DEFINE p == Append(o, w)
    <3>1. o \in Seq(V) /\ Distinct(o) /\ ~Listed(w, o)
      BY <2>2, <2>3, <2>7 DEF Orders
    <3>2. VersionOrder(u) = p
      BY <2>2, <2>4, <2>7, <3>1
    <3>3. /\ p \in Seq(V) /\ Len(o) \in Nat /\ Len(p) = Len(o) + 1
          /\ \A i \in 1..Len(o) : p[i] = o[i]
          /\ p[Len(o) + 1] = w
      BY <2>2, <3>1, Appended
    <3> HIDE DEF p
    <3>4. Distinct(p)
      <4> SUFFICES ASSUME NEW i \in 1..Len(p), NEW j \in 1..Len(p), p[i] = p[j] PROVE i = j
        BY DEF Distinct
      <4>1. CASE i # Len(o) + 1 /\ j # Len(o) + 1
        <5>1. i \in 1..Len(o) /\ j \in 1..Len(o)
          BY <3>3, <4>1
        <5>2. o[i] = o[j]
          BY <3>3, <5>1
        <5>3. QED
          BY <3>1, <5>1, <5>2 DEF Distinct
      <4>2. CASE i = Len(o) + 1 /\ j # Len(o) + 1
        <5>1. j \in 1..Len(o) /\ o[j] = w
          BY <3>3, <4>2
        <5>2. QED
          BY <3>1, <5>1 DEF Listed
      <4>3. CASE i # Len(o) + 1 /\ j = Len(o) + 1
        <5>1. i \in 1..Len(o) /\ o[i] = w
          BY <3>3, <4>3
        <5>2. QED
          BY <3>1, <5>1 DEF Listed
      <4>4. QED
        BY <4>1, <4>2, <4>3
    <3>5. ASSUME NEW v \in V PROVE Listed(v, p) <=> Listed(v, o) \/ v = w
      <4>1. ASSUME NEW k \in 1..Len(o), o[k] = v PROVE Listed(v, p)
        <5>1. k \in 1..Len(p) /\ p[k] = v
          BY <3>3, <4>1
        <5>2. QED
          BY <5>1 DEF Listed
      <4>2. v = w => Listed(v, p)
        BY <3>3 DEF Listed
      <4>3. ASSUME NEW k \in 1..Len(p), p[k] = v PROVE Listed(v, o) \/ v = w
        <5>1. CASE k = Len(o) + 1
          BY <3>3, <4>3, <5>1
        <5>2. CASE k # Len(o) + 1
          <6>1. k \in 1..Len(o)
            BY <3>3, <5>2
          <6>2. o[k] = v
            BY <3>3, <4>3, <6>1
          <6>3. QED
            BY <6>1, <6>2 DEF Listed
        <5>3. QED
          BY <5>1, <5>2
      <4>4. QED
        BY <4>1, <4>2, <4>3 DEF Listed
    <3>6. \A v \in V : Listed(v, p) <=> Reported(v, u)
      BY <2>3, <2>5, <3>5 DEF Orders
    <3>7. Orders(p, u, V)
      BY <3>3, <3>4, <3>6 DEF Orders
    <3>8. QED
      BY <2>1, <3>2, <3>7 DEF u
  <2>8. QED
    BY <2>6, <2>7
<1>3. Seq(R) \subseteq P
  <2> HIDE DEF P
  <2>1. QED
    BY <1>1, <1>2, Growing
<1>4. QED
  BY <1>3

LEMMA OrderLength ==
    ASSUME NEW V, NEW R, Versioned(R, V), NEW s \in Seq(R)
    PROVE  Len(VersionOrder(s)) = Cardinality(VersionsOf(s))
<1> DEFINE o == VersionOrder(s)
           S == VersionsOf(s)
           m == Len(o)
<1>1. Orders(o, s, V)
  BY OrderIs
<1>2. m \in Nat /\ o \in [1..m -> V]
  BY <1>1 DEF Orders
<1>3. S = {v \in V : Reported(v, s)}
  <2>1. DOMAIN s = 1..Len(s) /\ \A i \in 1..Len(s) : s[i].version \in V
    BY DEF Versioned
  <2>2. QED
    BY <2>1 DEF VersionsOf, Reported
<1>4. \A i \in 1..m : o[i] \in S
  BY <1>1, <1>2, <1>3 DEF Orders, Listed
<1> HIDE DEF o, S, m
<1>5. o \in [1..m -> S]
  BY <1>2, <1>4
<1>6. \A v \in S : \E k \in 1..m : o[k] = v
  BY <1>1, <1>3 DEF Orders, Listed, m
<1>7. o \in Bijection(1..m, S)
  <2>1. \A i, j \in 1..m : o[i] = o[j] => i = j
    BY <1>1 DEF Orders, Distinct, m
  <2>2. QED
    BY <1>5, <1>6, <2>1 DEF Bijection, Injection, Surjection, IsInjective
<1>8. ExistsBijection(1..m, S)
  BY <1>7 DEF ExistsBijection
<1>9. IsFiniteSet(1..m) /\ Cardinality(1..m) = m
  BY <1>2, FS_Interval
<1>10. Cardinality(S) = m
  BY <1>8, <1>9, FS_Bijection
<1>11. QED
  BY <1>10 DEF o, S, m

-----------------------------------------------------------------------------
(* Reading a digest.                                                        *)

Unread == [version |-> "none", read |-> <<>>]

ReadTo(f, d, n) == f = [i \in 0..n |-> IF i = 0 THEN Unread ELSE ReadEntry(f[i - 1], d[i])]

LEMMA ReadExists ==
    ASSUME NEW d, NEW n \in Nat
    PROVE  \E f : ReadTo(f, d, n)
<1> DEFINE W == {m \in Nat : ~\E f : ReadTo(f, d, m)}
<1> SUFFICES ASSUME W # {} PROVE FALSE
  OBVIOUS
<1>1. PICK m \in W : \A k \in W : m <= k
  <2>1. W \in SUBSET Nat
    OBVIOUS
  <2> HIDE DEF W
  <2>2. QED
    BY <2>1, Least
<1>2. CASE m = 0
  <2>1. ReadTo([i \in 0..0 |-> Unread], d, 0)
    BY DEF ReadTo
  <2>2. QED
    BY <1>2, <2>1
<1>3. CASE m # 0
  <2>1. m - 1 \in Nat /\ m - 1 \notin W
    BY <1>1, <1>3
  <2>2. PICK f : ReadTo(f, d, m - 1)
    BY <2>1
  <2> DEFINE g == [i \in 0..m |-> IF i = 0 THEN Unread ELSE ReadEntry(f[i - 1], d[i])]
  <2>3. ASSUME NEW i \in 0..m, i # 0 PROVE f[i - 1] = g[i - 1]
    <3>1. i - 1 \in 0..(m - 1) /\ i - 1 \in 0..m
      BY <2>1, <2>3
    <3>2. f[i - 1] = IF i - 1 = 0 THEN Unread ELSE ReadEntry(f[(i - 1) - 1], d[i - 1])
      BY <2>2, <3>1 DEF ReadTo
    <3>3. QED
      BY <3>1, <3>2
  <2>4. ReadTo(g, d, m)
    BY <2>3 DEF ReadTo
  <2>5. QED
    BY <2>4
<1>4. QED
  BY <1>2, <1>3

LEMMA ReadDef ==
    ASSUME NEW d, Len(d) \in Nat
    PROVE  \E f : ReadTo(f, d, Len(d)) /\ Reading(d) = f[Len(d)]
<1>1. PICK g : ReadTo(g, d, Len(d))
  BY ReadExists
<1>2. Reading(d) = (CHOOSE f : ReadTo(f, d, Len(d)))[Len(d)]
  BY DEF Reading, ReadTo, Unread
<1>3. QED
  BY <1>1, <1>2

LEMMA ReadAgree ==
    ASSUME NEW n \in Nat, NEW d, NEW e, SameTo(d, e, n),
           NEW f, ReadTo(f, d, n), NEW g, ReadTo(g, e, n + 1)
    PROVE  \A i \in 0..n : f[i] = g[i]
<1> DEFINE W == {i \in Nat : i \in 0..n /\ f[i] # g[i]}
<1> SUFFICES ASSUME W # {} PROVE FALSE
  OBVIOUS
<1>1. PICK w \in W : \A j \in W : w <= j
  <2>1. W \in SUBSET Nat
    OBVIOUS
  <2> HIDE DEF W
  <2>2. QED
    BY <2>1, Least
<1>2. w \in 0..n /\ f[w] # g[w]
  BY <1>1
<1>3. /\ f[w] = IF w = 0 THEN Unread ELSE ReadEntry(f[w - 1], d[w])
      /\ g[w] = IF w = 0 THEN Unread ELSE ReadEntry(g[w - 1], e[w])
  <2>1. w \in 0..(n + 1)
    BY <1>2
  <2>2. f[w] = IF w = 0 THEN Unread ELSE ReadEntry(f[w - 1], d[w])
    BY <1>2 DEF ReadTo
  <2>3. g[w] = IF w = 0 THEN Unread ELSE ReadEntry(g[w - 1], e[w])
    BY <2>1 DEF ReadTo
  <2>4. QED
    BY <2>2, <2>3
<1>4. w # 0
  BY <1>2, <1>3
<1>5. w - 1 \in 0..n /\ w - 1 \notin W /\ w \in 1..n
  BY <1>1, <1>2, <1>4
<1>6. f[w - 1] = g[w - 1] /\ d[w] = e[w]
  BY <1>5 DEF SameTo
<1>7. QED
  BY <1>2, <1>3, <1>4, <1>6

LEMMA ReadNone == Reading(<<>>) = Unread
<1>1. Len(<<>>) = 0
  OBVIOUS
<1>2. PICK f : ReadTo(f, <<>>, 0) /\ Reading(<<>>) = f[0]
  BY <1>1, ReadDef
<1>3. QED
  BY <1>2 DEF ReadTo

\* The next entry is read from where the others leave off.
LEMMA ReadNext ==
    ASSUME NEW E, NEW d \in Seq(E), NEW e \in E
    PROVE  Reading(Append(d, e)) = ReadEntry(Reading(d), e)
<1> DEFINE n == Len(d)
           t == Append(d, e)
<1>1. n \in Nat /\ Len(t) = n + 1 /\ t[n + 1] = e /\ SameTo(d, t, n)
  BY Appended DEF SameTo
<1> HIDE DEF t
<1>2. PICK f : ReadTo(f, d, n) /\ Reading(d) = f[n]
  BY <1>1, ReadDef
<1> HIDE DEF n
<1>3. PICK g : ReadTo(g, t, n + 1) /\ Reading(t) = g[n + 1]
  <2>1. Len(t) \in Nat
    BY <1>1
  <2>2. \E g : ReadTo(g, t, Len(t)) /\ Reading(t) = g[Len(t)]
    BY <2>1, ReadDef
  <2>3. QED
    BY <1>1, <2>2
<1>4. \A i \in 0..n : f[i] = g[i]
  BY <1>1, <1>2, <1>3, ReadAgree
<1>5. f[n] = g[n]
  BY <1>1, <1>4
<1>6. g[n + 1] = ReadEntry(g[n], e)
  <2>1. n + 1 \in 0..(n + 1) /\ n + 1 # 0 /\ (n + 1) - 1 = n
    BY <1>1
  <2>2. g[n + 1] = IF n + 1 = 0 THEN Unread ELSE ReadEntry(g[(n + 1) - 1], t[n + 1])
    BY <1>3, <2>1 DEF ReadTo
  <2>3. QED
    BY <1>1, <2>1, <2>2
<1>7. QED
  BY <1>2, <1>3, <1>5, <1>6 DEF t

-----------------------------------------------------------------------------
(* The entries of a digest.                                                 *)

\* The reports of RunAll, and what their sections and their findings are made of.
ReportsOf(V, N, L, F) == [version : V, task : N, lines : Seq(L), findings : Seq(F)]
KeptReports(V, N, L) == [version : V, task : N, lines : Seq(L)]
VersionEntriesOf(V) == {<<"version", v>> : v \in V}
TaskEntriesOf(N) == {<<"task", t>> : t \in N}
LineEntriesOf(L) == {<<"line", l>> : l \in L}
SectionEntries(V, N, L) == VersionEntriesOf(V) \cup TaskEntriesOf(N) \cup LineEntriesOf(L)
FindingsHead == <<"findings">>
FindingEntriesOf(V, N, F) == {<<"finding", v, t, f>> : v \in V, t \in N, f \in F}
EntriesOf(V, N, L, F) ==
    SectionEntries(V, N, L) \cup FindingEntriesOf(V, N, F) \cup {FindingsHead}

\* What has been read, with u the version of the section.
Read(u, q) == [version |-> u, read |-> q]

LEMMA ReadVersion ==
    ASSUME NEW E, NEW d \in Seq(E), NEW v, <<"version", v>> \in E, NEW u, NEW q,
           Reading(d) = Read(u, q)
    PROVE  Reading(Append(d, <<"version", v>>)) = Read(v, q)
<1> DEFINE e == <<"version", v>>
<1>1. e[1] = "version" /\ e[2] = v
  OBVIOUS
<1> HIDE DEF e
<1>2. e \in E
  BY DEF e
<1>3. Reading(Append(d, e)) = ReadEntry(Read(u, q), e)
  BY <1>2, ReadNext
<1>4. ReadEntry(Read(u, q), e) = Read(v, q)
  BY <1>1 DEF ReadEntry, Read
<1>5. QED
  BY <1>3, <1>4 DEF e

\* The last report that has been read gets further lines.
KeptSo(v, t, l) == [version |-> v, task |-> t, lines |-> l]

LEMMA ReadTask ==
    ASSUME NEW E, NEW d \in Seq(E), NEW t, <<"task", t>> \in E, NEW v, NEW q,
           Reading(d) = Read(v, q)
    PROVE  Reading(Append(d, <<"task", t>>)) = Read(v, Append(q, KeptSo(v, t, <<>>)))
<1> DEFINE e == <<"task", t>>
<1>1. e[1] = "task" /\ e[2] = t
  OBVIOUS
<1> HIDE DEF e
<1>2. e \in E
  BY DEF e
<1>3. Reading(Append(d, e)) = ReadEntry(Read(v, q), e)
  BY <1>2, ReadNext
<1>4. ReadEntry(Read(v, q), e) = Read(v, Append(q, KeptSo(v, t, <<>>)))
  BY <1>1 DEF ReadEntry, Read, KeptSo
<1>5. QED
  BY <1>3, <1>4 DEF e

LEMMA ReadLine ==
    ASSUME NEW E, NEW d \in Seq(E), NEW x, <<"line", x>> \in E,
           NEW K, NEW q \in Seq(K), NEW v, NEW t, NEW l,
           KeptSo(v, t, l) \in K, KeptSo(v, t, Append(l, x)) \in K,
           Reading(d) = Read(v, Append(q, KeptSo(v, t, l)))
    PROVE  Reading(Append(d, <<"line", x>>)) = Read(v, Append(q, KeptSo(v, t, Append(l, x))))
<1> DEFINE e == <<"line", x>>
           k == KeptSo(v, t, l)
           p == Append(q, k)
           m == KeptSo(v, t, Append(l, x))
           n == Len(q) + 1
<1>1. e[1] = "line" /\ e[2] = x
  OBVIOUS
<1>2. /\ Len(p) = n /\ n \in Nat /\ DOMAIN p = 1..n /\ p[n] = k
      /\ p = [i \in 1..n |-> IF i = n THEN k ELSE q[i]]
  <2> HIDE DEF k
  <2>1. k \in K
    BY DEF k
  <2>2. QED
    BY <2>1, AppendIs, Appended
<1> HIDE DEF e
<1>3. e \in E
  BY DEF e
<1>4. Reading(Append(d, e)) = ReadEntry(Read(v, p), e)
  BY <1>3, ReadNext
<1>5. ReadEntry(Read(v, p), e)
      = [Read(v, p) EXCEPT !.read[Len(Read(v, p).read)].lines = Append(@, e[2])]
  BY <1>1 DEF ReadEntry
<1>6. Append(q, m) = [p EXCEPT ![n] = m]
  <2>1. m \in K
    OBVIOUS
  <2> HIDE DEF m, p, k
  <2>2. Append(q, m) = [i \in 1..n |-> IF i = n THEN m ELSE q[i]]
    BY <2>1, AppendIs
  <2> HIDE DEF n
  <2>3. [p EXCEPT ![n] = m] = [i \in 1..n |-> IF i = n THEN m ELSE q[i]]
    BY <1>2
  <2>4. QED
    BY <2>2, <2>3
<1>7. m = [k EXCEPT !.lines = Append(l, x)]
  <2>1. \A z : KeptSo(v, t, z) = [KeptSo(v, t, l) EXCEPT !.lines = z]
    BY DEF KeptSo
  <2>2. QED
    BY <2>1
<1>8. k.lines = l
  BY DEF KeptSo
<1> HIDE DEF p, k, n, m
<1>9. [Read(v, p) EXCEPT !.read[Len(Read(v, p).read)].lines = Append(@, e[2])]
      = Read(v, [p EXCEPT ![n] = [k EXCEPT !.lines = Append(l, x)]])
  <2>1. Read(v, p).read = p /\ Len(Read(v, p).read) = n
    BY <1>2 DEF Read
  <2>2. [Read(v, p) EXCEPT !.read[n].lines = Append(@, x)]
        = [Read(v, p) EXCEPT !.read = [p EXCEPT ![n] = [p[n] EXCEPT !.lines = Append(p[n].lines, x)]]]
    BY <2>1
  <2>3. [Read(v, p) EXCEPT !.read[n].lines = Append(@, x)]
        = [Read(v, p) EXCEPT !.read = [p EXCEPT ![n] = [k EXCEPT !.lines = Append(l, x)]]]
    BY <1>2, <1>8, <2>2
  <2>4. \A z : [Read(v, p) EXCEPT !.read = z] = Read(v, z)
    BY DEF Read
  <2>5. QED
    BY <1>1, <2>1, <2>3, <2>4
<1>10. QED
  BY <1>4, <1>5, <1>6, <1>7, <1>9 DEF p, k, e, m

-----------------------------------------------------------------------------
(* What a reader of a digest reads.                                         *)

LinesFrom(l) == [i \in DOMAIN l |-> <<"line", l[i]>>]

LEMMA LinesAre ==
    ASSUME NEW L, NEW l \in Seq(L), NEW E, LineEntriesOf(L) \subseteq E
    PROVE  LinesFrom(l) \in Seq(E)
<1>1. \A y \in L : <<"line", y>> \in E
  BY DEF LineEntriesOf
<1>2. QED
  BY <1>1 DEF LinesFrom

LEMMA LinesNext ==
    ASSUME NEW L, NEW l \in Seq(L), NEW x \in L, NEW E, LineEntriesOf(L) \subseteq E
    PROVE  /\ LinesFrom(<<>>) = <<>> /\ LinesFrom(l) \in Seq(E) /\ <<"line", x>> \in E
           /\ LinesFrom(Append(l, x)) = Append(LinesFrom(l), <<"line", x>>)
<1> DEFINE W(y) == <<"line", y>>
<1>1. \A y \in L : W(y) \in E
  BY DEF LineEntriesOf
<1>2. LinesFrom(l) = [i \in DOMAIN l |-> W(l[i])]
  BY DEF LinesFrom
<1>3. LinesFrom(Append(l, x)) = [i \in DOMAIN Append(l, x) |-> W(Append(l, x)[i])]
  BY DEF LinesFrom
<1>4. LinesFrom(<<>>) = <<>>
  BY DEF LinesFrom
<1> HIDE DEF W
<1>5. LinesFrom(l) \in Seq(E) /\ Len(LinesFrom(l)) = Len(l)
  BY <1>1, <1>2
<1>6. /\ Len(l) \in Nat /\ DOMAIN l = 1..Len(l) /\ DOMAIN Append(l, x) = 1..(Len(l) + 1)
      /\ \A i \in 1..Len(l) : Append(l, x)[i] = l[i]
      /\ Append(l, x)[Len(l) + 1] = x
  BY Appended
<1>7. Append(LinesFrom(l), W(x))
      = [i \in 1..(Len(l) + 1) |-> IF i = Len(l) + 1 THEN W(x) ELSE LinesFrom(l)[i]]
  <2>1. W(x) \in E
    BY <1>1
  <2>2. QED
    BY <1>5, <2>1, AppendIs
<1>8. [i \in DOMAIN Append(l, x) |-> W(Append(l, x)[i])]
      = [i \in 1..(Len(l) + 1) |-> IF i = Len(l) + 1 THEN W(x) ELSE LinesFrom(l)[i]]
  <2>1. \A i \in 1..Len(l) : LinesFrom(l)[i] = W(l[i])
    BY <1>2, <1>6
  <2>2. \A i \in 1..(Len(l) + 1) :
           W(Append(l, x)[i]) = IF i = Len(l) + 1 THEN W(x) ELSE LinesFrom(l)[i]
    BY <1>6, <2>1
  <2>3. QED
    BY <1>6, <2>2
<1>9. QED
  BY <1>1, <1>3, <1>4, <1>5, <1>7, <1>8 DEF W

LEMMA LinesRead ==
    ASSUME NEW V, NEW N, NEW L, NEW E, LineEntriesOf(L) \subseteq E, NEW d \in Seq(E),
           NEW q \in Seq(KeptReports(V, N, L)), NEW v \in V, NEW t \in N, NEW l \in Seq(L),
           Reading(d) = Read(v, Append(q, KeptSo(v, t, <<>>)))
    PROVE  /\ d \o LinesFrom(l) \in Seq(E)
           /\ Reading(d \o LinesFrom(l)) = Read(v, Append(q, KeptSo(v, t, l)))
<1> DEFINE K == KeptReports(V, N, L)
           P == {m \in Seq(L) : Reading(d \o LinesFrom(m)) = Read(v, Append(q, KeptSo(v, t, m)))}
<1>1. \A m \in Seq(L) : KeptSo(v, t, m) \in K
  BY DEF KeptReports, KeptSo
<1>2. LinesFrom(<<>>) = <<>> /\ <<>> \in Seq(L)
  BY NothingIn DEF LinesFrom
<1>3. <<>> \in P
  BY <1>2, Concatenated
<1>4. ASSUME NEW m \in Seq(L), NEW x \in L, m \in P PROVE Append(m, x) \in P
  <2> DEFINE e == <<"line", x>>
             c == LinesFrom(m)
  <2>1. c \in Seq(E) /\ e \in E /\ LinesFrom(Append(m, x)) = Append(c, e)
    BY LinesNext
  <2>2. Append(m, x) \in Seq(L)
    BY Appended
  <2>3. KeptSo(v, t, m) \in K /\ KeptSo(v, t, Append(m, x)) \in K
    BY <1>1, <2>2
  <2>4. Reading(d \o c) = Read(v, Append(q, KeptSo(v, t, m)))
    BY <1>4
  <2> HIDE DEF c
  <2>5. d \o c \in Seq(E) /\ d \o Append(c, e) = Append(d \o c, e)
    <3> HIDE DEF e
    <3>1. QED
      BY <2>1, Concatenated
  <2>6. Reading(Append(d \o c, <<"line", x>>)) = Read(v, Append(q, KeptSo(v, t, Append(m, x))))
    <3> DEFINE g == d \o c
    <3>1. g \in Seq(E) /\ <<"line", x>> \in E /\ Reading(g) = Read(v, Append(q, KeptSo(v, t, m)))
      BY <2>1, <2>4, <2>5
    <3> HIDE DEF g, K, P
    <3>2. q \in Seq(K)
      BY DEF K
    <3>3. Reading(Append(g, <<"line", x>>)) = Read(v, Append(q, KeptSo(v, t, Append(m, x))))
      BY <2>3, <3>1, <3>2, ReadLine
    <3>4. QED
      BY <3>3 DEF g
  <2>7. QED
    BY <2>1, <2>2, <2>5, <2>6
<1>5. Seq(L) \subseteq P
  <2> HIDE DEF P
  <2>1. QED
    BY <1>3, <1>4, Growing
<1>6. LinesFrom(l) \in Seq(E)
  BY LinesAre
<1>7. QED
  BY <1>5, <1>6, Concatenated

LEMMA ReportRead ==
    ASSUME NEW V, NEW N, NEW L, NEW F, NEW E,
           LineEntriesOf(L) \subseteq E, TaskEntriesOf(N) \subseteq E, NEW d \in Seq(E),
           NEW q \in Seq(KeptReports(V, N, L)), NEW r \in ReportsOf(V, N, L, F),
           Reading(d) = Read(r.version, q)
    PROVE  /\ ReportEntries(r) \in Seq(E)
           /\ Reading(d \o ReportEntries(r))
              = Read(r.version, Append(q, KeptSo(r.version, r.task, r.lines)))
<1>1. r.version \in V /\ r.task \in N /\ r.lines \in Seq(L)
  BY DEF ReportsOf
<1> DEFINE v == r.version
           t == r.task
           l == r.lines
           e == <<"task", t>>
           c == LinesFrom(l)
           g == Append(d, e)
<1>2. e \in E
  BY <1>1 DEF TaskEntriesOf
<1>3. ReportEntries(r) = <<e>> \o c
  BY DEF ReportEntries, LinesFrom
<1>4. c \in Seq(E)
  BY <1>1, LinesAre
<1>5. Reading(d) = Read(v, q)
  OBVIOUS
<1> HIDE DEF v, t, l, c
<1>6. Reading(g) = Read(v, Append(q, KeptSo(v, t, <<>>)))
  BY <1>2, <1>5, ReadTask
<1>7. g \in Seq(E)
  BY <1>2, Appended
<1>8. <<e>> \o c \in Seq(E) /\ d \o (<<e>> \o c) = g \o c
  <2> HIDE DEF e
  <2>1. <<e>> \in Seq(E) /\ d \o <<e>> = Append(d, e)
    BY <1>2
  <2>2. <<e>> \o c \in Seq(E) /\ (d \o <<e>>) \o c = d \o (<<e>> \o c)
    BY <1>4, <2>1, Concatenated
  <2>3. QED
    BY <2>1, <2>2
<1> HIDE DEF g, e
<1>9. v \in V /\ t \in N /\ l \in Seq(L)
  BY <1>1 DEF v, t, l
<1>10. Reading(g \o LinesFrom(l)) = Read(v, Append(q, KeptSo(v, t, l)))
  BY <1>6, <1>7, <1>9, LinesRead
<1>11. QED
  BY <1>3, <1>8, <1>10 DEF v, t, l, c

-----------------------------------------------------------------------------
(* The loops of Render, turn by turn.                                       *)

TaskTurn(R) == [r \in R |-> ReportEntries(r)]
KeptTurn(R) == [r \in R |-> <<KeptSo(r.version, r.task, r.lines)>>]
OwnTurn(R, v) == [r \in R |-> IF r.version = v THEN <<r>> ELSE <<>>]
OfVersion(R, v) == {r \in R : r.version = v}

LEMMA ByVersionIs ==
    ASSUME NEW R, NEW s \in Seq(R), NEW v
    PROVE  /\ ByVersion(s, v) = Gather(OwnTurn(R, v), s)
           /\ Turns(OwnTurn(R, v), R, R)
           /\ ByVersion(s, v) \in Seq(OfVersion(R, v)) /\ ByVersion(s, v) \in Seq(R)
<1>1. \A i \in DOMAIN s : s[i] \in R
  OBVIOUS
<1>2. [i \in DOMAIN s |-> IF s[i].version = v THEN <<s[i]>> ELSE <<>>]
      = [i \in DOMAIN s |-> OwnTurn(R, v)[s[i]]]
  BY <1>1 DEF OwnTurn
<1>3. ByVersion(s, v) = Gather(OwnTurn(R, v), s)
  BY <1>2 DEF ByVersion, Gather
<1>4. Turns(OwnTurn(R, v), R, R)
  BY DEF Turns, OwnTurn
<1>5. Turns(OwnTurn(R, v), R, OfVersion(R, v))
  <2>1. ASSUME NEW r \in R
        PROVE  (IF r.version = v THEN <<r>> ELSE <<>>) \in Seq(OfVersion(R, v))
    <3>1. r.version = v => r \in OfVersion(R, v)
      BY DEF OfVersion
    <3> HIDE DEF OfVersion
    <3>2. QED
      BY <3>1
  <2>2. QED
    BY <2>1 DEF Turns, OwnTurn
<1>6. Gather(OwnTurn(R, v), s) \in Seq(R)
  BY <1>4, GatherType
<1>7. Gather(OwnTurn(R, v), s) \in Seq(OfVersion(R, v))
  BY <1>5, GatherType
<1>8. QED
  BY <1>3, <1>4, <1>6, <1>7

LEMMA TurnsOfReports ==
    ASSUME NEW V, NEW N, NEW L, NEW F, NEW E,
           LineEntriesOf(L) \subseteq E, TaskEntriesOf(N) \subseteq E
    PROVE  /\ Turns(TaskTurn(ReportsOf(V, N, L, F)), ReportsOf(V, N, L, F), E)
           /\ Turns(KeptTurn(ReportsOf(V, N, L, F)), ReportsOf(V, N, L, F), KeptReports(V, N, L))
<1>1. ASSUME NEW r \in ReportsOf(V, N, L, F)
      PROVE  ReportEntries(r) \in Seq(E) /\ KeptSo(r.version, r.task, r.lines) \in KeptReports(V, N, L)
  <2>1. r.version \in V /\ r.task \in N /\ r.lines \in Seq(L)
    BY DEF ReportsOf
  <2> DEFINE e == <<"task", r.task>>
  <2>2. e \in E
    BY <2>1 DEF TaskEntriesOf
  <2>3. LinesFrom(r.lines) \in Seq(E)
    BY <2>1, LinesAre
  <2>4. ReportEntries(r) = <<e>> \o LinesFrom(r.lines)
    BY DEF ReportEntries, LinesFrom
  <2> HIDE DEF e
  <2>5. <<e>> \in Seq(E)
    BY <2>2
  <2>6. <<e>> \o LinesFrom(r.lines) \in Seq(E)
    BY <2>3, <2>5, Concatenated
  <2>7. QED
    BY <2>1, <2>4, <2>6 DEF KeptSo, KeptReports
<1> DEFINE R == ReportsOf(V, N, L, F)
           K == KeptReports(V, N, L)
<1>2. \A r \in R : ReportEntries(r) \in Seq(E) /\ KeptSo(r.version, r.task, r.lines) \in K
  BY <1>1
<1> HIDE DEF R, K
<1>3. Turns(TaskTurn(R), R, E) /\ Turns(KeptTurn(R), R, K)
  BY <1>2 DEF Turns, TaskTurn, KeptTurn
<1>4. QED
  BY <1>3 DEF R, K

\* E has the entries that sections are made of.
HasSections(E, V, N, L) ==
    VersionEntriesOf(V) \subseteq E /\ TaskEntriesOf(N) \subseteq E /\ LineEntriesOf(L) \subseteq E

LEMMA OneMore ==
    ASSUME NEW A, NEW s \in Seq(A), NEW t \in Seq(A), NEW x \in A
    PROVE  s \o (t \o <<x>>) = Append(s \o t, x)
<1>1. t \o <<x>> = Append(t, x)
  OBVIOUS
<1>2. QED
  BY <1>1, Concatenated

\* The reports of one section are read one after the other.
LEMMA OwnRead ==
    ASSUME NEW V, NEW N, NEW L, NEW F, NEW E, HasSections(E, V, N, L), NEW d \in Seq(E),
           NEW q \in Seq(KeptReports(V, N, L)), NEW v \in V,
           NEW own \in Seq(OfVersion(ReportsOf(V, N, L, F), v)), Reading(d) = Read(v, q)
    PROVE  /\ d \o Gather(TaskTurn(ReportsOf(V, N, L, F)), own) \in Seq(E)
           /\ q \o Gather(KeptTurn(ReportsOf(V, N, L, F)), own) \in Seq(KeptReports(V, N, L))
           /\ Reading(d \o Gather(TaskTurn(ReportsOf(V, N, L, F)), own))
              = Read(v, q \o Gather(KeptTurn(ReportsOf(V, N, L, F)), own))
<1> DEFINE R == ReportsOf(V, N, L, F)
           K == KeptReports(V, N, L)
           O == OfVersion(R, v)
           g == TaskTurn(R)
           h == KeptTurn(R)
           P == {s \in Seq(O) : Reading(d \o Gather(g, s)) = Read(v, q \o Gather(h, s))}
<1>1. Turns(g, R, E) /\ Turns(h, R, K)
  BY TurnsOfReports DEF HasSections
<1>2. \A r \in O : r \in R /\ r.version = v
  BY DEF OfVersion
<1>3. \A r \in R : g[r] = ReportEntries(r) /\ h[r] = <<KeptSo(r.version, r.task, r.lines)>>
  BY DEF TaskTurn, KeptTurn
<1>4. \A r \in R : KeptSo(r.version, r.task, r.lines) \in K
  BY DEF ReportsOf, KeptReports, KeptSo
<1>5. ASSUME NEW D \in Seq(E), NEW Q \in Seq(K), NEW r \in R, Reading(D) = Read(r.version, Q)
      PROVE  /\ ReportEntries(r) \in Seq(E)
             /\ Reading(D \o ReportEntries(r))
                = Read(r.version, Append(Q, KeptSo(r.version, r.task, r.lines)))
  BY <1>5, ReportRead DEF HasSections
<1>6. q \in Seq(K) /\ Reading(d) = Read(v, q) /\ own \in Seq(O)
  OBVIOUS
<1> HIDE DEF R, K, g, h
<1>7. ASSUME NEW s \in Seq(O)
      PROVE  s \in Seq(R) /\ Gather(g, s) \in Seq(E) /\ Gather(h, s) \in Seq(K)
  <2> HIDE DEF O
  <2>1. s \in Seq(R)
    BY <1>2
  <2>2. QED
    BY <1>1, <2>1, GatherType
<1>8. <<>> \in P
  <2>1. Gather(g, <<>>) = <<>> /\ Gather(h, <<>>) = <<>> /\ <<>> \in Seq(O)
    BY NothingIn, GatherNothing
  <2>2. d \o <<>> = d /\ q \o <<>> = q
    BY <1>6, Concatenated
  <2>3. QED
    BY <1>6, <2>1, <2>2
<1>9. ASSUME NEW s \in Seq(O), NEW r \in O, s \in P PROVE Append(s, r) \in P
  <2> DEFINE G == Gather(g, s)
             H == Gather(h, s)
             k == KeptSo(r.version, r.task, r.lines)
  <2>1. Reading(d \o G) = Read(v, q \o H)
    BY <1>9
  <2> HIDE DEF P
  <2>2. s \in Seq(R) /\ G \in Seq(E) /\ H \in Seq(K) /\ r \in R /\ r.version = v /\ k \in K
    BY <1>2, <1>4, <1>7
  <2>3. Gather(g, Append(s, r)) = G \o ReportEntries(r)
    <3>1. Gather(g, Append(s, r)) = Gather(g, s) \o g[r]
      BY <1>1, <2>2, GatherNext
    <3>2. QED
      BY <1>3, <2>2, <3>1
  <2>4. Gather(h, Append(s, r)) = H \o <<k>>
    <3>1. Gather(h, Append(s, r)) = Gather(h, s) \o h[r]
      BY <1>1, <2>2, GatherNext
    <3>2. QED
      BY <1>3, <2>2, <3>1
  <2>5. Append(s, r) \in Seq(O)
    BY Appended
  <2> HIDE DEF G, H, k, O
  <2>6. d \o G \in Seq(E) /\ q \o H \in Seq(K)
    BY <1>6, <2>2, Concatenated
  <2>7. /\ ReportEntries(r) \in Seq(E)
        /\ Reading((d \o G) \o ReportEntries(r)) = Read(v, Append(q \o H, k))
    <3> DEFINE D == d \o G
               Q == q \o H
    <3>1. D \in Seq(E) /\ Q \in Seq(K) /\ r \in R /\ Reading(D) = Read(r.version, Q)
      BY <2>1, <2>2, <2>6
    <3> HIDE DEF D, Q
    <3>2. /\ ReportEntries(r) \in Seq(E)
          /\ Reading(D \o ReportEntries(r))
             = Read(r.version, Append(Q, KeptSo(r.version, r.task, r.lines)))
      BY <1>5, <3>1
    <3>3. QED
      BY <2>2, <3>2 DEF D, Q, k
  <2>8. (d \o G) \o ReportEntries(r) = d \o (G \o ReportEntries(r))
    <3> DEFINE c == ReportEntries(r)
    <3>1. G \in Seq(E) /\ c \in Seq(E)
      BY <2>2, <2>7
    <3> HIDE DEF c
    <3>2. Associates(E)
      BY Associative
    <3>3. QED
      BY <3>1, <3>2 DEF Associates, c
  <2>9. q \o (H \o <<k>>) = Append(q \o H, k)
    BY <1>6, <2>2, OneMore
  <2>10. Reading(d \o Gather(g, Append(s, r))) = Read(v, q \o Gather(h, Append(s, r)))
    BY <2>3, <2>4, <2>7, <2>8, <2>9
  <2>11. QED
    BY <2>5, <2>10 DEF P, O
<1>10. Seq(O) \subseteq P
  <2> HIDE DEF P, O
  <2>1. QED
    BY <1>8, <1>9, Growing
<1>11. Reading(d \o Gather(g, own)) = Read(v, q \o Gather(h, own))
  BY <1>6, <1>10
<1>12. d \o Gather(g, own) \in Seq(E) /\ q \o Gather(h, own) \in Seq(K)
  BY <1>6, <1>7, Concatenated
<1>13. QED
  BY <1>11, <1>12 DEF R, K, g, h

\* The reports that the section of v has.
KeptFor(R, s, v) == Gather(KeptTurn(R), ByVersion(s, v))

LEMMA SectionRead ==
    ASSUME NEW V, NEW N, NEW L, NEW F, NEW E, HasSections(E, V, N, L), NEW d \in Seq(E),
           NEW q \in Seq(KeptReports(V, N, L)), NEW v \in V,
           NEW s \in Seq(ReportsOf(V, N, L, F)), NEW u, Reading(d) = Read(u, q)
    PROVE  /\ Section(s, v) \in Seq(E)
           /\ KeptFor(ReportsOf(V, N, L, F), s, v) \in Seq(KeptReports(V, N, L))
           /\ Reading(d \o Section(s, v))
              = Read(v, q \o KeptFor(ReportsOf(V, N, L, F), s, v))
<1> DEFINE R == ReportsOf(V, N, L, F)
           K == KeptReports(V, N, L)
           e == <<"version", v>>
           g == Append(d, e)
           own == ByVersion(s, v)
           G == Gather(TaskTurn(R), own)
<1>1. e \in E
  BY DEF HasSections, VersionEntriesOf
<1>2. own \in Seq(OfVersion(R, v)) /\ own \in Seq(R)
  BY ByVersionIs
<1>3. g \in Seq(E) /\ Reading(g) = Read(v, q)
  BY <1>1, Appended, ReadVersion
<1>4. Turns(TaskTurn(R), R, E) /\ Turns(KeptTurn(R), R, K)
  BY TurnsOfReports DEF HasSections
<1>5. Section(s, v) = <<e>> \o G
  <2>1. \A i \in DOMAIN own : own[i] \in R
    BY <1>2
  <2>2. [i \in DOMAIN own |-> ReportEntries(own[i])] = [i \in DOMAIN own |-> TaskTurn(R)[own[i]]]
    <3> HIDE DEF own, R
    <3>1. QED
      BY <2>1 DEF TaskTurn
  <2>3. Section(s, v) = <<e>> \o FlattenSeq([i \in DOMAIN own |-> ReportEntries(own[i])])
    BY DEF Section
  <2>4. QED
    BY <2>2, <2>3 DEF Gather
<1>6. q \in Seq(K)
  OBVIOUS
<1> HIDE DEF g, own
<1>7. Reading(g \o G) = Read(v, q \o Gather(KeptTurn(R), own))
  BY <1>2, <1>3, OwnRead
<1> HIDE DEF e, R, K
<1>8. G \in Seq(E) /\ Gather(KeptTurn(R), own) \in Seq(K)
  BY <1>2, <1>4, GatherType
<1> HIDE DEF G
<1>9. <<e>> \in Seq(E) /\ d \o <<e>> = Append(d, e)
  BY <1>1
<1>10. <<e>> \o G \in Seq(E) /\ d \o (<<e>> \o G) = g \o G
  <2>1. <<e>> \o G \in Seq(E) /\ (d \o <<e>>) \o G = d \o (<<e>> \o G)
    BY <1>8, <1>9, Concatenated
  <2>2. QED
    BY <1>9, <2>1 DEF g
<1>11. QED
  BY <1>5, <1>7, <1>8, <1>10 DEF KeptFor, own, R, K

SectionTurn(s, V) == [v \in V |-> Section(s, v)]
KeptForTurn(R, s, V) == [v \in V |-> KeptFor(R, s, v)]

\* The sections are read one after the other.
LEMMA OrderRead ==
    ASSUME NEW V, NEW N, NEW L, NEW F, NEW E, HasSections(E, V, N, L),
           NEW s \in Seq(ReportsOf(V, N, L, F)), NEW o \in Seq(V)
    PROVE  /\ Turns(SectionTurn(s, V), V, E)
           /\ Turns(KeptForTurn(ReportsOf(V, N, L, F), s, V), V, KeptReports(V, N, L))
           /\ \E u : Reading(Gather(SectionTurn(s, V), o))
                     = Read(u, Gather(KeptForTurn(ReportsOf(V, N, L, F), s, V), o))
<1> DEFINE R == ReportsOf(V, N, L, F)
           K == KeptReports(V, N, L)
           g == SectionTurn(s, V)
           h == KeptForTurn(R, s, V)
           P == {w \in Seq(V) : \E u : Reading(Gather(g, w)) = Read(u, Gather(h, w))}
<1>1. ASSUME NEW v \in V, NEW D \in Seq(E), NEW Q \in Seq(K), NEW u, Reading(D) = Read(u, Q)
      PROVE  /\ Section(s, v) \in Seq(E) /\ KeptFor(R, s, v) \in Seq(K)
             /\ Reading(D \o Section(s, v)) = Read(v, Q \o KeptFor(R, s, v))
  BY <1>1, SectionRead
<1> HIDE DEF R, K
<1>2. ASSUME NEW v \in V PROVE Section(s, v) \in Seq(E) /\ KeptFor(R, s, v) \in Seq(K)
  <2>1. Reading(<<>>) = Read("none", <<>>) /\ <<>> \in Seq(E) /\ <<>> \in Seq(K)
    BY ReadNone, NothingIn DEF Unread, Read
  <2>2. QED
    BY <1>1, <2>1
<1>3. Turns(g, V, E) /\ Turns(h, V, K)
  BY <1>2 DEF Turns, SectionTurn, KeptForTurn
<1>4. \A v \in V : g[v] = Section(s, v) /\ h[v] = KeptFor(R, s, v)
  BY DEF SectionTurn, KeptForTurn
<1> HIDE DEF g, h
<1>5. <<>> \in P
  <2>1. Reading(Gather(g, <<>>)) = Read("none", Gather(h, <<>>))
    BY ReadNone, GatherNothing DEF Unread, Read
  <2>2. QED
    BY <2>1, NothingIn
<1>6. ASSUME NEW w \in Seq(V), NEW v \in V, w \in P PROVE Append(w, v) \in P
  <2>1. PICK u : Reading(Gather(g, w)) = Read(u, Gather(h, w))
    BY <1>6
  <2> HIDE DEF P
  <2>2. Gather(g, w) \in Seq(E) /\ Gather(h, w) \in Seq(K)
    BY <1>3, GatherType
  <2>3. /\ Gather(g, Append(w, v)) = Gather(g, w) \o g[v]
        /\ Gather(h, Append(w, v)) = Gather(h, w) \o h[v]
    BY <1>3, GatherNext
  <2>4. Reading(Gather(g, w) \o Section(s, v)) = Read(v, Gather(h, w) \o KeptFor(R, s, v))
    BY <1>1, <2>1, <2>2
  <2>5. Reading(Gather(g, Append(w, v))) = Read(v, Gather(h, Append(w, v)))
    BY <1>4, <2>3, <2>4
  <2>6. Append(w, v) \in Seq(V)
    BY Appended
  <2>7. QED
    BY <2>5, <2>6 DEF P
<1>7. Seq(V) \subseteq P
  <2> HIDE DEF P
  <2>1. QED
    BY <1>5, <1>6, Growing
<1>8. \E u : Reading(Gather(g, o)) = Read(u, Gather(h, o))
  BY <1>7
<1>9. QED
  BY <1>3, <1>8 DEF g, h, R, K

\* Reading on in the findings adds no report.
LEMMA FindingsRead ==
    ASSUME NEW E, NEW d \in Seq(E), NEW X, X \subseteq E,
           \A e \in X : e[1] \in {"findings", "finding"},
           NEW f \in Seq(X), NEW u, NEW q, Reading(d) = Read(u, q)
    PROVE  Reading(d \o f).read = q
<1> DEFINE P == {g \in Seq(X) : \E w : Reading(d \o g) = Read(w, q)}
<1>1. <<>> \in P
  BY NothingIn, Concatenated
<1>2. ASSUME NEW g \in Seq(X), NEW e \in X, g \in P PROVE Append(g, e) \in P
  <2>1. PICK w : Reading(d \o g) = Read(w, q)
    BY <1>2
  <2> HIDE DEF P
  <2>2. g \in Seq(E) /\ e \in E /\ Append(g, e) \in Seq(X)
    BY Appended
  <2>3. d \o g \in Seq(E) /\ d \o Append(g, e) = Append(d \o g, e)
    BY <2>2, Concatenated
  <2>4. Reading(Append(d \o g, e)) = ReadEntry(Read(w, q), e)
    <3> DEFINE D == d \o g
    <3>1. D \in Seq(E) /\ Reading(D) = Read(w, q)
      BY <2>1, <2>3
    <3> HIDE DEF D
    <3>2. Reading(Append(D, e)) = ReadEntry(Reading(D), e)
      BY <2>2, <3>1, ReadNext
    <3>3. QED
      BY <3>1, <3>2 DEF D
  <2>5. ReadEntry(Read(w, q), e) = Read("none", q)
    <3>1. e[1] # "version" /\ e[1] # "task" /\ e[1] # "line"
      BY e[1] \in {"findings", "finding"}
    <3>2. QED
      BY <3>1 DEF ReadEntry, Read
  <2>6. QED
    BY <2>2, <2>3, <2>4, <2>5 DEF P
<1>3. Seq(X) \subseteq P
  <2> HIDE DEF P
  <2>1. QED
    BY <1>1, <1>2, Growing
<1>4. PICK w : Reading(d \o f) = Read(w, q)
  BY <1>3
<1>5. QED
  BY <1>4 DEF Read

-----------------------------------------------------------------------------
(* Grouping by version and picking one version out again.                   *)

\* What the loops over the versions and then the reports of each append, if they
\* append f[r] for r, and what they would append for one version, without a loop over
\* the versions.
GroupTurn(f, s, V) == [w \in V |-> Gather(f, ByVersion(s, w))]
MatchTurn(f, R, v) == [r \in R |-> IF r.version = v THEN f[r] ELSE <<>>]

\* sel picks what f appends for the reports of v.
Picks(sel, f, R, v) == \A r \in R : Gather(sel, f[r]) = IF r.version = v THEN f[r] ELSE <<>>

LEMMA GroupIs ==
    ASSUME NEW R, NEW B, NEW f, Turns(f, R, B), NEW s \in Seq(R), NEW w
    PROVE  /\ Turns(MatchTurn(f, R, w), R, B)
           /\ Gather(f, ByVersion(s, w)) = Gather(MatchTurn(f, R, w), s)
<1> DEFINE own == OwnTurn(R, w)
           h == [r \in R |-> Gather(f, own[r])]
<1>1. Turns(own, R, R) /\ ByVersion(s, w) = Gather(own, s)
  BY ByVersionIs
<1> HIDE DEF own
<1>2. Gather(f, Gather(own, s)) = Gather(h, s)
  BY <1>1, GatherTwice
<1>3. ASSUME NEW r \in R PROVE h[r] = MatchTurn(f, R, w)[r]
  <2>1. own[r] = IF r.version = w THEN <<r>> ELSE <<>>
    BY DEF own, OwnTurn
  <2>2. Gather(f, <<r>>) = f[r] /\ Gather(f, <<>>) = <<>>
    BY GatherOne, GatherNothing
  <2>3. QED
    BY <2>1, <2>2 DEF MatchTurn
<1>4. Turns(MatchTurn(f, R, w), R, B)
  <2>1. \A r \in R : f[r] \in Seq(B)
    BY DEF Turns
  <2>2. <<>> \in Seq(B)
    BY NothingIn
  <2>3. QED
    BY <2>1, <2>2 DEF Turns, MatchTurn
<1>5. \A i \in 1..Len(s) : h[s[i]] = MatchTurn(f, R, w)[s[i]]
  <2>1. \A i \in 1..Len(s) : s[i] \in R
    OBVIOUS
  <2> HIDE DEF h
  <2>2. QED
    BY <1>3, <2>1
<1> HIDE DEF h
<1>6. Gather(h, s) = Gather(MatchTurn(f, R, w), s)
  BY <1>5, GatherSame
<1>7. QED
  BY <1>1, <1>2, <1>4, <1>6

\* Picking from what was appended without a grouping.
LEMMA Picked ==
    ASSUME NEW R, NEW B, NEW f, Turns(f, R, B), NEW sel, Turns(sel, B, B), NEW s \in Seq(R),
           NEW v, Picks(sel, f, R, v)
    PROVE  Gather(sel, Gather(f, s)) = Gather(MatchTurn(f, R, v), s)
<1> DEFINE h == [r \in R |-> Gather(sel, f[r])]
<1>1. Gather(sel, Gather(f, s)) = Gather(h, s)
  BY GatherTwice
<1>2. \A r \in R : h[r] = MatchTurn(f, R, v)[r]
  BY DEF Picks, MatchTurn
<1>3. \A i \in 1..Len(s) : h[s[i]] = MatchTurn(f, R, v)[s[i]]
  <2>1. \A i \in 1..Len(s) : s[i] \in R
    OBVIOUS
  <2> HIDE DEF h
  <2>2. QED
    BY <1>2, <2>1
<1> HIDE DEF h
<1>4. Gather(h, s) = Gather(MatchTurn(f, R, v), s)
  BY <1>3, GatherSame
<1>5. QED
  BY <1>1, <1>4

LEMMA Grouped ==
    ASSUME NEW R, NEW B, NEW V, NEW f, Turns(f, R, B), NEW sel, Turns(sel, B, B),
           NEW s \in Seq(R), NEW o \in Seq(V), Distinct(o), NEW v \in V, Listed(v, o),
           Picks(sel, f, R, v)
    PROVE  Gather(sel, Gather(GroupTurn(f, s, V), o)) = Gather(MatchTurn(f, R, v), s)
<1> DEFINE g == GroupTurn(f, s, V)
           m(w) == MatchTurn(f, R, w)
           h == [w \in V |-> Gather(sel, g[w])]
<1>1. \A w \in V : Turns(m(w), R, B) /\ g[w] = Gather(m(w), s)
  BY GroupIs DEF GroupTurn
<1>2. \A w \in V : g[w] \in Seq(B)
  <2> HIDE DEF g, m
  <2>1. QED
    BY <1>1, GatherType
<1>3. Turns(g, V, B)
  BY <1>2 DEF Turns, GroupTurn
<1>4. ASSUME NEW w \in V PROVE Gather(sel, g[w]) = IF w = v THEN Gather(m(v), s) ELSE <<>>
  <2> DEFINE k == [r \in R |-> Gather(sel, m(w)[r])]
  <2> HIDE DEF g
  <2>1. Gather(sel, Gather(m(w), s)) = Gather(k, s)
    <3>1. Turns(m(w), R, B)
      BY <1>1
    <3> HIDE DEF m
    <3>2. QED
      BY <3>1, GatherTwice
  <2>2. ASSUME NEW r \in R PROVE k[r] = IF w = v THEN m(v)[r] ELSE <<>>
    <3>1. Gather(sel, <<>>) = <<>>
      BY GatherNothing
    <3>2. Gather(sel, f[r]) = IF r.version = v THEN f[r] ELSE <<>>
      BY DEF Picks
    <3>3. m(w)[r] = (IF r.version = w THEN f[r] ELSE <<>>)
          /\ m(v)[r] = (IF r.version = v THEN f[r] ELSE <<>>)
      BY DEF MatchTurn
    <3>4. k[r] = Gather(sel, m(w)[r])
      OBVIOUS
    <3> HIDE DEF k, m
    <3>5. QED
      BY <3>1, <3>2, <3>3, <3>4
  <2>3. \A i \in 1..Len(s) : s[i] \in R
    OBVIOUS
  <2>4. CASE w = v
    <3> HIDE DEF k, m
    <3>1. \A i \in 1..Len(s) : k[s[i]] = m(v)[s[i]]
      BY <2>2, <2>3, <2>4
    <3>2. Gather(k, s) = Gather(m(v), s)
      BY <3>1, GatherSame
    <3>3. QED
      BY <1>1, <2>1, <2>4, <3>2
  <2>5. CASE w # v
    <3>1. Turns(k, R, B)
      <4>1. \A r \in R : k[r] \in Seq(B)
        BY <2>2, <2>5, NothingIn
      <4>2. k \in [R -> Seq(B)]
        BY <4>1
      <4>3. QED
        BY <4>2 DEF Turns
    <3> HIDE DEF k, m
    <3>2. \A i \in 1..Len(s) : k[s[i]] = <<>>
      BY <2>2, <2>3, <2>5
    <3>3. Gather(k, s) = <<>>
      BY <3>1, <3>2, GatherEmpty
    <3>4. QED
      BY <1>1, <2>1, <2>5, <3>3
  <2>6. QED
    BY <2>4, <2>5
<1>5. Gather(sel, Gather(g, o)) = Gather(h, o)
  <2> HIDE DEF g
  <2>1. QED
    BY <1>3, GatherTwice
<1>6. Turns(h, V, B)
  <2>1. \A w \in V : Gather(sel, g[w]) \in Seq(B)
    <3> HIDE DEF g
    <3>1. QED
      BY <1>2, GatherType
  <2>2. QED
    BY <2>1 DEF Turns
<1>7. h[v] = Gather(m(v), s) /\ \A w \in V \ {v} : h[w] = <<>>
  BY <1>4
<1>8. \E k \in 1..Len(o) : o[k] = v
  BY DEF Listed
<1>9. Gather(h, o) = h[v]
  <2> HIDE DEF h
  <2>1. \A w \in V \ {v} : h[w] = <<>>
    BY <1>7
  <2>2. QED
    BY <1>6, <1>8, <2>1, GatherOnly
<1>10. QED
  BY <1>5, <1>7, <1>9

-----------------------------------------------------------------------------
(* The digest of any list of reports is complete.                           *)

KindTurn(E, kind) == [e \in E |-> IF e[1] = kind THEN <<e>> ELSE <<>>]

LEMMA KindIs ==
    ASSUME NEW E, NEW d \in Seq(E), NEW kind
    PROVE  Turns(KindTurn(E, kind), E, E) /\ Is(d, kind) = Gather(KindTurn(E, kind), d)
<1>1. \A i \in DOMAIN d : d[i] \in E
  OBVIOUS
<1>2. [i \in DOMAIN d |-> IF d[i][1] = kind THEN <<d[i]>> ELSE <<>>]
      = [i \in DOMAIN d |-> KindTurn(E, kind)[d[i]]]
  BY <1>1 DEF KindTurn
<1>3. Turns(KindTurn(E, kind), E, E)
  BY DEF Turns, KindTurn
<1>4. QED
  BY <1>2, <1>3 DEF Is, Gather

\* No entry of d is of this kind.
LEMMA NoneOfKind ==
    ASSUME NEW E, NEW d \in Seq(E), NEW kind, \A i \in 1..Len(d) : d[i][1] # kind
    PROVE  Gather(KindTurn(E, kind), d) = <<>>
<1>1. \A i \in 1..Len(d) : d[i] \in E
  OBVIOUS
<1>2. \A i \in 1..Len(d) : KindTurn(E, kind)[d[i]] = <<>>
  BY <1>1 DEF KindTurn
<1>3. Turns(KindTurn(E, kind), E, E)
  BY KindIs
<1>4. QED
  BY <1>2, <1>3, GatherEmpty

FindingTurn(R) == [r \in R |-> FindingEntries(r)]

\* The parts of the digest of s.
Sections(s, V) == Gather(SectionTurn(s, V), VersionOrder(s))
FoundIn(s, R, V) == Gather(GroupTurn(FindingTurn(R), s, V), VersionOrder(s))
TailOf(found) == IF found = <<>> THEN <<>> ELSE <<FindingsHead>> \o found

LEMMA FindingsType ==
    ASSUME NEW V, NEW N, NEW L, NEW F
    PROVE  Turns(FindingTurn(ReportsOf(V, N, L, F)), ReportsOf(V, N, L, F),
                 FindingEntriesOf(V, N, F))
<1> DEFINE R == ReportsOf(V, N, L, F)
           X == FindingEntriesOf(V, N, F)
<1>1. ASSUME NEW r \in R PROVE FindingEntries(r) \in Seq(X)
  <2>1. r.version \in V /\ r.task \in N /\ r.findings \in Seq(F)
    BY DEF ReportsOf
  <2> DEFINE W(y) == <<"finding", r.version, r.task, y>>
  <2>2. \A y \in F : W(y) \in X
    BY <2>1 DEF FindingEntriesOf
  <2>3. FindingEntries(r) = [i \in DOMAIN r.findings |-> W(r.findings[i])]
    BY DEF FindingEntries
  <2> HIDE DEF W, X
  <2>4. QED
    BY <2>1, <2>2, <2>3
<1> HIDE DEF R, X
<1>2. Turns(FindingTurn(R), R, X)
  BY <1>1 DEF Turns, FindingTurn
<1>3. QED
  BY <1>2 DEF R, X

\* The findings come under the version of their report.
LEMMA FindingsPick ==
    ASSUME NEW V, NEW N, NEW L, NEW F, NEW r \in ReportsOf(V, N, L, F)
    PROVE  \A i \in 1..Len(FindingEntries(r)) : FindingEntries(r)[i][2] = r.version
<1>1. r.findings \in Seq(F)
  BY DEF ReportsOf
<1>2. DOMAIN FindingEntries(r) = 1..Len(r.findings) /\ Len(FindingEntries(r)) = Len(r.findings)
  BY <1>1 DEF FindingEntries
<1>3. \A i \in 1..Len(r.findings) :
         FindingEntries(r)[i] = <<"finding", r.version, r.task, r.findings[i]>>
  BY <1>1 DEF FindingEntries
<1>4. \A x : <<"finding", r.version, r.task, x>>[2] = r.version
  OBVIOUS
<1>5. QED
  BY <1>2, <1>3, <1>4

LEMMA RenderIs ==
    ASSUME NEW V, NEW N, NEW L, NEW F, NEW s \in Seq(ReportsOf(V, N, L, F))
    PROVE  /\ Render(s) = Sections(s, V) \o TailOf(FoundIn(s, ReportsOf(V, N, L, F), V))
           /\ Orders(VersionOrder(s), s, V)
           /\ Sections(s, V) \in Seq(SectionEntries(V, N, L))
           /\ FoundIn(s, ReportsOf(V, N, L, F), V) \in Seq(FindingEntriesOf(V, N, F))
<1> DEFINE R == ReportsOf(V, N, L, F)
           E == SectionEntries(V, N, L)
           X == FindingEntriesOf(V, N, F)
           o == VersionOrder(s)
           f == FindingTurn(R)
           g == GroupTurn(f, s, V)
<1>1. Versioned(R, V)
  BY DEF Versioned, ReportsOf
<1>2. Orders(o, s, V) /\ o \in Seq(V)
  BY <1>1, OrderIs DEF Orders
<1>3. HasSections(E, V, N, L)
  BY DEF HasSections, SectionEntries
<1>4. Turns(f, R, X)
  BY FindingsType
<1>5. Turns(SectionTurn(s, V), V, E)
  BY <1>2, <1>3, OrderRead
<1> HIDE DEF R, E, X, f
<1>6. s \in Seq(R)
  BY DEF R
<1>7. ASSUME NEW w \in V PROVE g[w] = FindingsOf(s, w) /\ g[w] \in Seq(X)
  <2> DEFINE own == ByVersion(s, w)
  <2>1. own \in Seq(R)
    BY <1>6, ByVersionIs
  <2>2. g[w] = Gather(f, own)
    BY DEF GroupTurn
  <2>3. FindingsOf(s, w) = FlattenSeq([i \in DOMAIN own |-> FindingEntries(own[i])])
    BY DEF FindingsOf
  <2> HIDE DEF own, g
  <2>4. \A i \in DOMAIN own : own[i] \in R
    BY <2>1
  <2>5. [i \in DOMAIN own |-> FindingEntries(own[i])] = [i \in DOMAIN own |-> f[own[i]]]
    BY <2>4 DEF f, FindingTurn
  <2>6. Gather(f, own) \in Seq(X)
    BY <1>4, <2>1, GatherType
  <2>7. QED
    BY <2>2, <2>3, <2>5, <2>6 DEF Gather
<1>8. Turns(g, V, X)
  <2>1. \A w \in V : g[w] \in Seq(X)
    BY <1>7
  <2>2. QED
    BY <2>1 DEF Turns, GroupTurn
<1>9. \A i \in DOMAIN o : o[i] \in V
  BY <1>2
<1> HIDE DEF g, o
<1>10. [i \in DOMAIN o |-> FindingsOf(s, o[i])] = [i \in DOMAIN o |-> g[o[i]]]
  BY <1>7, <1>9
<1>11. [i \in DOMAIN o |-> Section(s, o[i])] = [i \in DOMAIN o |-> SectionTurn(s, V)[o[i]]]
  BY <1>9 DEF SectionTurn
<1>12. Sections(s, V) = FlattenSeq([i \in DOMAIN o |-> Section(s, o[i])])
  BY <1>11 DEF Sections, Gather, o
<1>13. FoundIn(s, R, V) = FlattenSeq([i \in DOMAIN o |-> FindingsOf(s, o[i])])
  BY <1>10 DEF FoundIn, Gather, o, g, f
<1>14. Render(s) = Sections(s, V) \o TailOf(FoundIn(s, R, V))
  <2> DEFINE A == FlattenSeq([i \in DOMAIN o |-> Section(s, o[i])])
             C == FlattenSeq([i \in DOMAIN o |-> FindingsOf(s, o[i])])
  <2>1. Render(s) = A \o (IF C = <<>> THEN <<>> ELSE <<<<"findings">>>> \o C)
    BY DEF Render, o
  <2> HIDE DEF A, C
  <2>2. Render(s) = A \o TailOf(C)
    BY <2>1 DEF TailOf, FindingsHead
  <2>3. QED
    BY <1>12, <1>13, <2>2 DEF A, C
<1>15. Gather(SectionTurn(s, V), o) \in Seq(E) /\ Gather(g, o) \in Seq(X)
  BY <1>2, <1>5, <1>8, GatherType
<1>16. QED
  BY <1>2, <1>14, <1>15 DEF Sections, FoundIn, R, E, X, o, g, f

LEMMA TailType ==
    ASSUME NEW X, NEW found \in Seq(X)
    PROVE  TailOf(found) \in Seq(X \cup {FindingsHead})
<1> DEFINE Y == X \cup {FindingsHead}
<1>1. found \in Seq(Y) /\ FindingsHead \in Y
  OBVIOUS
<1> HIDE DEF Y
<1>2. <<FindingsHead>> \in Seq(Y) /\ <<>> \in Seq(Y)
  <2>1. \A y \in Y : <<y>> \in Seq(Y)
    OBVIOUS
  <2>2. QED
    BY <1>1, <2>1, NothingIn
<1>3. <<FindingsHead>> \o found \in Seq(Y)
  BY <1>1, <1>2, Concatenated
<1>4. QED
  BY <1>2, <1>3 DEF TailOf, Y

\* The kinds of the entries.
LEMMA KindsOfEntries ==
    ASSUME NEW V, NEW N, NEW L, NEW F
    PROVE  /\ \A e \in SectionEntries(V, N, L) : e[1] \in {"version", "task", "line"}
           /\ \A e \in TaskEntriesOf(N) \cup LineEntriesOf(L) : e[1] \in {"task", "line"}
           /\ \A e \in FindingEntriesOf(V, N, F) : e[1] = "finding"
           /\ FindingsHead[1] = "findings"
<1>1. \A e \in VersionEntriesOf(V) : e[1] = "version"
  BY DEF VersionEntriesOf
<1>2. \A e \in TaskEntriesOf(N) : e[1] = "task"
  BY DEF TaskEntriesOf
<1>3. \A e \in LineEntriesOf(L) : e[1] = "line"
  BY DEF LineEntriesOf
<1>4. \A e \in FindingEntriesOf(V, N, F) : e[1] = "finding"
  BY DEF FindingEntriesOf
<1>5. FindingsHead[1] = "findings"
  BY DEF FindingsHead
<1>6. QED
  BY <1>1, <1>2, <1>3, <1>4, <1>5 DEF SectionEntries

\* Each version has one section.
LEMMA VersionsOnce ==
    ASSUME NEW V, NEW N, NEW L, NEW F, NEW s \in Seq(ReportsOf(V, N, L, F))
    PROVE  OneSectionEach(s, Render(s))
<1> DEFINE R == ReportsOf(V, N, L, F)
           E == EntriesOf(V, N, L, F)
           X == FindingEntriesOf(V, N, F)
           Y == X \cup {FindingsHead}
           o == VersionOrder(s)
           a == Sections(s, V)
           found == FoundIn(s, R, V)
           z == TailOf(found)
           g == SectionTurn(s, V)
           kt == KindTurn(E, "version")
           h == [v \in V |-> Gather(kt, g[v])]
           only == [v \in V |-> <<"version", v>>]
<1>1. Render(s) = a \o z /\ Orders(o, s, V) /\ found \in Seq(X)
  BY RenderIs
<1>2. SectionEntries(V, N, L) \subseteq E /\ Y \subseteq E /\ HasSections(E, V, N, L)
  BY DEF EntriesOf, HasSections, SectionEntries
<1>3. z \in Seq(Y)
  <2> HIDE DEF X, found
  <2>1. QED
    BY <1>1, TailType
<1>4. \A e \in Y : e[1] # "version"
  BY KindsOfEntries
<1>5. \A e \in TaskEntriesOf(N) \cup LineEntriesOf(L) : e[1] # "version"
  BY KindsOfEntries
<1>6. /\ \A v \in V : <<"version", v>> \in E /\ <<"version", v>>[1] = "version"
      /\ TaskEntriesOf(N) \cup LineEntriesOf(L) \subseteq E
  BY <1>2 DEF HasSections, VersionEntriesOf
<1>7. o \in Seq(V)
  BY <1>1 DEF Orders
<1>8. Turns(g, V, E) /\ a = Gather(g, o)
  BY <1>2, <1>7, OrderRead DEF Sections
<1>9. Turns(kt, E, E)
  <2>1. <<>> \in Seq(E)
    BY NothingIn
  <2> HIDE DEF E
  <2>2. QED
    BY <2>1, KindIs
<1>10. ASSUME NEW v \in V PROVE Gather(kt, g[v]) = <<only[v]>>
  <2> DEFINE M == TaskEntriesOf(N) \cup LineEntriesOf(L)
             own == ByVersion(s, v)
             G == Gather(TaskTurn(R), own)
             e == <<"version", v>>
  <2>1. own \in Seq(R)
    BY ByVersionIs
  <2>2. Turns(TaskTurn(R), R, M)
    BY TurnsOfReports
  <2>3. Section(s, v) = <<e>> \o G
    <3>1. \A i \in DOMAIN own : own[i] \in R
      BY <2>1
    <3>2. [i \in DOMAIN own |-> ReportEntries(own[i])] = [i \in DOMAIN own |-> TaskTurn(R)[own[i]]]
      <4> HIDE DEF own, R
      <4>1. QED
        BY <3>1 DEF TaskTurn
    <3>3. Section(s, v) = <<e>> \o FlattenSeq([i \in DOMAIN own |-> ReportEntries(own[i])])
      BY DEF Section
    <3>4. QED
      BY <3>2, <3>3 DEF Gather
  <2>4. g[v] = Section(s, v) /\ only[v] = e
    BY DEF SectionTurn
  <2>5. e \in E /\ e[1] = "version"
    BY <1>6
  <2>6. M \subseteq E /\ \A x \in M : x[1] # "version"
    BY <1>5, <1>6
  <2> HIDE DEF M, own, R, e, E
  <2>7. G \in Seq(M)
    BY <2>1, <2>2, GatherType
  <2> HIDE DEF G
  <2>8. G \in Seq(E) /\ \A i \in 1..Len(G) : G[i][1] # "version"
    BY <2>6, <2>7
  <2>9. Gather(kt, G) = <<>>
    BY <2>8, NoneOfKind
  <2>10. kt[e] = <<e>>
    BY <2>5 DEF KindTurn
  <2> HIDE DEF kt, h, g, only
  <2>11. Gather(kt, <<e>>) = kt[e]
    BY <1>9, <2>5, GatherOne
  <2>12. <<e>> \in Seq(E)
    BY <2>5
  <2>13. Gather(kt, <<e>> \o G) = Gather(kt, <<e>>) \o Gather(kt, G)
    <3> DEFINE c == <<e>>
    <3>1. c \in Seq(E)
      BY <2>12
    <3> HIDE DEF c
    <3>2. Joins(kt, E)
      BY <1>9, Joined
    <3>3. Gather(kt, c \o G) = Gather(kt, c) \o Gather(kt, G)
      BY <2>8, <3>1, <3>2 DEF Joins
    <3>4. QED
      BY <3>3 DEF c
  <2>14. QED
    BY <2>3, <2>4, <2>9, <2>10, <2>11, <2>12, <2>13, Concatenated
<1>11. a \in Seq(E)
  <2> HIDE DEF a, g, E, o
  <2>1. QED
    BY <1>7, <1>8, GatherType
<1>12. z \in Seq(E)
  <2> HIDE DEF z, Y, E
  <2>1. QED
    BY <1>2, <1>3
<1>13. Gather(kt, z) = <<>>
  <2> HIDE DEF z, Y, E
  <2>1. \A i \in 1..Len(z) : z[i][1] # "version"
    BY <1>3, <1>4
  <2>2. QED
    BY <1>12, <2>1, NoneOfKind
<1>14. Is(Render(s), "version") = Gather(kt, a \o z)
  <2> HIDE DEF a, z, E
  <2>1. a \o z \in Seq(E)
    BY <1>11, <1>12, Concatenated
  <2>2. Is(a \o z, "version") = Gather(KindTurn(E, "version"), a \o z)
    <3> DEFINE d == a \o z
    <3>1. d \in Seq(E)
      BY <2>1
    <3> HIDE DEF d
    <3>2. Is(d, "version") = Gather(KindTurn(E, "version"), d)
      BY <3>1, KindIs
    <3>3. QED
      BY <3>2 DEF d
  <2>3. QED
    BY <1>1, <2>2
<1> HIDE DEF a, z, E, kt, g, o, R
<1>15. Gather(kt, a \o z) = Gather(kt, a) \o Gather(kt, z)
  <2>1. Joins(kt, E)
    BY <1>9, Joined
  <2>2. QED
    BY <1>11, <1>12, <2>1 DEF Joins
<1>16. Gather(kt, a) = Gather(h, o)
  BY <1>7, <1>8, <1>9, GatherTwice
<1>17. Turns(h, V, E) /\ only \in [V -> E] /\ \A v \in V : h[v] = <<only[v]>>
  <2>1. \A v \in V : only[v] \in E /\ h[v] = <<only[v]>>
    BY <1>6, <1>10
  <2>2. only \in [V -> E]
    BY <2>1
  <2>3. \A v \in V : h[v] \in Seq(E)
    <3>1. \A x \in E : <<x>> \in Seq(E)
      OBVIOUS
    <3> HIDE DEF only, h
    <3>2. QED
      BY <2>1, <3>1
  <2>4. Turns(h, V, E)
    BY <2>3 DEF Turns
  <2>5. QED
    BY <2>1, <2>2, <2>4
<1> HIDE DEF h, only
<1>18. Gather(h, o) = [i \in 1..Len(o) |-> only[o[i]]]
  BY <1>7, <1>17, GatherSingle
<1>19. Len(o) \in Nat
  BY <1>7
<1>20. Is(Render(s), "version") = [i \in 1..Len(o) |-> only[o[i]]]
  <2>1. Gather(h, o) \in Seq(E)
    BY <1>7, <1>17, GatherType
  <2>2. Gather(h, o) \o <<>> = Gather(h, o)
    BY <2>1, Concatenated
  <2>3. QED
    BY <1>13, <1>14, <1>15, <1>16, <1>18, <2>2
<1>21. Len(Is(Render(s), "version")) = Len(o)
  BY <1>19, <1>20
<1>22. Len(o) = Cardinality(VersionsOf(s))
  <2>1. Versioned(R, V) /\ s \in Seq(R)
    BY DEF Versioned, ReportsOf, R
  <2>2. QED
    BY <2>1, OrderLength DEF o
<1>23. QED
  BY <1>21, <1>22 DEF OneSectionEach

\* What the sections hold is what the reports hold, version by version.
LEMMA ReportsThere ==
    ASSUME NEW V, NEW N, NEW L, NEW F, NEW s \in Seq(ReportsOf(V, N, L, F)),
           NEW v \in V, Reported(v, s)
    PROVE  ByVersion(SectionsOf(Render(s)), v) = ByVersion(Kept(s), v)
<1> DEFINE R == ReportsOf(V, N, L, F)
           K == KeptReports(V, N, L)
           E == EntriesOf(V, N, L, F)
           X == FindingEntriesOf(V, N, F)
           Y == X \cup {FindingsHead}
           o == VersionOrder(s)
           a == Sections(s, V)
           found == FoundIn(s, R, V)
           z == TailOf(found)
           f == KeptTurn(R)
           g == GroupTurn(f, s, V)
           sel == OwnTurn(K, v)
<1>1. Render(s) = a \o z /\ Orders(o, s, V) /\ found \in Seq(X)
  BY RenderIs
<1>2. Y \subseteq E /\ HasSections(E, V, N, L)
  BY DEF EntriesOf, HasSections, SectionEntries
<1>3. z \in Seq(Y)
  <2> HIDE DEF X, found
  <2>1. QED
    BY <1>1, TailType
<1>4. \A e \in Y : e[1] \in {"findings", "finding"}
  BY KindsOfEntries
<1>5. o \in Seq(V) /\ Distinct(o) /\ Listed(v, o)
  BY <1>1 DEF Orders
<1>6. g = KeptForTurn(R, s, V)
  BY DEF GroupTurn, KeptForTurn, KeptFor
<1>7. Turns(SectionTurn(s, V), V, E) /\ \E u : Reading(a) = Read(u, Gather(g, o))
  BY <1>2, <1>5, <1>6, OrderRead DEF Sections
<1>8. a \in Seq(E)
  <2> HIDE DEF E, o
  <2>1. QED
    BY <1>5, <1>7, GatherType DEF Sections, o
<1>9. SectionsOf(Render(s)) = Gather(g, o)
  <2>1. PICK u : Reading(a) = Read(u, Gather(g, o))
    BY <1>7
  <2> HIDE DEF a, z, E, Y, g, o
  <2>2. Reading(a \o z).read = Gather(g, o)
    BY <1>2, <1>3, <1>4, <1>8, <2>1, FindingsRead
  <2>3. QED
    BY <1>1, <2>2 DEF SectionsOf
<1>10. Turns(f, R, K) /\ s \in Seq(R)
  <2>1. TaskEntriesOf(N) \subseteq E /\ LineEntriesOf(L) \subseteq E
    BY <1>2 DEF HasSections
  <2> HIDE DEF E
  <2>2. QED
    BY <2>1, TurnsOfReports
<1>11. Turns(sel, K, K)
  <2>1. <<>> \in Seq(K)
    BY NothingIn
  <2> HIDE DEF K
  <2>2. QED
    BY <2>1, ByVersionIs
<1>12. ASSUME NEW r \in R
       PROVE  f[r] = <<KeptSo(r.version, r.task, r.lines)>>
              /\ KeptSo(r.version, r.task, r.lines) \in K
  <2>1. r.version \in V /\ r.task \in N /\ r.lines \in Seq(L)
    BY DEF ReportsOf
  <2>2. QED
    BY <2>1 DEF KeptTurn, KeptSo, KeptReports
<1> HIDE DEF K
<1>13. Picks(sel, f, R, v)
  <2>1. ASSUME NEW r \in R
        PROVE  Gather(sel, f[r]) = IF r.version = v THEN f[r] ELSE <<>>
    <3> DEFINE k == KeptSo(r.version, r.task, r.lines)
    <3>1. k.version = r.version
      BY DEF KeptSo
    <3>2. f[r] = <<k>> /\ k \in K
      BY <1>12
    <3> HIDE DEF k, f
    <3>3. Gather(sel, <<k>>) = sel[k]
      <4> HIDE DEF sel
      <4>1. QED
        BY <1>11, <3>2, GatherOne
    <3>4. sel[k] = IF r.version = v THEN <<k>> ELSE <<>>
      BY <3>1, <3>2 DEF OwnTurn
    <3>5. QED
      BY <3>2, <3>3, <3>4
  <2> HIDE DEF f, sel
  <2>2. QED
    BY <2>1 DEF Picks
<1>14. Kept(s) = Gather(f, s)
  <2> DEFINE h == [r \in R |-> KeptSo(r.version, r.task, r.lines)]
  <2>1. h \in [R -> K] /\ \A r \in R : f[r] = <<h[r]>>
    BY <1>12
  <2>2. DOMAIN s = 1..Len(s) /\ \A i \in 1..Len(s) : s[i] \in R
    BY <1>10
  <2>3. [i \in 1..Len(s) |-> h[s[i]]] = Kept(s)
    BY <2>2 DEF Kept, KeptSo
  <2> HIDE DEF h, f, R
  <2>4. Gather(f, s) = [i \in 1..Len(s) |-> h[s[i]]]
    BY <1>10, <2>1, GatherSingle
  <2>5. QED
    BY <2>3, <2>4
<1> HIDE DEF R, f, o
<1>15. Gather(g, o) \in Seq(K) /\ Gather(f, s) \in Seq(K)
  <2>1. Gather(f, s) \in Seq(K)
    BY <1>10, GatherType
  <2>2. \A w \in V : g[w] \in Seq(K)
    <3>1. ASSUME NEW w \in V PROVE Gather(f, ByVersion(s, w)) \in Seq(K)
      <4>1. ByVersion(s, w) \in Seq(R)
        BY <1>10, ByVersionIs
      <4>2. QED
        BY <1>10, <4>1, GatherType
    <3>2. QED
      BY <3>1 DEF GroupTurn
  <2>3. Turns(g, V, K)
    BY <2>2 DEF Turns, GroupTurn
  <2> HIDE DEF g
  <2>4. Gather(g, o) \in Seq(K)
    BY <1>5, <2>3, GatherType
  <2>5. QED
    BY <2>1, <2>4
<1>16. Gather(sel, Gather(g, o)) = Gather(MatchTurn(f, R, v), s)
  <2> HIDE DEF sel
  <2>1. QED
    BY <1>5, <1>10, <1>11, <1>13, Grouped
<1>17. Gather(sel, Gather(f, s)) = Gather(MatchTurn(f, R, v), s)
  <2> HIDE DEF sel
  <2>1. QED
    BY <1>10, <1>11, <1>13, Picked
<1>18. ASSUME NEW q \in Seq(K) PROVE ByVersion(q, v) = Gather(sel, q)
  BY ByVersionIs
<1> HIDE DEF g, sel
<1>19. QED
  BY <1>9, <1>14, <1>15, <1>16, <1>17, <1>18

\* The findings of each version are those of its reports.
LEMMA FindingsThere ==
    ASSUME NEW V, NEW N, NEW L, NEW F, NEW s \in Seq(ReportsOf(V, N, L, F)),
           NEW v \in V, Reported(v, s)
    PROVE  FindingsFor(Render(s), v) = Found(s, v)
<1> DEFINE R == ReportsOf(V, N, L, F)
           E == EntriesOf(V, N, L, F)
           X == FindingEntriesOf(V, N, F)
           Y == X \cup {FindingsHead}
           o == VersionOrder(s)
           a == Sections(s, V)
           found == FoundIn(s, R, V)
           z == TailOf(found)
           f == FindingTurn(R)
           g == GroupTurn(f, s, V)
           kt == KindTurn(E, "finding")
           sel == [e \in X |-> IF e[2] = v THEN <<e>> ELSE <<>>]
<1>1. /\ Render(s) = a \o z /\ Orders(o, s, V) /\ found \in Seq(X)
      /\ a \in Seq(SectionEntries(V, N, L))
  BY RenderIs
<1>2. Y \subseteq E /\ X \subseteq E /\ SectionEntries(V, N, L) \subseteq E /\ FindingsHead \in E
  BY DEF EntriesOf
<1>3. /\ \A e \in SectionEntries(V, N, L) : e[1] # "finding"
      /\ \A e \in X : e[1] = "finding"
      /\ FindingsHead[1] # "finding"
  BY KindsOfEntries
<1>4. o \in Seq(V) /\ Distinct(o) /\ Listed(v, o)
  BY <1>1 DEF Orders
<1>5. Turns(f, R, X) /\ s \in Seq(R)
  BY FindingsType
<1>6. \A r \in R : f[r] = FindingEntries(r)
  BY DEF FindingTurn
<1>7. \A r \in R : \A i \in 1..Len(f[r]) : f[r][i][2] = r.version
  BY <1>6, FindingsPick
<1>8. Found(s, v) = Gather(MatchTurn(f, R, v), s)
  <2>1. \A i \in DOMAIN s : s[i] \in R
    BY <1>5
  <2> HIDE DEF R, f
  <2>2. [i \in DOMAIN s |-> IF s[i].version = v THEN FindingEntries(s[i]) ELSE <<>>]
        = [i \in DOMAIN s |-> MatchTurn(f, R, v)[s[i]]]
    BY <1>6, <2>1 DEF MatchTurn
  <2>3. QED
    BY <2>2 DEF Found, Gather
<1>9. found = Gather(g, o)
  BY DEF FoundIn
<1> HIDE DEF R, f, o, a, z, X, E
<1>10. Turns(sel, X, X)
  <2>1. \A x \in X : <<x>> \in Seq(X)
    OBVIOUS
  <2>2. <<>> \in Seq(X)
    BY NothingIn
  <2>3. \A x \in X : (IF x[2] = v THEN <<x>> ELSE <<>>) \in Seq(X)
    BY <2>1, <2>2
  <2>4. QED
    BY <2>3 DEF Turns
<1>11. Picks(sel, f, R, v)
  <2>1. ASSUME NEW r \in R
        PROVE  Gather(sel, f[r]) = IF r.version = v THEN f[r] ELSE <<>>
    <3> DEFINE c == f[r]
    <3>1. c \in Seq(X)
      BY <1>5 DEF Turns
    <3>2. \A i \in 1..Len(c) : c[i][2] = r.version
      BY <1>7
    <3> HIDE DEF c
    <3>3. \A i \in 1..Len(c) : c[i] \in X
      BY <3>1
    <3>4. CASE r.version = v
      <4> DEFINE Z == {x \in X : x[2] = v}
                 id == [x \in Z |-> x]
                 pick == [x \in Z |-> <<x>>]
      <4>1. c \in Seq(Z)
        <5>1. \A i \in 1..Len(c) : c[i] \in Z
          BY <3>2, <3>3, <3>4
        <5> HIDE DEF Z
        <5>2. QED
          BY <3>1, <5>1
      <4>2. \A i \in 1..Len(c) : sel[c[i]] = pick[c[i]]
        BY <3>2, <3>3, <3>4
      <4>3. Turns(pick, Z, Z) /\ id \in [Z -> Z] /\ \A x \in Z : pick[x] = <<id[x]>>
        <5> HIDE DEF Z
        <5>1. \A x \in Z : <<x>> \in Seq(Z)
          OBVIOUS
        <5>2. QED
          BY <5>1 DEF Turns
      <4>4. [i \in 1..Len(c) |-> id[c[i]]] = c
        <5>1. \A i \in 1..Len(c) : id[c[i]] = c[i]
          BY <4>1
        <5> HIDE DEF id
        <5>2. QED
          BY <3>1, <5>1
      <4> HIDE DEF pick, id, Z, sel
      <4>5. Gather(sel, c) = Gather(pick, c)
        BY <4>1, <4>2, GatherSame
      <4>6. Gather(pick, c) = [i \in 1..Len(c) |-> id[c[i]]]
        BY <4>1, <4>3, GatherSingle
      <4>7. QED
        BY <3>4, <4>4, <4>5, <4>6 DEF c
    <3>5. CASE r.version # v
      <4>1. \A i \in 1..Len(c) : sel[c[i]] = <<>>
        BY <3>2, <3>3, <3>5
      <4> HIDE DEF sel
      <4>2. Gather(sel, c) = <<>>
        BY <1>10, <3>1, <4>1, GatherEmpty
      <4>3. QED
        BY <3>5, <4>2 DEF c
    <3>6. QED
      BY <3>4, <3>5
  <2> HIDE DEF sel
  <2>2. QED
    BY <2>1 DEF Picks
<1>12. Gather(sel, Gather(g, o)) = Gather(MatchTurn(f, R, v), s)
  <2> HIDE DEF sel
  <2>1. QED
    BY <1>4, <1>5, <1>10, <1>11, Grouped
<1> HIDE DEF g, found
<1>13. Is(Render(s), "finding") = found
  <2>1. a \in Seq(E) /\ z \in Seq(E) /\ found \in Seq(E)
    <3>1. z \in Seq(Y)
      BY <1>1, TailType DEF z
    <3> HIDE DEF Y
    <3>2. QED
      BY <1>1, <1>2, <3>1
  <2>2. Gather(kt, a) = <<>>
    <3>1. \A i \in 1..Len(a) : a[i][1] # "finding"
      BY <1>1, <1>3
    <3>2. QED
      BY <2>1, <3>1, NoneOfKind
  <2>3. Gather(kt, found) = found
    <3> DEFINE id == [x \in X |-> x]
               pick == [x \in X |-> <<x>>]
    <3>1. \A i \in 1..Len(found) : found[i] \in X
      BY <1>1
    <3>2. \A i \in 1..Len(found) : kt[found[i]] = pick[found[i]]
      BY <1>2, <1>3, <3>1 DEF KindTurn
    <3>3. Turns(pick, X, X) /\ id \in [X -> X] /\ \A x \in X : pick[x] = <<id[x]>>
      <4>1. \A x \in X : <<x>> \in Seq(X)
        OBVIOUS
      <4>2. QED
        BY <4>1 DEF Turns
    <3>4. [i \in 1..Len(found) |-> id[found[i]]] = found
      <4>1. \A i \in 1..Len(found) : id[found[i]] = found[i]
        BY <3>1
      <4> HIDE DEF id
      <4>2. QED
        BY <1>1, <4>1
    <3> HIDE DEF pick, id, kt
    <3>5. Gather(kt, found) = Gather(pick, found)
      BY <1>1, <3>2, GatherSame
    <3>6. Gather(pick, found) = [i \in 1..Len(found) |-> id[found[i]]]
      BY <1>1, <3>3, GatherSingle
    <3>7. QED
      BY <3>4, <3>5, <3>6
  <2>4. Turns(kt, E, E)
    <3>1. <<>> \in Seq(E)
      BY NothingIn
    <3>2. QED
      BY <3>1, KindIs
  <2>5. Joins(kt, E)
    BY <2>4, Joined
  <2>6. Gather(kt, z) = found
    <3>1. CASE found = <<>>
      <4>1. z = <<>>
        BY <3>1 DEF z, TailOf
      <4>2. QED
        BY <3>1, <4>1, GatherNothing
    <3>2. CASE found # <<>>
      <4> DEFINE c == <<FindingsHead>>
      <4>1. z = c \o found
        BY <3>2 DEF z, TailOf
      <4>2. Gather(kt, c) = kt[FindingsHead]
        <5> HIDE DEF kt
        <5>1. QED
          BY <1>2, <2>4, GatherOne
      <4>3. kt[FindingsHead] = <<>>
        BY <1>2, <1>3 DEF KindTurn
      <4>4. c \in Seq(E)
        <5>1. \A x \in E : <<x>> \in Seq(E)
          OBVIOUS
        <5>2. QED
          BY <1>2, <5>1
      <4> HIDE DEF c, kt
      <4>5. Gather(kt, c \o found) = Gather(kt, c) \o Gather(kt, found)
        BY <2>1, <4>4, <2>5 DEF Joins
      <4>6. QED
        BY <2>1, <2>3, <4>1, <4>2, <4>3, <4>5, Concatenated
    <3>3. QED
      BY <3>1, <3>2
  <2> HIDE DEF kt
  <2>7. Gather(kt, a \o z) = Gather(kt, a) \o Gather(kt, z)
    BY <2>1, <2>5 DEF Joins
  <2>8. Is(a \o z, "finding") = Gather(kt, a \o z)
    <3> DEFINE d == a \o z
    <3>1. d \in Seq(E)
      BY <2>1, Concatenated
    <3> HIDE DEF d
    <3>2. Is(d, "finding") = Gather(kt, d)
      BY <3>1, KindIs DEF kt
    <3>3. QED
      BY <3>2 DEF d
  <2>9. QED
    BY <1>1, <2>1, <2>2, <2>6, <2>7, <2>8, Concatenated
<1>14. FindingsFor(Render(s), v) = Gather(sel, found)
  <2>1. \A i \in DOMAIN found : found[i] \in X
    BY <1>1
  <2>2. [i \in DOMAIN found |-> IF found[i][2] = v THEN <<found[i]>> ELSE <<>>]
        = [i \in DOMAIN found |-> sel[found[i]]]
    BY <2>1
  <2>3. FindingsFor(Render(s), v)
        = FlattenSeq([i \in DOMAIN found |-> IF found[i][2] = v THEN <<found[i]>> ELSE <<>>])
    BY <1>13 DEF FindingsFor
  <2>4. QED
    BY <2>2, <2>3 DEF Gather
<1>15. QED
  BY <1>8, <1>9, <1>12, <1>14

\* The findings come after everything else.
LEMMA FindingsEnd ==
    ASSUME NEW V, NEW N, NEW L, NEW F, NEW s \in Seq(ReportsOf(V, N, L, F))
    PROVE  FindingsLast(Render(s))
<1> DEFINE R == ReportsOf(V, N, L, F)
           X == FindingEntriesOf(V, N, F)
           a == Sections(s, V)
           found == FoundIn(s, R, V)
           z == TailOf(found)
           d == a \o z
           n == Len(a)
<1>1. Render(s) = d /\ found \in Seq(X) /\ a \in Seq(SectionEntries(V, N, L))
  BY RenderIs
<1>2. /\ \A e \in SectionEntries(V, N, L) : e[1] # "finding"
      /\ \A e \in X : e[1] = "finding"
      /\ FindingsHead[1] # "finding"
  BY KindsOfEntries
<1> HIDE DEF a, R, X, found
<1>3. \A i \in 1..n : a[i][1] # "finding"
  BY <1>1, <1>2
<1>4. /\ Len(z) \in Nat
      /\ \A i, j \in 1..Len(z) : z[i][1] = "finding" /\ i < j => z[j][1] = "finding"
  <2>1. CASE found = <<>>
    BY <2>1 DEF TailOf
  <2>2. CASE found # <<>>
    <3>1. z = <<FindingsHead>> \o found
      BY <2>2 DEF TailOf
    <3>2. /\ Len(found) \in Nat /\ Len(z) = Len(found) + 1
          /\ \A j \in 1..Len(z) : j # 1 => z[j] = found[j - 1] /\ j - 1 \in 1..Len(found)
      <4>1. \A h : /\ Len(<<h>> \o found) = Len(found) + 1
                   /\ \A j \in 1..(Len(found) + 1) :
                        j # 1 => (<<h>> \o found)[j] = found[j - 1] /\ j - 1 \in 1..Len(found)
        BY <1>1
      <4>2. Len(found) \in Nat
        BY <1>1
      <4> HIDE DEF z
      <4>3. QED
        BY <3>1, <4>1, <4>2
    <3> HIDE DEF z
    <3>3. \A j \in 1..Len(z) : j # 1 => z[j][1] = "finding"
      <4>1. \A k \in 1..Len(found) : found[k][1] = "finding"
        BY <1>1, <1>2
      <4>2. QED
        BY <3>2, <4>1
    <3>4. QED
      BY <3>2, <3>3
  <2>3. QED
    BY <2>1, <2>2
<1>5. z \in Seq(X \cup {FindingsHead}) /\ n \in Nat
  <2>1. n \in Nat
    BY <1>1
  <2> HIDE DEF z, n
  <2>2. z \in Seq(X \cup {FindingsHead})
    BY <1>1, TailType DEF z
  <2>3. QED
    BY <2>1, <2>2
<1> HIDE DEF z
<1>6. /\ DOMAIN d = 1..(n + Len(z))
      /\ \A i \in 1..n : d[i] = a[i]
      /\ \A i \in (n + 1)..(n + Len(z)) : d[i] = z[i - n]
  <2> DEFINE E == SectionEntries(V, N, L) \cup X \cup {FindingsHead}
  <2>1. a \in Seq(E) /\ z \in Seq(E)
    <3>1. \A x \in Seq(SectionEntries(V, N, L)) : x \in Seq(E)
      OBVIOUS
    <3>2. \A x \in Seq(X \cup {FindingsHead}) : x \in Seq(E)
      OBVIOUS
    <3>3. QED
      BY <1>1, <1>5, <3>1, <3>2
  <2> HIDE DEF E
  <2>2. QED
    BY <2>1
<1> HIDE DEF d, n
<1>7. ASSUME NEW i \in DOMAIN d, NEW j \in DOMAIN d, d[i][1] = "finding", i < j
      PROVE  d[j][1] = "finding"
  <2>1. i \notin 1..n
    BY <1>3, <1>6, <1>7 DEF n
  <2>2. i \in (n + 1)..(n + Len(z)) /\ j \in (n + 1)..(n + Len(z))
    BY <1>4, <1>5, <1>6, <1>7, <2>1
  <2>3. i - n \in 1..Len(z) /\ j - n \in 1..Len(z) /\ i - n < j - n
    BY <1>4, <1>5, <1>7, <2>2
  <2>4. d[i] = z[i - n] /\ d[j] = z[j - n]
    BY <1>6, <2>2
  <2>5. QED
    BY <1>4, <1>7, <2>3, <2>4
<1>8. QED
  BY <1>1, <1>7 DEF FindingsLast, d

\* reconciler.go, Render: for every list of reports, however many, of whatever versions in
\* whatever order, the digest has one section for each version and in it the reports of
\* the version in their order, and after the sections every finding under its version
\* and task.
THEOREM DigestOfReports ==
    ASSUME NEW V, NEW N, NEW L, NEW F, NEW s \in Seq(ReportsOf(V, N, L, F))
    PROVE  Complete(s, Render(s))
<1>1. OneSectionEach(s, Render(s))
  BY VersionsOnce
<1>2. FindingsLast(Render(s))
  BY FindingsEnd
<1>3. ASSUME NEW v \in VersionsOf(s) PROVE v \in V /\ Reported(v, s)
  <2>1. PICK i \in DOMAIN s : v = s[i].version
    BY DEF VersionsOf
  <2>2. DOMAIN s = 1..Len(s) /\ s[i] \in ReportsOf(V, N, L, F)
    OBVIOUS
  <2>3. s[i].version \in V
    BY <2>2 DEF ReportsOf
  <2>4. QED
    BY <2>1, <2>2, <2>3 DEF Reported
<1>4. ASSUME NEW v \in VersionsOf(s)
      PROVE  /\ ByVersion(SectionsOf(Render(s)), v) = ByVersion(Kept(s), v)
             /\ FindingsFor(Render(s), v) = Found(s, v)
  <2>1. v \in V /\ Reported(v, s)
    BY <1>3
  <2>2. ByVersion(SectionsOf(Render(s)), v) = ByVersion(Kept(s), v)
    BY <2>1, ReportsThere
  <2>3. FindingsFor(Render(s), v) = Found(s, v)
    BY <2>1, FindingsThere
  <2>4. QED
    BY <2>2, <2>3
<1>5. QED
  BY <1>1, <1>2, <1>4 DEF Complete, NoneLost

-----------------------------------------------------------------------------
(* The digests of the behaviours of this module.                            *)

LEMMA FlatType ==
    ASSUME NEW B, NEW ss \in Seq(Seq(B))
    PROVE  FlattenSeq(ss) \in Seq(B)
<1> DEFINE id == [x \in Seq(B) |-> x]
<1>1. Turns(id, Seq(B), B)
  BY DEF Turns
<1>2. Gather(id, ss) = FlattenSeq(ss)
  <2>1. \A i \in DOMAIN ss : ss[i] \in Seq(B)
    OBVIOUS
  <2>2. [i \in DOMAIN ss |-> id[ss[i]]] = ss
    <3>1. \A i \in DOMAIN ss : id[ss[i]] = ss[i]
      BY <2>1
    <3> HIDE DEF id
    <3>2. QED
      BY <3>1
  <2>3. QED
    BY <2>2 DEF Gather
<1> HIDE DEF id
<1>3. Gather(id, ss) \in Seq(B)
  BY <1>1, GatherType
<1>4. QED
  BY <1>2, <1>3

\* RunAll returns reports of its versions and tasks.
LEMMA RunReportsType ==
    ASSUME NEW V, NEW N, NEW L, NEW F, NEW versions \in Seq(V), NEW tasks \in Nat,
           1..tasks \subseteq N,
           NEW contents \in [DOMAIN versions -> [1..tasks -> Seq(L) \X Seq(F)]]
    PROVE  RunReports(versions, tasks, contents) \in Seq(ReportsOf(V, N, L, F))
<1> DEFINE R == ReportsOf(V, N, L, F)
           rep(i, t) == [version |-> versions[i], task |-> t,
                         lines |-> contents[i][t][1], findings |-> contents[i][t][2]]
           of(i) == [t \in 1..tasks |-> rep(i, t)]
           ss == [i \in DOMAIN versions |-> of(i)]
<1>1. ASSUME NEW i \in DOMAIN versions, NEW t \in 1..tasks PROVE rep(i, t) \in R
  <2>1. versions[i] \in V /\ t \in N
    OBVIOUS
  <2>2. contents[i][t] \in Seq(L) \X Seq(F)
    OBVIOUS
  <2>3. contents[i][t][1] \in Seq(L) /\ contents[i][t][2] \in Seq(F)
    BY <2>2
  <2>4. QED
    BY <2>1, <2>3 DEF ReportsOf
<1>2. RunReports(versions, tasks, contents) = FlattenSeq(ss)
  BY DEF RunReports
<1> HIDE DEF R, rep
<1>3. \A i \in DOMAIN versions : of(i) \in Seq(R)
  BY <1>1
<1> HIDE DEF of
<1>4. ss \in Seq(Seq(R))
  <2>1. DOMAIN versions = 1..Len(versions) /\ Len(versions) \in Nat
    OBVIOUS
  <2> DEFINE Q == Seq(R)
  <2>2. \A i \in 1..Len(versions) : of(i) \in Q
    BY <1>3, <2>1
  <2> HIDE DEF Q
  <2>3. [i \in 1..Len(versions) |-> of(i)] \in Seq(Q)
    BY <2>1, <2>2
  <2>4. QED
    BY <2>1, <2>3 DEF Q
<1> HIDE DEF ss
<1>5. FlattenSeq(ss) \in Seq(R)
  BY <1>4, FlatType
<1>6. QED
  BY <1>2, <1>5 DEF R

SomeReports == ReportsOf({"v1", "v2"}, 1..2, {"l"}, {"f", "g"})
DigestArg == fun = "digest" => arg \in Seq(SomeReports)

LEMMA DigestAsked ==
    ASSUME AskDigest
    PROVE  arg' \in Seq(SomeReports)
<1>1. PICK vs \in BoundedSeq({"v1", "v2"}, 3), tasks \in 1..2 :
         \E c \in [DOMAIN vs -> [1..tasks -> {<<>>, <<"l">>} \X {<<>>, <<"f">>, <<"f", "g">>}]] :
             Ask("digest", RunReports(vs, tasks, c))
  BY DEF AskDigest
<1>2. PICK c \in [DOMAIN vs -> [1..tasks -> {<<>>, <<"l">>} \X {<<>>, <<"f">>, <<"f", "g">>}]] :
         arg' = RunReports(vs, tasks, c)
  BY <1>1 DEF Ask
<1>3. 3 \in Nat
  OBVIOUS
<1>4. vs \in Seq({"v1", "v2"})
  BY <1>3, Bounded
<1>5. tasks \in Nat /\ 1..tasks \subseteq 1..2
  OBVIOUS
<1>6. c \in [DOMAIN vs -> [1..tasks -> Seq({"l"}) \X Seq({"f", "g"})]]
  <2>1. <<>> \in Seq({"l"}) /\ <<"l">> \in Seq({"l"})
    OBVIOUS
  <2>2. <<>> \in Seq({"f", "g"}) /\ <<"f">> \in Seq({"f", "g"}) /\ <<"f", "g">> \in Seq({"f", "g"})
    OBVIOUS
  <2> DEFINE A == {<<>>, <<"l">>}
             B == {<<>>, <<"f">>, <<"f", "g">>}
             C == Seq({"l"})
             D == Seq({"f", "g"})
  <2>3. A \subseteq C /\ B \subseteq D /\ c \in [DOMAIN vs -> [1..tasks -> A \X B]]
    BY <2>1, <2>2
  <2> HIDE DEF A, B, C, D
  <2>4. c \in [DOMAIN vs -> [1..tasks -> C \X D]]
    <3>1. A \X B \subseteq C \X D
      BY <2>3
    <3>2. QED
      BY <2>3, <3>1
  <2>5. QED
    BY <2>4 DEF C, D
<1>7. RunReports(vs, tasks, c) \in Seq(ReportsOf({"v1", "v2"}, 1..2, {"l"}, {"f", "g"}))
  BY <1>4, <1>5, <1>6, RunReportsType
<1>8. QED
  BY <1>2, <1>7 DEF SomeReports

\* reconciler.go, Render: the same of the behaviours of this module.
THEOREM DigestRight == Spec => []DigestComplete
<1>1. Init => DigestArg
  BY DEF Init, DigestArg
<1>2. DigestArg /\ [Next]_vars => DigestArg'
  <2>1. ASSUME AskDigest PROVE DigestArg'
    BY <2>1, DigestAsked DEF DigestArg
  <2>2. ASSUME \/ AskNumber \/ AskAddresses \/ AskReply \/ AskKeys \/ AskName
               \/ AskConfig \/ AskSeries
        PROVE  fun' # "digest"
    BY <2>2 DEF Ask, AskNumber, AskAddresses, AskReply, AskKeys, AskName, AskConfig, AskSeries
  <2>3. ASSUME Ask("none", <<>>) PROVE fun' # "digest"
    BY <2>3 DEF Ask
  <2>4. ASSUME UNCHANGED vars, DigestArg PROVE DigestArg'
    BY <2>4 DEF vars, DigestArg
  <2>5. QED
    BY <2>1, <2>2, <2>3, <2>4 DEF Next, DigestArg
<1>3. DigestArg => DigestComplete
  <2> SUFFICES ASSUME arg \in Seq(SomeReports) PROVE Complete(arg, Render(arg))
    BY DEF DigestArg, DigestComplete
  <2>1. QED
    BY DigestOfReports DEF SomeReports
<1>4. QED
  BY <1>1, <1>2, <1>3, PTL DEF Spec

=============================================================================
