---------------------------- MODULE BitStreamProofs ----------------------------
(***************************************************************************)
(* What the operations of BitStream and Varint do to bits, for every size  *)
(* of a byte and of a word: the lemmas that theorems about their users     *)
(* need.                                                                   *)
(*                                                                         *)
(* The argument: 2^n doubles with n (Power, which counts subsets, since no *)
(* prover here knows exponents); a number is its bits (BitsTell), and      *)
(* dividing by a power of two, its rest, multiples and sums without carry  *)
(* are what they do to single bits. Then a stream is the bits at its       *)
(* places (At): a writer puts so many behind its position and leaves the   *)
(* others (Puts), a reader moves past so many and has what was there       *)
(* (Moved, Taken), and loops are chains of such steps.                     *)
(***************************************************************************)
EXTENDS Varint, FiniteSetTheorems, FunctionTheorems, WellFoundedInduction, TLAPS

(* Numbers have a least one. *)
LEMMA LeastNat ==
  ASSUME NEW T \in SUBSET Nat, T # {}
  PROVE  \E x \in T : \A y \in T : x <= y
<1> DEFINE R == OpToRel(<, Nat)
<1>1. IsWellFoundedOn(R, Nat)
  BY NatLessThanWellFounded
<1>2. \A x, y \in Nat : y < x => <<y, x>> \in R
  BY DEF OpToRel
<1> HIDE DEF R
<1>3. PICK x \in T : \A y \in T : <<y, x>> \notin R
  BY <1>1, WFMin
<1>4. \A y \in T : ~ (y < x)
  BY <1>2, <1>3
<1> QED
  BY <1>4

(* What holds at the beginning of an interval, and from each to the next,  *)
(* holds on all of it.                                                     *)
LEMMA Onward ==
  ASSUME NEW n \in Nat, NEW P, 0 \in P, \A i \in 0..(n - 1) : i \in P => i + 1 \in P
  PROVE  0..n \subseteq P
<1> DEFINE Bad == (0..n) \ P
<1> SUFFICES ASSUME Bad # {} PROVE FALSE
  OBVIOUS
<1>1. Bad \subseteq Nat
  OBVIOUS
<1>2. PICK least \in Bad : \A i \in Bad : least <= i
  BY <1>1, LeastNat
<1>3. least - 1 \in 0..(n - 1) /\ least - 1 \in P
  BY <1>2
<1>4. (least - 1) + 1 \in P
  BY <1>3
<1> QED
  BY <1>2, <1>4

-----------------------------------------------------------------------------
(* Powers of two: the subsets of n + 1 things are those without and those  *)
(* with the last one.                                                      *)
LEMMA Power ==
  ASSUME NEW n \in Nat
  PROVE  /\ 2^n \in Nat \ {0}
         /\ 2^(n + 1) = 2 * 2^n
         /\ 2^0 = 1
<1> DEFINE A  == 1..n
           B  == 1..(n + 1)
           Ax == {S \cup {n + 1} : S \in SUBSET A}
<1>1. /\ IsFiniteSet(A) /\ Cardinality(A) = n
      /\ IsFiniteSet(B) /\ Cardinality(B) = n + 1
  BY FS_Interval
<1>2. /\ IsFiniteSet(SUBSET A) /\ Cardinality(SUBSET A) = 2^n
      /\ IsFiniteSet(SUBSET B) /\ Cardinality(SUBSET B) = 2^(n + 1)
  BY <1>1, FS_SUBSET
<1>3. SUBSET B = (SUBSET A) \cup Ax
  <2>1. B = A \cup {n + 1} /\ n + 1 \notin A
    OBVIOUS
  <2> HIDE DEF A, B
  <2>2. ASSUME NEW S \in SUBSET B
        PROVE  S \in (SUBSET A) \cup Ax
    <3>1. CASE n + 1 \in S
      <4>1. S = (S \ {n + 1}) \cup {n + 1} /\ S \ {n + 1} \in SUBSET A
        BY <2>1, <3>1
      <4> QED
        BY <4>1
    <3>2. CASE n + 1 \notin S
      BY <2>1, <3>2
    <3> QED
      BY <3>1, <3>2
  <2>3. ASSUME NEW S \in (SUBSET A) \cup Ax
        PROVE  S \in SUBSET B
    BY <2>1
  <2> QED
    BY <2>2, <2>3
<1>4. n + 1 \notin A
  OBVIOUS
<1> HIDE DEF A, B
<1>5. ExistsBijection(SUBSET A, Ax)
  <2> DEFINE f == [S \in SUBSET A |-> S \cup {n + 1}]
  <2>1. f \in [SUBSET A -> Ax]
    OBVIOUS
  <2>2. ASSUME NEW S \in SUBSET A, NEW T \in SUBSET A, f[S] = f[T]
        PROVE  S = T
    BY <2>2, <1>4
  <2>3. \A R \in Ax : \E S \in SUBSET A : f[S] = R
    OBVIOUS
  <2> HIDE DEF f, Ax
  <2>4. f \in Injection(SUBSET A, Ax)
    BY <2>1, <2>2, Fun_IsInj
  <2>5. f \in Surjection(SUBSET A, Ax)
    BY <2>1, <2>3 DEF Surjection
  <2> QED
    BY <2>4, <2>5 DEF Bijection, ExistsBijection
<1>6. IsFiniteSet(Ax) /\ Cardinality(Ax) = Cardinality(SUBSET A)
  BY <1>2, <1>5, FS_Bijection
<1>7. (SUBSET A) \cap Ax = {}
  BY <1>4
<1> HIDE DEF Ax
<1>8. Cardinality((SUBSET A) \cap Ax) = 0
  BY <1>7, FS_EmptySet
<1>9. Cardinality(SUBSET B) = Cardinality(SUBSET A) + Cardinality(Ax) - 0
  BY <1>2, <1>3, <1>6, <1>8, FS_Union
<1>10. Cardinality(SUBSET A) \in Nat /\ Cardinality(SUBSET A) # 0
  <2>1. {} \in SUBSET A
    OBVIOUS
  <2> QED
    BY <1>2, <2>1, FS_CardinalityType, FS_EmptySet
<1>11. 2^0 = 1
  OBVIOUS
<1> DEFINE c == Cardinality(SUBSET A)
           d == Cardinality(SUBSET B)
<1>12. c \in Nat \ {0} /\ d = c + c
  BY <1>6, <1>9, <1>10
<1>13. 2^n = c /\ 2^(n + 1) = d
  BY <1>2
<1> HIDE DEF c, d
<1>14. d = 2 * c
  BY <1>12
<1> QED
  BY <1>11, <1>12, <1>13, <1>14

(* Multiples, and division with a rest. *)
LEMMA Times ==
  ASSUME NEW a \in Nat, NEW b \in Nat, NEW d \in Nat, a < b
  PROVE  d * a + d <= d * b
<1>1. PICK c \in Nat : b = a + 1 + c
  <2>1. b - a - 1 \in Nat /\ b = a + 1 + (b - a - 1)
    OBVIOUS
  <2> QED
    BY <2>1
<1>2. d * b = d * a + d + d * c /\ d * c \in Nat /\ d * a \in Nat
  BY <1>1
<1> QED
  BY <1>2

LEMMA DivTells ==
  ASSUME NEW x \in Nat, NEW d \in Nat \ {0}
  PROVE  /\ x \div d \in Nat /\ x % d \in 0..(d - 1)
         /\ x = d * (x \div d) + (x % d)
<1>1. x % d \in 0..(d - 1)
  OBVIOUS
<1>2. x \div d \in Int /\ x = d * (x \div d) + (x % d)
  OBVIOUS
<1>3. PICK q, r : q = x \div d /\ r = x % d
  OBVIOUS
<1>4. ~ (q < 0)
  <2> SUFFICES ASSUME q < 0 PROVE FALSE
    OBVIOUS
  <2>1. PICK m \in Nat : q = -1 - m
    <3>1. -1 - q \in Nat /\ q = -1 - (-1 - q)
      BY <1>2, <1>3
    <3> QED
      BY <3>1
  <2>2. d * q = -d - (d * m) /\ d * m \in Nat
    BY <2>1
  <2> QED
    BY <1>1, <1>2, <1>3, <2>2
<1> QED
  BY <1>1, <1>2, <1>3, <1>4

LEMMA DivIs ==
  ASSUME NEW d \in Nat \ {0}, NEW q \in Nat, NEW r \in 0..(d - 1),
         NEW x, x = d * q + r
  PROVE  x \in Nat /\ x \div d = q /\ x % d = r
<1>1. x \in Nat
  OBVIOUS
<1>2. PICK u, v : u = x \div d /\ v = x % d
  OBVIOUS
<1>3. u \in Nat /\ v \in 0..(d - 1) /\ d * u + v = d * q + r
  BY <1>1, <1>2, DivTells
<1>4. ~ (u < q)
  <2> SUFFICES ASSUME u < q PROVE FALSE
    OBVIOUS
  <2>1. d * u + d <= d * q
    BY <1>3, Times
  <2>2. d * u \in Nat /\ d * q \in Nat
    BY <1>3
  <2> QED
    BY <1>3, <2>1, <2>2
<1>5. ~ (q < u)
  <2> SUFFICES ASSUME q < u PROVE FALSE
    OBVIOUS
  <2>1. d * q + d <= d * u
    BY <1>3, Times
  <2>2. d * u \in Nat /\ d * q \in Nat
    BY <1>3
  <2> QED
    BY <1>3, <2>1, <2>2
<1>6. u = q
  BY <1>3, <1>4, <1>5
<1>7. d * q \in Nat
  OBVIOUS
<1> QED
  BY <1>1, <1>2, <1>3, <1>6, <1>7

(* Dividing twice. *)
LEMMA DivDiv ==
  ASSUME NEW x \in Nat, NEW c \in Nat \ {0}, NEW d \in Nat \ {0}
  PROVE  (x \div c) \div d = x \div (c * d)
<1>1. PICK q, r : q = x \div c /\ r = x % c
  OBVIOUS
<1>2. q \in Nat /\ r \in 0..(c - 1) /\ x = c * q + r
  BY <1>1, DivTells
<1>3. PICK u, v : u = q \div d /\ v = q % d
  OBVIOUS
<1>4. u \in Nat /\ v \in 0..(d - 1) /\ q = d * u + v
  BY <1>2, <1>3, DivTells
<1>5. PICK e : e = c * v + r
  OBVIOUS
<1>6. e \in 0..(c * d - 1)
  <2>1. c * v + c <= c * d
    BY <1>4, Times
  <2>2. c * v \in Nat /\ c * d \in Nat
    BY <1>4
  <2> QED
    BY <1>2, <1>5, <2>1, <2>2
<1>7. x = (c * d) * u + e
  <2>1. c * (d * u + v) = (c * d) * u + c * v
    BY <1>4
  <2> QED
    BY <1>2, <1>4, <1>5, <2>1
<1>8. PICK m \in Nat \ {0} : m = c * d
  <2>1. c * d \in Nat \ {0}
    OBVIOUS
  <2> QED
    BY <2>1
<1>9. x \div m = u
  BY <1>4, <1>6, <1>7, <1>8, DivIs
<1> QED
  BY <1>1, <1>3, <1>8, <1>9

Pow(n) == 2^n

(* Powers of two double, multiply and grow. *)
LEMMA PowIs ==
  ASSUME NEW n \in Nat
  PROVE  /\ Pow(n) \in Nat \ {0}
         /\ Pow(n + 1) = 2 * Pow(n)
         /\ Pow(0) = 1
BY Power DEF Pow

LEMMA PowSum ==
  ASSUME NEW m \in Nat, NEW n \in Nat
  PROVE  Pow(m + n) = Pow(m) * Pow(n)
<1> DEFINE P == {i \in 0..n : Pow(m + i) = Pow(m) * Pow(i)}
<1>1. 0 \in P
  <2>1. m + 0 = m /\ Pow(m) \in Nat
    BY PowIs
  <2>2. Pow(m + 0) = Pow(m) * Pow(0)
    BY <2>1, PowIs
  <2> QED
    BY <2>2
<1>2. ASSUME NEW i \in 0..(n - 1), i \in P
      PROVE  i + 1 \in P
  <2>1. i \in Nat /\ m + i \in Nat /\ m + (i + 1) = (m + i) + 1
    OBVIOUS
  <2>2. PICK a, b, c : a = Pow(m) /\ b = Pow(i) /\ c = Pow(m + i)
    OBVIOUS
  <2>3. a \in Nat /\ b \in Nat /\ c \in Nat /\ c = a * b
    BY <1>2, <2>1, <2>2, PowIs
  <2>4. Pow(i + 1) = 2 * b /\ Pow(m + (i + 1)) = 2 * c
    BY <2>1, <2>2, PowIs
  <2>5. 2 * c = a * (2 * b)
    BY <2>3
  <2>6. Pow(m + (i + 1)) = Pow(m) * Pow(i + 1)
    BY <2>2, <2>4, <2>5
  <2> QED
    BY <2>6
<1> HIDE DEF P
<1>3. n \in P
  BY <1>1, <1>2, Onward
<1> QED
  BY <1>3 DEF P

LEMMA PowGrows ==
  ASSUME NEW m \in Nat, NEW n \in Nat, m <= n
  PROVE  Pow(m) <= Pow(n)
<1>1. n - m \in Nat /\ n = m + (n - m)
  OBVIOUS
<1>2. PICK a, b : a = Pow(m) /\ b = Pow(n - m)
  OBVIOUS
<1>3. a \in Nat /\ b \in Nat \ {0} /\ Pow(n) = a * b
  BY <1>1, <1>2, PowIs, PowSum
<1>4. a <= a * b
  <2>1. PICK c \in Nat : b = c + 1
    BY <1>3
  <2>2. a * b = a * c + a /\ a * c \in Nat
    BY <1>3, <2>1
  <2> QED
    BY <1>3, <2>2
<1> QED
  BY <1>2, <1>3, <1>4

-----------------------------------------------------------------------------
(* A bit of a number, counted from the lowest. *)
Bit(x, i) == (x \div Pow(i)) % 2

LEMMA BitType ==
  ASSUME NEW x \in Nat, NEW i \in Nat
  PROVE  Bit(x, i) \in {0, 1}
<1>1. PICK q : q = x \div Pow(i)
  OBVIOUS
<1>2. q \in Nat
  BY <1>1, PowIs, DivTells
<1>3. q % 2 \in 0..1
  BY <1>2
<1> QED
  BY <1>1, <1>3 DEF Bit

(* Above and below a cut. *)
LEMMA BitSplit ==
  ASSUME NEW j \in Nat, NEW q \in Nat, NEW r \in 0..(Pow(j) - 1),
         NEW x, x = Pow(j) * q + r, NEW i \in Nat
  PROVE  /\ x \in Nat
         /\ i < j => Bit(x, i) = Bit(r, i)
         /\ i >= j => Bit(x, i) = Bit(q, i - j)
<1>1. PICK P : P = Pow(j)
  OBVIOUS
<1>2. P \in Nat \ {0} /\ r \in 0..(P - 1) /\ x = P * q + r
  BY <1>1, PowIs
<1>3. x \in Nat /\ x \div P = q
  BY Zenon, <1>2, DivIs
<1>6. r \in Nat
  BY <1>2
<1>4. ASSUME i >= j
      PROVE  Bit(x, i) = Bit(q, i - j)
  <2>1. i - j \in Nat /\ i = j + (i - j)
    BY <1>4
  <2>2. PICK c : c = Pow(i - j)
    OBVIOUS
  <2>3. c \in Nat \ {0} /\ Pow(i) = P * c
    BY <1>1, <2>1, <2>2, PowIs, PowSum
  <2>4. (x \div P) \div c = x \div (P * c)
    BY <1>2, <1>3, <2>3, DivDiv
  <2> QED
    BY <1>3, <2>2, <2>3, <2>4 DEF Bit
<1>5. ASSUME i < j
      PROVE  Bit(x, i) = Bit(r, i)
  <2>1. j - i - 1 \in Nat /\ j - i \in Nat /\ j = i + (j - i) /\ j - i = (j - i - 1) + 1
    BY <1>5
  <2>2. PICK c, d : c = Pow(i) /\ d = Pow(j - i - 1)
    OBVIOUS
  <2>3. c \in Nat \ {0} /\ d \in Nat \ {0}
    BY <2>1, <2>2, PowIs
  <2>4. Pow(j - i) = 2 * d
    BY <2>1, <2>2, PowIs
  <2>5. P = c * (2 * d)
    BY <1>1, <2>1, <2>2, <2>4, PowSum
  <2>6. PICK u, v : u = r \div c /\ v = r % c
    OBVIOUS
  <2>7. u \in Nat /\ v \in 0..(c - 1) /\ r = c * u + v
    BY <1>6, <2>3, <2>6, DivTells
  <2>8. PICK w \in Nat : w = (2 * d) * q + u
    BY <2>3, <2>7
  <2>9. x = c * w + v
    <3>1. c * ((2 * d) * q + u) = (c * (2 * d)) * q + c * u
      BY <2>3, <2>7
    <3>2. PICK e : e = (c * (2 * d)) * q
      OBVIOUS
    <3>3. e \in Nat /\ x = e + r
      BY <1>2, <2>3, <2>5, <3>2
    <3>4. c * w = e + c * u /\ c * u \in Nat
      BY <2>3, <2>7, <2>8, <3>1, <3>2
    <3> QED
      BY <1>6, <2>7, <3>3, <3>4
  <2>10. x \div c = w
    <3>1. c \in Nat \ {0} /\ w \in Nat /\ v \in 0..(c - 1) /\ x = c * w + v
      BY <2>3, <2>7, <2>8, <2>9
    <3> QED
      BY Zenon, <3>1, DivIs
  <2>11. w % 2 = u % 2
    <3>1. PICK e \in Nat : e = d * q
      BY <2>3
    <3>2. w = 2 * e + u
      <4>1. (2 * d) * q = 2 * (d * q)
        BY <2>3
      <4> QED
        BY <2>8, <3>1, <4>1
    <3> QED
      BY <2>7, <3>1, <3>2
  <2> QED
    BY <2>2, <2>6, <2>10, <2>11 DEF Bit
<1> QED
  BY <1>3, <1>4, <1>5

(* The bits of nothing. *)
LEMMA BitsOfZero ==
  ASSUME NEW i \in Nat
  PROVE  Bit(0, i) = 0
<1>1. PICK P \in Nat \ {0} : P = Pow(i)
  BY PowIs
<1>2. 0 \div P = 0
  <2>1. 0 = P * 0 + 0 /\ 0 \in 0..(P - 1)
    OBVIOUS
  <2> QED
    BY <2>1, DivIs
<1> QED
  BY <1>1, <1>2 DEF Bit

(* A number has no bits beyond its size. *)
LEMMA BitsBeyond ==
  ASSUME NEW j \in Nat, NEW x \in 0..(Pow(j) - 1), NEW i \in Nat, i >= j
  PROVE  Bit(x, i) = 0
<1>1. x = Pow(j) * 0 + x /\ i - j \in Nat
  BY PowIs
<1>2. Bit(x, i) = Bit(0, i - j)
  BY <1>1, BitSplit
<1> QED
  BY <1>1, <1>2, BitsOfZero

(* The rest after a power of two has the low bits, the quotient the high   *)
(* ones, and a multiple has them all further up.                           *)
LEMMA BitsOfMod ==
  ASSUME NEW x \in Nat, NEW j \in Nat
  PROVE  /\ x % Pow(j) \in 0..(Pow(j) - 1)
         /\ \A i \in Nat : Bit(x % Pow(j), i) = IF i < j THEN Bit(x, i) ELSE 0
<1>1. PICK P, q, r : P = Pow(j) /\ q = x \div P /\ r = x % P
  OBVIOUS
<1>2. P \in Nat \ {0}
  BY <1>1, PowIs
<1>3. q \in Nat /\ r \in 0..(P - 1) /\ x = P * q + r
  BY <1>1, <1>2, DivTells
<1>4. ASSUME NEW i \in Nat
      PROVE  Bit(r, i) = IF i < j THEN Bit(x, i) ELSE 0
  BY <1>1, <1>3, BitSplit, BitsBeyond
<1> QED
  BY <1>1, <1>3, <1>4

LEMMA BitsOfDiv ==
  ASSUME NEW x \in Nat, NEW j \in Nat
  PROVE  /\ x \div Pow(j) \in Nat
         /\ \A i \in Nat : Bit(x \div Pow(j), i) = Bit(x, i + j)
<1>1. PICK P, q, r : P = Pow(j) /\ q = x \div P /\ r = x % P
  OBVIOUS
<1>2. P \in Nat \ {0}
  BY <1>1, PowIs
<1>3. q \in Nat /\ r \in 0..(P - 1) /\ x = P * q + r
  BY <1>1, <1>2, DivTells
<1>4. ASSUME NEW i \in Nat
      PROVE  Bit(q, i) = Bit(x, i + j)
  <2>1. i + j \in Nat /\ i + j >= j /\ (i + j) - j = i
    OBVIOUS
  <2> QED
    BY <1>1, <1>3, <2>1, BitSplit
<1> QED
  BY <1>1, <1>3, <1>4

LEMMA BitsOfTimes ==
  ASSUME NEW x \in Nat, NEW j \in Nat
  PROVE  /\ x * Pow(j) \in Nat
         /\ \A i \in Nat : Bit(x * Pow(j), i) = IF i < j THEN 0 ELSE Bit(x, i - j)
<1>1. PICK P \in Nat \ {0} : P = Pow(j)
  BY PowIs
<1>2. x * P = P * x + 0 /\ 0 \in 0..(P - 1) /\ x * P \in Nat
  BY <1>1
<1>3. ASSUME NEW i \in Nat
      PROVE  Bit(x * P, i) = IF i < j THEN 0 ELSE Bit(x, i - j)
  BY <1>1, <1>2, BitSplit, BitsOfZero
<1> QED
  BY <1>1, <1>2, <1>3

(* A number is its bits. *)
LEMMA BitsTell ==
  ASSUME NEW n \in Nat, NEW x \in 0..(Pow(n) - 1), NEW y \in 0..(Pow(n) - 1),
         \A i \in 0..(n - 1) : Bit(x, i) = Bit(y, i)
  PROVE  x = y
<1> DEFINE P == {m \in 0..n : \A a, b \in 0..(Pow(m) - 1) :
                   (\A i \in 0..(m - 1) : Bit(a, i) = Bit(b, i)) => a = b}
<1>1. 0 \in P
  <2>1. Pow(0) = 1
    BY PowIs
  <2> QED
    BY <2>1
<1>2. ASSUME NEW m \in 0..(n - 1), m \in P
      PROVE  m + 1 \in P
  <2>1. m \in Nat /\ m + 1 \in 0..n
    OBVIOUS
  <2>2. SUFFICES ASSUME NEW a \in 0..(Pow(m + 1) - 1), NEW b \in 0..(Pow(m + 1) - 1),
                        \A i \in 0..m : Bit(a, i) = Bit(b, i)
                 PROVE  a = b
    <3>1. (m + 1) - 1 = m
      BY <2>1
    <3> QED
      BY <2>1, <3>1
  <2>3. PICK Q \in Nat \ {0} : Q = Pow(m) /\ Pow(m + 1) = 2 * Q
    BY <2>1, PowIs
  <2>4. a \in Nat /\ b \in Nat
    OBVIOUS
  <2>5. /\ a % Q \in 0..(Q - 1) /\ b % Q \in 0..(Q - 1)
        /\ a \div Q \in Nat /\ b \div Q \in Nat
        /\ a = Q * (a \div Q) + (a % Q)
        /\ b = Q * (b \div Q) + (b % Q)
    BY <2>3, <2>4, DivTells
  <2>6. a % Q = b % Q
    <3>1. ASSUME NEW i \in 0..(m - 1)
          PROVE  Bit(a % Q, i) = Bit(b % Q, i)
      <4>1. i \in Nat /\ i < m /\ i \in 0..m
        BY <2>1
      <4>2. Bit(a % Q, i) = Bit(a, i)
        BY <2>1, <2>3, <2>4, <4>1, BitsOfMod
      <4>3. Bit(b % Q, i) = Bit(b, i)
        BY <2>1, <2>3, <2>4, <4>1, BitsOfMod
      <4> QED
        BY <2>2, <4>1, <4>2, <4>3
    <3> QED
      BY <1>2, <2>3, <2>5, <3>1
  <2>7. a \div Q = b \div Q
    <3>1. Bit(a, m) = Bit(b, m)
      BY <2>1, <2>2
    <3>2. (a \div Q) % 2 = (b \div Q) % 2
      BY <2>3, <3>1 DEF Bit
    <3>3. \A u \in Nat, v \in 0..(Q - 1) : Q * u + v < 2 * Q => u < 2
      <4> SUFFICES ASSUME NEW u \in Nat, NEW v \in 0..(Q - 1), Q * u + v < 2 * Q, ~ (u < 2)
                   PROVE  FALSE
        OBVIOUS
      <4>1. PICK w \in Nat : u = 2 + w
        <5>1. u - 2 \in Nat /\ u = 2 + (u - 2)
          OBVIOUS
        <5> QED
          BY <5>1
      <4>2. Q * u = 2 * Q + Q * w /\ Q * w \in Nat
        BY <2>3, <4>1
      <4> QED
        BY <4>2
    <3>4. a < 2 * Q /\ b < 2 * Q
      BY <2>3
    <3>5. a \div Q < 2 /\ b \div Q < 2
      BY <2>5, <3>3, <3>4
    <3>6. \A u \in Nat : u < 2 => u % 2 = u
      OBVIOUS
    <3> QED
      BY <2>5, <3>2, <3>5, <3>6
  <2> QED
    BY <2>5, <2>6, <2>7
<1> HIDE DEF P
<1>3. n \in P
  BY <1>1, <1>2, Onward
<1> QED
  BY <1>3 DEF P

-----------------------------------------------------------------------------
(* Bytes, and the bit at a place of a sequence of them. *)
Byte == 0..(Pow(ByteBits) - 1)
At(d, p) == Bit(d[(p \div ByteBits) + 1], p % ByteBits)

LEMMA Sizes ==
  /\ ByteBits \in Nat \ {0} /\ ByteBits > 1
  /\ WordBits \in Nat /\ WordBits >= ByteBits
  /\ Byte \subseteq Nat /\ 0 \in Byte
<1>1. /\ ByteBits \in Nat \ {0} /\ ByteBits > 1
      /\ WordBits \in Nat /\ WordBits >= ByteBits
  BY BitStreamAssumption
<1>2. Byte \subseteq Nat /\ 0 \in Byte
  BY <1>1, PowIs DEF Byte
<1> QED
  BY <1>1, <1>2

(* A place is a byte and a bit of it. *)
LEMMA Place ==
  ASSUME NEW a \in Nat, NEW j \in 0..(ByteBits - 1)
  PROVE  /\ a * ByteBits + j \in Nat
         /\ (a * ByteBits + j) \div ByteBits = a
         /\ (a * ByteBits + j) % ByteBits = j
<1>1. PICK x : x = a * ByteBits + j
  OBVIOUS
<1>2. x = ByteBits * a + j
  BY <1>1, Sizes
<1>3. x \in Nat /\ x \div ByteBits = a /\ x % ByteBits = j
  BY Zenon, <1>2, Sizes, DivIs
<1> QED
  BY <1>1, <1>3

LEMMA PlaceOf ==
  ASSUME NEW p \in Nat
  PROVE  \E a \in Nat, j \in 0..(ByteBits - 1) :
           /\ p = a * ByteBits + j /\ a = p \div ByteBits /\ j = p % ByteBits
<1>1. PICK a, j : a = p \div ByteBits /\ j = p % ByteBits
  OBVIOUS
<1>2. a \in Nat /\ j \in 0..(ByteBits - 1) /\ p = ByteBits * a + j
  BY <1>1, Sizes, DivTells
<1>3. p = a * ByteBits + j
  BY <1>2, Sizes
<1> QED
  BY <1>1, <1>2, <1>3

LEMMA AtPlace ==
  ASSUME NEW d, NEW a \in Nat, NEW j \in 0..(ByteBits - 1)
  PROVE  At(d, a * ByteBits + j) = Bit(d[a + 1], j)
BY Place DEF At

(* Places in the order of their bytes. *)
LEMMA Before ==
  ASSUME NEW a \in Nat, NEW b \in Nat, NEW j \in 0..(ByteBits - 1)
  PROVE  /\ a < b => a * ByteBits + j < b * ByteBits
         /\ a >= b => a * ByteBits + j >= b * ByteBits
<1>1. ASSUME a < b
      PROVE  a * ByteBits + j < b * ByteBits
  <2>1. ByteBits * a + ByteBits <= ByteBits * b
    BY <1>1, Sizes, Times
  <2>2. a * ByteBits = ByteBits * a /\ b * ByteBits = ByteBits * b /\ ByteBits * a \in Nat /\ ByteBits * b \in Nat
    BY Sizes
  <2> QED
    BY <2>1, <2>2, Sizes
<1>2. ASSUME a >= b
      PROVE  a * ByteBits + j >= b * ByteBits
  <2>1. PICK c \in Nat : a = b + c
    <3>1. a - b \in Nat /\ a = b + (a - b)
      BY <1>2
    <3> QED
      BY <3>1
  <2>2. a * ByteBits = b * ByteBits + c * ByteBits /\ c * ByteBits \in Nat /\ b * ByteBits \in Nat
    BY <2>1, Sizes
  <2> QED
    BY <2>2
<1> QED
  BY <1>1, <1>2

(* Low and high parts. *)
LEMMA Join ==
  ASSUME NEW j \in Nat, NEW k \in Nat, NEW r \in 0..(Pow(j) - 1), NEW q \in 0..(Pow(k) - 1)
  PROVE  Pow(j) * q + r \in 0..(Pow(j + k) - 1)
<1>1. PICK P, Q : P = Pow(j) /\ Q = Pow(k)
  OBVIOUS
<1>2. P \in Nat \ {0} /\ Q \in Nat \ {0} /\ Pow(j + k) = P * Q /\ r \in 0..(P - 1) /\ q \in 0..(Q - 1)
  BY <1>1, PowIs, PowSum
<1>3. P * q + P <= P * Q
  BY <1>2, Times
<1>4. P * q \in Nat /\ P * Q \in Nat
  BY <1>2
<1>5. P * q + r \in 0..(P * Q - 1)
  BY <1>2, <1>3, <1>4
<1> QED
  BY <1>1, <1>2, <1>5

LEMMA HighPart ==
  ASSUME NEW j \in Nat, NEW k \in Nat, NEW x \in 0..(Pow(j + k) - 1)
  PROVE  x \div Pow(j) \in 0..(Pow(k) - 1)
<1>1. PICK P, Q : P = Pow(j) /\ Q = Pow(k)
  OBVIOUS
<1>2. P \in Nat \ {0} /\ Q \in Nat \ {0} /\ Pow(j + k) = P * Q
  BY <1>1, PowIs, PowSum
<1>3. PICK q, r : q = x \div P /\ r = x % P
  OBVIOUS
<1>4. x \in Nat
  OBVIOUS
<1>5. q \in Nat /\ r \in 0..(P - 1) /\ x = P * q + r
  BY <1>2, <1>3, <1>4, DivTells
<1>6. ~ (q >= Q)
  <2> SUFFICES ASSUME q >= Q PROVE FALSE
    OBVIOUS
  <2>1. PICK c \in Nat : q = Q + c
    <3>1. q - Q \in Nat /\ q = Q + (q - Q)
      BY <1>2, <1>5
    <3> QED
      BY <3>1
  <2>2. P * q = P * Q + P * c /\ P * c \in Nat /\ P * Q \in Nat
    BY <1>2, <2>1
  <2>3. x >= P * Q
    BY <1>5, <2>2
  <2> QED
    BY <1>2, <2>2, <2>3
<1> QED
  BY <1>1, <1>2, <1>3, <1>5, <1>6

(* A number whose lowest bits are zero, and one whose highest are. *)
LEMMA LowZero ==
  ASSUME NEW j \in Nat, NEW x \in Nat, \A i \in 0..(j - 1) : Bit(x, i) = 0
  PROVE  x = Pow(j) * (x \div Pow(j))
<1>1. PICK P \in Nat \ {0} : P = Pow(j)
  BY PowIs
<1>2. x % P \in 0..(P - 1) /\ x \div P \in Nat /\ x = P * (x \div P) + (x % P)
  BY <1>1, DivTells
<1>3. 0 \in 0..(P - 1)
  BY <1>1
<1>4. ASSUME NEW i \in 0..(j - 1)
      PROVE  Bit(x % P, i) = Bit(0, i)
  <2>1. i \in Nat /\ i < j
    OBVIOUS
  <2> QED
    BY <1>1, <2>1, BitsOfMod, BitsOfZero
<1>5. x % P = 0
  <2>1. PICK y \in 0..(P - 1), z \in 0..(P - 1) : y = x % P /\ z = 0
    BY <1>2, <1>3
  <2>2. \A i \in 0..(j - 1) : Bit(y, i) = Bit(z, i)
    BY <1>4, <2>1
  <2>3. y \in 0..(Pow(j) - 1) /\ z \in 0..(Pow(j) - 1)
    BY <1>1
  <2>4. y = z
    BY <2>2, <2>3, BitsTell
  <2> QED
    BY <2>1, <2>4
<1> QED
  BY <1>1, <1>2, <1>5

LEMMA HighZero ==
  ASSUME NEW j \in Nat, NEW k \in Nat, NEW x \in 0..(Pow(j + k) - 1),
         \A i \in j..(j + k - 1) : Bit(x, i) = 0
  PROVE  x \in 0..(Pow(j) - 1)
<1>1. PICK P \in Nat \ {0} : P = Pow(j)
  BY PowIs
<1>0. x \in Nat
  <2>1. Pow(j + k) \in Nat
    BY PowIs
  <2> QED
    BY <2>1
<1>2. x \in Nat /\ x % P \in 0..(P - 1) /\ x = P * (x \div P) + (x % P)
  BY <1>0, <1>1, DivTells
<1>3. x \div P \in 0..(Pow(k) - 1)
  BY <1>1, HighPart
<1>4. ASSUME NEW i \in 0..(k - 1)
      PROVE  Bit(x \div P, i) = Bit(0, i)
  <2>1. i \in Nat /\ i + j \in j..(j + k - 1)
    OBVIOUS
  <2> QED
    BY <1>1, <1>2, <2>1, BitsOfDiv, BitsOfZero
<1>5. 0 \in 0..(Pow(k) - 1)
  BY PowIs
<1>6. x \div P = 0
  BY <1>3, <1>4, <1>5, BitsTell
<1>7. x = x % P
  BY <1>1, <1>2, <1>6
<1> QED
  BY <1>1, <1>2, <1>7

(* Steps from value to value in a set lead somewhere.                      *)
Stepwise(g, F, k, start) == g[0] = start /\ \A i \in 1..k : g[i] = F[i][g[i - 1]]

LEMMA Iterates ==
  ASSUME NEW D, NEW k \in Nat, NEW F, F \in [1..k -> [D -> D]], NEW start \in D
  PROVE  \E g \in [0..k -> D] : Stepwise(g, F, k, start)
<1> DEFINE P == {m \in 0..k : \E g \in [0..m -> D] :
                   g[0] = start /\ \A i \in 1..m : g[i] = F[i][g[i - 1]]}
<1>1. 0 \in P
  <2>1. PICK g : g = [i \in 0..0 |-> start]
    OBVIOUS
  <2>2. g \in [0..0 -> D] /\ g[0] = start /\ \A i \in 1..0 : g[i] = F[i][g[i - 1]]
    BY <2>1
  <2> QED
    BY <2>2
<1>2. ASSUME NEW m \in 0..(k - 1), m \in P
      PROVE  m + 1 \in P
  <2>1. PICK g \in [0..m -> D] : g[0] = start /\ \A i \in 1..m : g[i] = F[i][g[i - 1]]
    BY <1>2
  <2>2. m \in 0..m /\ m + 1 \in 1..k
    OBVIOUS
  <2>3. g[m] \in D /\ F[m + 1] \in [D -> D]
    BY <2>2
  <2>4. PICK new \in D : new = F[m + 1][g[m]]
    BY <2>3
  <2>5. PICK h : h = [i \in 0..(m + 1) |-> IF i <= m THEN g[i] ELSE new]
    OBVIOUS
  <2>6. h \in [0..(m + 1) -> D]
    BY <2>5
  <2>7. h[0] = start
    BY <2>1, <2>5
  <2>8. ASSUME NEW i \in 1..(m + 1)
        PROVE  h[i] = F[i][h[i - 1]]
    <3>1. i - 1 \in 0..m /\ h[i - 1] = g[i - 1]
      BY <2>5
    <3>2. CASE i <= m
      <4>1. i \in 1..m /\ h[i] = g[i]
        BY <2>5, <3>2
      <4> QED
        BY <2>1, <3>1, <4>1
    <3>3. CASE i = m + 1
      <4>1. h[i] = new /\ i - 1 = m
        BY <2>5, <3>3
      <4> QED
        BY <2>4, <3>1, <3>3, <4>1
    <3> QED
      BY <3>2, <3>3
  <2>9. m + 1 \in 0..k
    OBVIOUS
  <2> QED
    BY <2>6, <2>7, <2>8, <2>9
<1> HIDE DEF P
<1>3. \A i \in 0..(k - 1) : i \in P => i + 1 \in P
  BY <1>2
<1>4. 0..k \subseteq P
  BY Zenon, <1>1, <1>3, Onward
<1>5. k \in P
  BY <1>4
<1> QED
  BY <1>5 DEF P, Stepwise

(* So many bytes, in bits. *)
LEMMA Span ==
  ASSUME NEW a \in Nat
  PROVE  /\ a * ByteBits \in Nat
         /\ (a + 1) * ByteBits = a * ByteBits + ByteBits
         /\ 0 * ByteBits = 0 /\ 1 * ByteBits = ByteBits
BY Sizes

LEMMA SpanSum ==
  ASSUME NEW a \in Nat, NEW b \in Nat
  PROVE  (a + b) * ByteBits = a * ByteBits + b * ByteBits
BY Sizes

(* A sequence is as long as it is. *)
LEMMA LengthIs ==
  ASSUME NEW k \in Nat, NEW S, NEW d \in [1..k -> S]
  PROVE  Len(d) = k /\ DOMAIN d = 1..k
OBVIOUS

(* The word that bytes are packed in has their bits.                       *)
LEMMA PackIs ==
  ASSUME NEW k \in Nat, NEW d \in [1..k -> Byte]
  PROVE  /\ Pack(d) \in 0..(Pow(k * ByteBits) - 1)
         /\ \A p \in 0..(k * ByteBits - 1) : Bit(Pack(d), p) = At(d, p)
<1> DEFINE Unfold(f) == [i \in 1..(k + 1) |-> IF i > k THEN 0 ELSE d[i] + 2^ByteBits * f[i + 1]]
           from == CHOOSE f : f = Unfold(f)
<1>1. Pack(d) = from[1]
  <2>1. Len(d) = k
    BY LengthIs
  <2>2. Pack(d) = LET r == CHOOSE f : f = [i \in 1..(Len(d) + 1) |->
                           IF i > Len(d) THEN 0 ELSE d[i] + 2^ByteBits * f[i + 1]] IN r[1]
    BY Zenon DEF Pack
  <2> QED
    BY Zenon, <2>1, <2>2
<1>2. PICK B \in Nat \ {0} : B = 2^ByteBits /\ B = Pow(ByteBits)
  BY Sizes, PowIs DEF Pow
<1>3. \A i \in 1..k : d[i] \in Nat /\ d[i] \in 0..(B - 1)
  BY <1>2, Sizes DEF Byte
<1>4. \E f : f = Unfold(f)
  <2>1. PICK F : F = [j \in 1..k |-> [x \in Nat |-> d[k + 1 - j] + B * x]]
    OBVIOUS
  <2>2. F \in [1..k -> [Nat -> Nat]]
    <3>1. \A j \in 1..k, x \in Nat : d[k + 1 - j] + B * x \in Nat
      <4> SUFFICES ASSUME NEW j \in 1..k, NEW x \in Nat PROVE d[k + 1 - j] + B * x \in Nat
        OBVIOUS
      <4>1. k + 1 - j \in 1..k
        OBVIOUS
      <4>2. d[k + 1 - j] \in Nat
        BY <1>3, <4>1
      <4> QED
        BY <1>2, <4>2
    <3> QED
      BY <2>1, <3>1
  <2>9. 0 \in Nat
    OBVIOUS
  <2>10. PICK g \in [0..k -> Nat] : Stepwise(g, F, k, 0)
    BY Zenon, <2>2, <2>9, Iterates
  <2>3. g[0] = 0 /\ \A i \in 1..k : g[i] = F[i][g[i - 1]]
    BY Zenon, <2>10 DEF Stepwise
  <2>4. PICK f : f = [i \in 1..(k + 1) |-> g[k + 1 - i]]
    OBVIOUS
  <2>5. ASSUME NEW i \in 1..(k + 1)
        PROVE  f[i] = IF i > k THEN 0 ELSE d[i] + 2^ByteBits * f[i + 1]
    <3>1. f[i] = g[k + 1 - i]
      BY <2>4
    <3>2. CASE i > k
      <4>1. k + 1 - i = 0
        BY <3>2
      <4> QED
        BY <2>3, <3>1, <3>2, <4>1
    <3>3. CASE ~ (i > k)
      <4>1. PICK j : j = k + 1 - i
        OBVIOUS
      <4>2. j \in 1..k /\ k + 1 - j = i /\ j - 1 = k + 1 - (i + 1) /\ i + 1 \in 1..(k + 1) /\ j - 1 \in 0..k
        BY <3>3, <4>1
      <4>3. g[j] = d[i] + B * g[j - 1]
        BY <2>1, <2>3, <4>2
      <4>4. f[i + 1] = g[j - 1]
        BY <2>4, <4>2
      <4> QED
        BY <1>2, <3>1, <3>3, <4>1, <4>3, <4>4
    <3> QED
      BY <3>2, <3>3
  <2>6. f = Unfold(f)
    BY <2>4, <2>5
  <2> QED
    BY <2>6
<1>5. from = Unfold(from)
  BY <1>4
<1> HIDE DEF from
<1>6. \A i \in 1..(k + 1) : from[i] = IF i > k THEN 0 ELSE d[i] + B * from[i + 1]
  BY <1>2, <1>5
<1> DEFINE Fits(x, m) == /\ x \in 0..(Pow(m * ByteBits) - 1)
                         /\ \A p \in 0..(m * ByteBits - 1) : Bit(x, p) = At(d, (k - m) * ByteBits + p)
           P == {m \in 0..k : Fits(from[k + 1 - m], m)}
<1>7. 0 \in P
  <2>1. from[k + 1 - 0] = 0
    BY <1>6
  <2>2. 0 * ByteBits = 0 /\ Pow(0) = 1
    BY Span, PowIs
  <2> QED
    BY <2>1, <2>2
<1>8. ASSUME NEW m \in 0..(k - 1), m \in P
      PROVE  m + 1 \in P
  <2>1. PICK x, y, e : x = from[k + 1 - m] /\ y = from[k + 1 - (m + 1)] /\ e = k - (m + 1)
    OBVIOUS
  <2>2. e \in Nat /\ e + 1 \in 1..k /\ k + 1 - (m + 1) = e + 1 /\ k + 1 - m = (e + 1) + 1 /\ k - m = e + 1 /\ m \in Nat
    BY <2>1
  <2>3. Fits(x, m)
    BY <1>8, <2>1
  <2>4. y = B * x + d[e + 1]
    <3>1. y = d[e + 1] + B * x
      BY <1>6, <2>1, <2>2
    <3>2. x \in Nat
      <4>1. Pow(m * ByteBits) \in Nat
        BY <2>2, Span, PowIs
      <4> QED
        BY <2>3, <4>1
    <3> QED
      BY <1>2, <1>3, <2>2, <3>1, <3>2
  <2>5. PICK n \in Nat : n = m * ByteBits /\ (m + 1) * ByteBits = ByteBits + n
    BY <2>2, Span, Sizes
  <2>6. y \in 0..(Pow(ByteBits + n) - 1)
    BY <1>2, <1>3, <2>2, <2>3, <2>4, <2>5, Sizes, Join
  <2>7. ASSUME NEW p \in 0..((m + 1) * ByteBits - 1)
        PROVE  Bit(y, p) = At(d, (k - (m + 1)) * ByteBits + p)
    <3>1. PICK E \in Nat : E = e * ByteBits /\ (e + 1) * ByteBits = E + ByteBits
      BY <2>2, Span
    <3>2. p \in Nat /\ x \in Nat
      <4>1. Pow(n) \in Nat
        BY PowIs
      <4> QED
        BY <2>3, <2>5, <4>1, Sizes
    <3>5. ByteBits \in Nat /\ d[e + 1] \in 0..(Pow(ByteBits) - 1) /\ y = Pow(ByteBits) * x + d[e + 1]
      BY <1>2, <1>3, <2>2, <2>4, Sizes
    <3>6. /\ p < ByteBits => Bit(y, p) = Bit(d[e + 1], p)
          /\ p >= ByteBits => Bit(y, p) = Bit(x, p - ByteBits)
      BY <3>2, <3>5, BitSplit
    <3>3. CASE p < ByteBits
      <4>1. Bit(y, p) = Bit(d[e + 1], p)
        BY <3>3, <3>6
      <4>2. p \in 0..(ByteBits - 1)
        BY <3>2, <3>3, Sizes
      <4>3. At(d, e * ByteBits + p) = Bit(d[e + 1], p)
        BY <2>2, <4>2, AtPlace
      <4> QED
        BY <2>1, <4>1, <4>3
    <3>4. CASE p >= ByteBits
      <4>1. Bit(y, p) = Bit(x, p - ByteBits)
        BY <3>4, <3>6
      <4>2. p - ByteBits \in 0..(n - 1)
        BY <2>5, <3>2, <3>4, Sizes
      <4>3. Bit(x, p - ByteBits) = At(d, (e + 1) * ByteBits + (p - ByteBits))
        BY <2>2, <2>3, <2>5, <4>2
      <4>4. (e + 1) * ByteBits + (p - ByteBits) = e * ByteBits + p
        BY <3>1, <3>2, Sizes
      <4> QED
        BY <2>1, <4>1, <4>3, <4>4
    <3> QED
      BY <3>2, <3>3, <3>4, Sizes
  <2>8. Fits(y, m + 1)
    BY <2>5, <2>6, <2>7
  <2>9. m + 1 \in 0..k
    OBVIOUS
  <2> QED
    BY <2>1, <2>8, <2>9
<1> HIDE DEF P
<1>9. k \in P
  <2>1. \A m \in 0..(k - 1) : m \in P => m + 1 \in P
    BY <1>8
  <2>2. 0..k \subseteq P
    BY Zenon, <1>7, <2>1, Onward
  <2> QED
    BY <2>2
<1>10. Fits(from[1], k)
  <2>1. k + 1 - k = 1
    OBVIOUS
  <2> QED
    BY <1>9, <2>1 DEF P
<1>11. (k - k) * ByteBits = 0
  BY Span
<1>12. \A p \in 0..(k * ByteBits - 1) : 0 + p = p
  BY Span
<1> QED
  BY <1>1, <1>10, <1>11, <1>12

(* A word that overflows keeps its low bits, and a byte of a word has its  *)
(* bits (Wrap, ByteOf).                                                    *)
LEMMA WrapBits ==
  ASSUME NEW u \in Nat
  PROVE  /\ Wrap(u) \in Nat
         /\ \A i \in Nat : i < WordBits => Bit(Wrap(u), i) = Bit(u, i)
         /\ \A i \in Nat : Bit(u, i) = 0 => Bit(Wrap(u), i) = 0
<1>1. WordBits \in Nat
  BY Sizes
<1>2. CASE WordBits < 31
  <2>1. Wrap(u) = u % Pow(WordBits)
    BY <1>2 DEF Wrap, Pow
  <2>2. u % Pow(WordBits) \in Nat
    <3>1. u % Pow(WordBits) \in 0..(Pow(WordBits) - 1) /\ Pow(WordBits) \in Nat
      BY <1>1, BitsOfMod, PowIs
    <3> QED
      BY <3>1
  <2>3. \A i \in Nat : Bit(u % Pow(WordBits), i) = IF i < WordBits THEN Bit(u, i) ELSE 0
    BY <1>1, BitsOfMod
  <2> QED
    BY <2>1, <2>2, <2>3
<1>3. CASE ~ (WordBits < 31)
  BY <1>3 DEF Wrap
<1> QED
  BY <1>2, <1>3

LEMMA ByteOfBits ==
  ASSUME NEW u \in Nat, NEW i \in Nat
  PROVE  /\ ByteOf(u, i) \in Byte
         /\ \A j \in 0..(ByteBits - 1) : Bit(ByteOf(u, i), j) = Bit(u, i * ByteBits + j)
<1>1. PICK n \in Nat : n = ByteBits * i /\ n = i * ByteBits
  BY Sizes, Span
<1>2. PICK x \in Nat : x = u \div Pow(n) /\ \A j \in Nat : Bit(x, j) = Bit(u, j + n)
  BY BitsOfDiv
<1>3. ByteOf(u, i) = x % Pow(ByteBits)
  BY <1>1, <1>2 DEF ByteOf, Pow
<1>4. ByteBits \in Nat
  BY Sizes
<1>5. /\ x % Pow(ByteBits) \in 0..(Pow(ByteBits) - 1)
      /\ \A j \in Nat : Bit(x % Pow(ByteBits), j) = IF j < ByteBits THEN Bit(x, j) ELSE 0
  BY <1>4, BitsOfMod
<1>6. ASSUME NEW j \in 0..(ByteBits - 1)
      PROVE  Bit(ByteOf(u, i), j) = Bit(u, i * ByteBits + j)
  <2>1. j \in Nat /\ j < ByteBits /\ j + n = n + j
    BY <1>4
  <2> QED
    BY <1>1, <1>2, <1>3, <1>5, <2>1
<1> QED
  BY <1>3, <1>5, <1>6 DEF Byte

(* The low bits of one byte below the high bits of another. *)
LEMMA ByteParts ==
  ASSUME NEW o \in Byte, NEW s \in 0..(ByteBits - 1)
  PROVE  /\ o \in Nat /\ s \in Nat /\ ByteBits - s \in Nat /\ s + (ByteBits - s) = ByteBits
         /\ Pow(s) \in Nat \ {0}
         /\ o % Pow(s) \in 0..(Pow(s) - 1)
         /\ o \div Pow(s) \in 0..(Pow(ByteBits - s) - 1) /\ o \div Pow(s) \in Nat
         /\ \A i \in Nat : Bit(o % Pow(s), i) = IF i < s THEN Bit(o, i) ELSE 0
         /\ \A i \in Nat : Bit(o \div Pow(s), i) = Bit(o, i + s)
<1>1. o \in Nat /\ s \in Nat /\ ByteBits - s \in Nat /\ s + (ByteBits - s) = ByteBits
  BY Sizes
<1>2. o \in 0..(Pow(s + (ByteBits - s)) - 1)
  BY <1>1 DEF Byte
<1>3. o \div Pow(s) \in 0..(Pow(ByteBits - s) - 1)
  BY <1>1, <1>2, HighPart
<1> QED
  BY <1>1, <1>3, PowIs, BitsOfMod, BitsOfDiv

LEMMA PartsMeet ==
  ASSUME NEW s \in 0..(ByteBits - 1), NEW r \in 0..(Pow(s) - 1),
         NEW q \in 0..(Pow(ByteBits - s) - 1), NEW v, v = Pow(s) * q + r
  PROVE  /\ v \in Byte
         /\ \A i \in Nat : Bit(v, i) = IF i < s THEN Bit(r, i) ELSE Bit(q, i - s)
<1>1. s \in Nat /\ ByteBits - s \in Nat /\ s + (ByteBits - s) = ByteBits
  BY Sizes
<1>2. v \in 0..(Pow(s + (ByteBits - s)) - 1)
  BY <1>1, Join
<1>3. v \in Byte
  BY <1>1, <1>2 DEF Byte
<1>4. q \in Nat
  BY <1>1, PowIs
<1>5. \A i \in Nat : Bit(v, i) = IF i < s THEN Bit(r, i) ELSE Bit(q, i - s)
  BY <1>1, <1>4, BitSplit
<1> QED
  BY <1>3, <1>5

(* The first byte that a word reaches keeps its low bits, the last one its *)
(* high ones (PutBlock).                                                   *)
LEMMA LowKept ==
  ASSUME NEW o \in Byte, NEW b \in Byte, NEW s \in 0..(ByteBits - 1),
         \A i \in 0..(s - 1) : Bit(b, i) = 0
  PROVE  /\ (o % 2^s) + b \in Byte
         /\ \A i \in 0..(ByteBits - 1) :
              Bit((o % 2^s) + b, i) = IF i < s THEN Bit(o, i) ELSE Bit(b, i)
<1>1. PICK P, r, q : P = Pow(s) /\ r = o % P /\ q = b \div P
  OBVIOUS
<1>2. /\ P \in Nat \ {0} /\ r \in 0..(P - 1) /\ q \in 0..(Pow(ByteBits - s) - 1) /\ q \in Nat /\ s \in Nat
      /\ \A i \in Nat : Bit(r, i) = IF i < s THEN Bit(o, i) ELSE 0
      /\ \A i \in Nat : Bit(q, i) = Bit(b, i + s)
      /\ b \in Nat
  BY <1>1, ByteParts
<1>3. b = P * q
  BY <1>1, <1>2, LowZero
<1>4. PICK v : v = r + b
  OBVIOUS
<1>5. v = P * q + r
  BY <1>2, <1>3, <1>4
<1>6. v \in Byte /\ \A i \in Nat : Bit(v, i) = IF i < s THEN Bit(r, i) ELSE Bit(q, i - s)
  BY <1>1, <1>2, <1>5, PartsMeet
<1>7. ASSUME NEW i \in 0..(ByteBits - 1)
      PROVE  Bit(v, i) = IF i < s THEN Bit(o, i) ELSE Bit(b, i)
  <2>1. i \in Nat /\ (i >= s => i - s \in Nat /\ (i - s) + s = i)
    BY <1>2, Sizes
  <2> QED
    BY <1>2, <1>6, <2>1
<1> QED
  BY <1>1, <1>4, <1>6, <1>7 DEF Pow

LEMMA HighKept ==
  ASSUME NEW o \in Byte, NEW b \in Byte, NEW s \in 0..(ByteBits - 1),
         \A i \in s..(ByteBits - 1) : Bit(b, i) = 0
  PROVE  /\ ((o \div 2^s) * 2^s) + b \in Byte
         /\ \A i \in 0..(ByteBits - 1) :
              Bit(((o \div 2^s) * 2^s) + b, i) = IF i < s THEN Bit(b, i) ELSE Bit(o, i)
<1>1. PICK P, q : P = Pow(s) /\ q = o \div P
  OBVIOUS
<1>2. /\ P \in Nat \ {0} /\ q \in 0..(Pow(ByteBits - s) - 1) /\ q \in Nat /\ s \in Nat
      /\ \A i \in Nat : Bit(q, i) = Bit(o, i + s)
      /\ b \in Nat /\ ByteBits - s \in Nat /\ s + (ByteBits - s) = ByteBits
  BY <1>1, ByteParts
<1>3. b \in 0..(P - 1)
  <2>1. PICK k \in Nat : k = ByteBits - s /\ s + k = ByteBits
    BY <1>2
  <2>2. b \in 0..(Pow(s + k) - 1)
    BY <2>1 DEF Byte
  <2>3. \A i \in s..(s + k - 1) : Bit(b, i) = 0
    BY <2>1
  <2>4. b \in 0..(Pow(s) - 1)
    BY Zenon, <1>2, <2>1, <2>2, <2>3, HighZero
  <2> QED
    BY <1>1, <2>4
<1>4. PICK v : v = (q * P) + b
  OBVIOUS
<1>5. v = P * q + b
  BY <1>2, <1>4
<1>6. v \in Byte /\ \A i \in Nat : Bit(v, i) = IF i < s THEN Bit(b, i) ELSE Bit(q, i - s)
  BY <1>1, <1>2, <1>3, <1>5, PartsMeet
<1>7. ASSUME NEW i \in 0..(ByteBits - 1)
      PROVE  Bit(v, i) = IF i < s THEN Bit(b, i) ELSE Bit(o, i)
  <2>1. i \in Nat /\ (i >= s => i - s \in Nat /\ (i - s) + s = i)
    BY <1>2, Sizes
  <2> QED
    BY <1>2, <1>6, <2>1
<1> QED
  BY <1>1, <1>4, <1>6, <1>7 DEF Pow

(* One bit of a byte, as writeBit sets it. *)
LEMMA BitSet ==
  ASSUME NEW o \in Byte, NEW j \in 0..(ByteBits - 1), NEW b \in {0, 1}
  PROVE  /\ (o % 2^j) + 2^j * (b + 2 * (o \div 2^(j + 1))) \in Byte
         /\ \A i \in 0..(ByteBits - 1) :
              Bit((o % 2^j) + 2^j * (b + 2 * (o \div 2^(j + 1))), i) = IF i = j THEN b ELSE Bit(o, i)
<1>1. PICK P, r, h : P = Pow(j) /\ r = o % P /\ h = o \div Pow(j + 1)
  OBVIOUS
<1>2. /\ P \in Nat \ {0} /\ r \in 0..(P - 1) /\ j \in Nat
      /\ \A i \in Nat : Bit(r, i) = IF i < j THEN Bit(o, i) ELSE 0
  BY <1>1, ByteParts
<1>3. PICK rest \in Nat : rest = ByteBits - (j + 1)
  BY Sizes
<1>4. h \in 0..(Pow(rest) - 1) /\ h \in Nat /\ \A i \in Nat : Bit(h, i) = Bit(o, i + (j + 1))
  <2>1. j + 1 \in Nat /\ (j + 1) + rest = ByteBits /\ o \in Nat
    BY <1>2, <1>3, Sizes
  <2>2. o \in 0..(Pow((j + 1) + rest) - 1)
    BY <2>1 DEF Byte
  <2>3. h \in 0..(Pow(rest) - 1)
    BY Zenon, <1>1, <1>3, <2>1, <2>2, HighPart
  <2>4. h \in Nat /\ \A i \in Nat : Bit(h, i) = Bit(o, i + (j + 1))
    BY Zenon, <1>1, <2>1, BitsOfDiv
  <2> QED
    BY <2>3, <2>4
<1>5. PICK q : q = b + 2 * h
  OBVIOUS
<1>6. Pow(1) = 2
  <2>1. Pow(0 + 1) = 2 * Pow(0) /\ Pow(0) = 1
    BY PowIs
  <2> QED
    BY <2>1
<1>7. q = Pow(1) * h + b /\ b \in 0..(Pow(1) - 1) /\ b \in Nat
  BY <1>4, <1>5, <1>6
<1>8. q \in 0..(Pow(ByteBits - j) - 1)
  <2>1. q \in 0..(Pow(1 + rest) - 1)
    BY <1>3, <1>4, <1>7, Join
  <2>2. 1 + rest = ByteBits - j
    BY <1>2, <1>3, Sizes
  <2> QED
    BY <2>1, <2>2
<1>9. \A i \in Nat : Bit(q, i) = IF i < 1 THEN Bit(b, i) ELSE Bit(h, i - 1)
  <2> SUFFICES ASSUME NEW i \in Nat PROVE Bit(q, i) = IF i < 1 THEN Bit(b, i) ELSE Bit(h, i - 1)
    OBVIOUS
  <2>1. PICK n \in Nat : n = 1
    OBVIOUS
  <2>3. h \in Nat /\ b \in 0..(Pow(n) - 1) /\ q = Pow(n) * h + b
    BY <1>4, <1>7, <2>1
  <2>4. (i < n => Bit(q, i) = Bit(b, i)) /\ (i >= n => Bit(q, i) = Bit(h, i - n))
    BY <2>3, BitSplit
  <2>2. (i < 1 => Bit(q, i) = Bit(b, i)) /\ (i >= 1 => Bit(q, i) = Bit(h, i - 1))
    BY <2>1, <2>4
  <2> QED
    BY <2>2
<1>10. Bit(b, 0) = b
  <2>1. b \div 1 = b /\ b % 2 = b
    OBVIOUS
  <2> QED
    BY <2>1, PowIs DEF Bit
<1>11. PICK v : v = r + P * q
  OBVIOUS
<1>12. v = P * q + r
  <2>1. q \in Nat
    BY <1>4, <1>5
  <2> QED
    BY <1>2, <1>11, <2>1
<1>13. v \in Byte /\ \A i \in Nat : Bit(v, i) = IF i < j THEN Bit(r, i) ELSE Bit(q, i - j)
  BY <1>1, <1>2, <1>8, <1>12, PartsMeet
<1>14. ASSUME NEW i \in 0..(ByteBits - 1)
       PROVE  Bit(v, i) = IF i = j THEN b ELSE Bit(o, i)
  <2>0. i \in Nat
    OBVIOUS
  <2>1. CASE i < j
    BY <1>2, <1>13, <2>0, <2>1
  <2>2. CASE i = j
    <3>1. i - j = 0 /\ ~ (i < j)
      BY <1>2, <2>2
    <3> QED
      BY <1>9, <1>10, <1>13, <2>0, <2>2, <3>1
  <2>3. CASE i > j
    <3>1. PICK m \in Nat : m = (i - j) - 1 /\ i - j \in Nat /\ ~ (i - j < 1) /\ m + (j + 1) = i /\ ~ (i < j)
      BY <1>2, <2>0, <2>3
    <3> QED
      BY <1>2, <1>4, <1>9, <1>13, <2>0, <2>3, <3>1
  <2> QED
    BY <1>2, <2>0, <2>1, <2>2, <2>3
<1>15. r + P * q = (o % 2^j) + 2^j * (b + 2 * (o \div 2^(j + 1)))
  BY Zenon, <1>1, <1>5 DEF Pow
<1> QED
  BY <1>11, <1>13, <1>14, <1>15

-----------------------------------------------------------------------------
(* The word of a block, shifted: the bits of the block between zeros. *)
LEMMA WordOf ==
  ASSUME NEW k \in Nat, NEW block \in [1..k -> Byte], NEW shift \in 0..(ByteBits - 1),
         k * ByteBits + shift <= WordBits,
         NEW u, u = Wrap(Pack(block) * 2^shift), NEW q \in Nat
  PROVE  /\ u \in Nat
         /\ Bit(u, q) = IF q \in shift..(shift + k * ByteBits - 1) THEN At(block, q - shift) ELSE 0
<1>1. PICK K \in Nat : K = k * ByteBits
  BY Span
<1>2. shift \in Nat /\ WordBits \in Nat /\ K + shift <= WordBits
  BY <1>1, Sizes
<1>3. PICK x : x = Pack(block)
  OBVIOUS
<1>4. x \in 0..(Pow(K) - 1) /\ x \in Nat /\ \A p \in 0..(K - 1) : Bit(x, p) = At(block, p)
  <2>1. x \in 0..(Pow(K) - 1) /\ \A p \in 0..(K - 1) : Bit(x, p) = At(block, p)
    BY <1>1, <1>3, PackIs
  <2>2. Pow(K) \in Nat
    BY PowIs
  <2> QED
    BY <2>1, <2>2
<1>5. PICK y \in Nat : y = x * Pow(shift) /\ \A i \in Nat : Bit(y, i) = IF i < shift THEN 0 ELSE Bit(x, i - shift)
  <2>1. x * Pow(shift) \in Nat /\ \A i \in Nat : Bit(x * Pow(shift), i) = IF i < shift THEN 0 ELSE Bit(x, i - shift)
    BY Zenon, <1>2, <1>4, BitsOfTimes
  <2> QED
    BY <2>1
<1>6. u = Wrap(y)
  BY <1>3, <1>5 DEF Pow
<1>7. u \in Nat /\ (q < WordBits => Bit(u, q) = Bit(y, q)) /\ (Bit(y, q) = 0 => Bit(u, q) = 0)
  BY <1>6, WrapBits
<1>8. CASE q < shift
  BY <1>1, <1>2, <1>5, <1>7, <1>8
<1>9. CASE q \in shift..(shift + K - 1)
  <2>1. q - shift \in 0..(K - 1) /\ q < WordBits /\ ~ (q < shift)
    BY <1>2, <1>9
  <2> QED
    BY <1>1, <1>4, <1>5, <1>7, <1>9, <2>1
<1>10. CASE q >= shift + K
  <2>1. q - shift \in Nat /\ q - shift >= K /\ ~ (q < shift) /\ q \notin shift..(shift + K - 1)
    BY <1>2, <1>10
  <2>2. Bit(x, q - shift) = 0
    BY <1>4, <2>1, BitsBeyond
  <2> QED
    BY <1>1, <1>5, <1>7, <2>1, <2>2
<1> QED
  BY <1>2, <1>7, <1>8, <1>9, <1>10

(* One byte of those that the word reaches. *)
NewByte(u, i, k, shift, o) ==
  IF i = 0 THEN (o % 2^shift) + ByteOf(u, 0)
  ELSE IF i = k THEN ((o \div 2^shift) * 2^shift) + ByteOf(u, k)
  ELSE ByteOf(u, i)
InWord(q, k, shift) == q \in shift..(shift + k * ByteBits - 1)

LEMMA ByteOfWord ==
  ASSUME NEW k \in Nat \ {0}, NEW block \in [1..k -> Byte], NEW shift \in 0..(ByteBits - 1),
         k * ByteBits + shift <= WordBits,
         NEW u, u = Wrap(Pack(block) * 2^shift), NEW i \in 0..k, NEW o \in Byte,
         NEW v, v = NewByte(u, i, k, shift, o)
  PROVE  /\ v \in Byte
         /\ \A j \in 0..(ByteBits - 1) :
              Bit(v, j) = IF InWord(i * ByteBits + j, k, shift)
                          THEN At(block, i * ByteBits + j - shift) ELSE Bit(o, j)
<1> USE DEF InWord
<1> DEFINE In(q) == q \in shift..(shift + k * ByteBits - 1)
<1>1. PICK K \in Nat, I \in Nat : K = k * ByteBits /\ I = i * ByteBits
  <2>1. k \in Nat /\ i \in Nat
    OBVIOUS
  <2> QED
    BY <2>1, Span
<1>2. shift \in Nat /\ ByteBits \in Nat /\ ByteBits > shift
  BY Sizes
<1>3. \A q \in Nat : u \in Nat /\ Bit(u, q) = IF In(q) THEN At(block, q - shift) ELSE 0
  BY WordOf
<1>4. PICK b \in Byte : b = ByteOf(u, i) /\ \A j \in 0..(ByteBits - 1) : Bit(b, j) = Bit(u, I + j)
  <2>1. u \in Nat
    BY <1>3
  <2> QED
    BY <1>1, <2>1, ByteOfBits
<1>5. \A j \in 0..(ByteBits - 1) : Bit(b, j) = IF In(I + j) THEN At(block, I + j - shift) ELSE 0
  <2> SUFFICES ASSUME NEW j \in 0..(ByteBits - 1)
               PROVE  Bit(b, j) = IF In(I + j) THEN At(block, I + j - shift) ELSE 0
    OBVIOUS
  <2>2. I + j \in Nat
    BY <1>1
  <2>3. Bit(b, j) = Bit(u, I + j)
    BY <1>4
  <2>1. I + j \in Nat /\ Bit(b, j) = Bit(u, I + j)
    BY <2>2, <2>3
  <2> HIDE DEF In
  <2> QED
    BY <1>3, <2>1
<1>6. CASE i = 0
  <2>1. I = 0 /\ ByteBits <= K
    <3>1. 0 * ByteBits = 0
      BY Span
    <3>2. PICK m \in Nat : k = m + 1
      <4>1. k - 1 \in Nat /\ k = (k - 1) + 1
        OBVIOUS
      <4> QED
        BY <4>1
    <3>3. K = m * ByteBits + ByteBits /\ m * ByteBits \in Nat
      BY <1>1, <3>2, Span
    <3> QED
      BY <1>1, <1>2, <1>6, <3>1, <3>3
  <2>2. \A j \in 0..(ByteBits - 1) : In(I + j) <=> j >= shift
    BY <1>1, <1>2, <2>1
  <2>3. \A j \in 0..(shift - 1) : Bit(b, j) = 0
    <3>1. \A j \in 0..(shift - 1) : j \in 0..(ByteBits - 1) /\ ~ (j >= shift)
      BY <1>2
    <3> QED
      BY <1>5, <2>2, <3>1
  <2>4. v = (o % 2^shift) + b
    BY <1>4, <1>6 DEF NewByte
  <2>5. v \in Byte /\ \A j \in 0..(ByteBits - 1) : Bit(v, j) = IF j < shift THEN Bit(o, j) ELSE Bit(b, j)
    BY <2>3, <2>4, LowKept
  <2>6. ASSUME NEW j \in 0..(ByteBits - 1)
        PROVE  Bit(v, j) = IF In(I + j) THEN At(block, I + j - shift) ELSE Bit(o, j)
    <3>1. j < shift <=> ~ (j >= shift)
      BY <1>2
    <3> HIDE DEF In
    <3> QED
      BY <1>5, <2>2, <2>5, <3>1
  <2> QED
    BY <1>1, <2>5, <2>6
<1>7. CASE i = k
  <2>1. I = K /\ i # 0
    BY <1>1, <1>7
  <2>2. \A j \in 0..(ByteBits - 1) : In(I + j) <=> j < shift
    BY <1>1, <1>2, <2>1, Span
  <2>3. \A j \in shift..(ByteBits - 1) : Bit(b, j) = 0
    <3>1. \A j \in shift..(ByteBits - 1) : j \in 0..(ByteBits - 1) /\ ~ (j < shift)
      BY <1>2
    <3> QED
      BY <1>5, <2>2, <3>1
  <2>4. v = ((o \div 2^shift) * 2^shift) + b
    BY <1>4, <1>7, <2>1 DEF NewByte
  <2>5. v \in Byte /\ \A j \in 0..(ByteBits - 1) : Bit(v, j) = IF j < shift THEN Bit(b, j) ELSE Bit(o, j)
    BY <2>3, <2>4, HighKept
  <2>6. ASSUME NEW j \in 0..(ByteBits - 1)
        PROVE  Bit(v, j) = IF In(I + j) THEN At(block, I + j - shift) ELSE Bit(o, j)
    <3> HIDE DEF In
    <3> QED
      BY <1>5, <2>2, <2>5
  <2> QED
    BY <1>1, <2>5, <2>6
<1>8. CASE i # 0 /\ i # k
  <2>1. v = b
    BY <1>4, <1>8 DEF NewByte
  <2>2. I >= ByteBits /\ I + ByteBits <= K
    <3>1. PICK m \in Nat, n \in Nat : i = m + 1 /\ k = (i + 1) + n
      <4>1. i - 1 \in Nat /\ i = (i - 1) + 1 /\ k - (i + 1) \in Nat /\ k = (i + 1) + (k - (i + 1))
        BY <1>8
      <4> QED
        BY <4>1
    <3>2. I = m * ByteBits + ByteBits /\ m * ByteBits \in Nat
      BY <1>1, <3>1, Span
    <3>3. K = (I + ByteBits) + n * ByteBits /\ n * ByteBits \in Nat
      <4>1. i + 1 \in Nat /\ i \in Nat
        OBVIOUS
      <4>2. (i + 1) * ByteBits = I + ByteBits /\ n * ByteBits \in Nat
        BY <1>1, <4>1, Span
      <4>3. ((i + 1) + n) * ByteBits = (i + 1) * ByteBits + n * ByteBits
        BY <4>1, SpanSum
      <4> QED
        BY <1>1, <3>1, <4>2, <4>3
    <3> QED
      BY <1>1, <1>2, <3>2, <3>3
  <2>3. \A j \in 0..(ByteBits - 1) : In(I + j)
    BY <1>1, <1>2, <2>2
  <2> QED
    BY <1>1, <1>4, <1>5, <2>1, <2>3
<1> QED
  BY <1>6, <1>7, <1>8

(* A block is put at a place, and nothing else is touched. *)
(* e is d with the first w bytes of out from bit shift of byte a on.       *)
Laid(d, e, out, a, shift, w, size) ==
  \A p \in 0..(size * ByteBits - 1) :
    At(e, p) = IF p \in (a * ByteBits + shift)..(a * ByteBits + shift + w * ByteBits - 1)
               THEN At(out, p - (a * ByteBits + shift)) ELSE At(d, p)

LEMMA PutIs ==
  ASSUME NEW size \in Nat, NEW d \in [1..size -> Byte], NEW a \in Nat, NEW k \in Nat \ {0},
         NEW block \in [1..k -> Byte], NEW shift \in 0..(ByteBits - 1),
         a + 1 + k <= size, k * ByteBits + shift <= WordBits,
         NEW e, e = PutBlock(d, a + 1, block, shift)
  PROVE  e \in [1..size -> Byte] /\ Laid(d, e, block, a, shift, k, size)
<1> DEFINE u == Wrap(Pack(block) * 2^shift)
           dst == a + 1
           new(i) == IF i = dst THEN (d[i] % 2^shift) + ByteOf(u, 0)
                     ELSE IF i = dst + k THEN ((d[i] \div 2^shift) * 2^shift) + ByteOf(u, k)
                     ELSE IF i \in dst..(dst + k) THEN ByteOf(u, i - dst) ELSE d[i]
<1>1. e = [i \in 1..size |-> new(i)]
  <2>1. Len(block) = k /\ DOMAIN d = 1..size
    BY LengthIs
  <2>2. e = [i \in DOMAIN d |->
              IF i = dst THEN (d[i] % 2^shift) + ByteOf(u, 0)
              ELSE IF i = dst + Len(block) THEN ((d[i] \div 2^shift) * 2^shift) + ByteOf(u, Len(block))
              ELSE IF i \in dst..(dst + Len(block)) THEN ByteOf(u, i - dst) ELSE d[i]]
    BY Zenon DEF PutBlock
  <2> QED
    BY Zenon, <2>1, <2>2
<1>2. ASSUME NEW i \in 0..k
      PROVE  /\ e[a + 1 + i] \in Byte
             /\ \A j \in 0..(ByteBits - 1) :
                  Bit(e[a + 1 + i], j) = IF InWord(i * ByteBits + j, k, shift)
                    THEN At(block, i * ByteBits + j - shift) ELSE Bit(d[a + 1 + i], j)
  <2>1. PICK v, o, w : v = e[a + 1 + i] /\ o = d[a + 1 + i] /\ w = u
    OBVIOUS
  <2>2. a + 1 + i \in 1..size /\ o \in Byte
    BY <2>1
  <2>3. v = NewByte(w, i, k, shift, o)
    <3>1. v = new(a + 1 + i)
      BY <1>1, <2>1, <2>2
    <3>2. PICK z, y, x : z = a + 1 + i /\ y = dst /\ x = dst + k
      OBVIOUS
    <3>3. (z = y <=> i = 0) /\ (z = x <=> i = k) /\ z \in y..x /\ z - y = i
      BY <3>2
    <3>4. new(z) = IF z = y THEN (d[z] % 2^shift) + ByteOf(u, 0)
                   ELSE IF z = x THEN ((d[z] \div 2^shift) * 2^shift) + ByteOf(u, k)
                   ELSE IF z \in y..x THEN ByteOf(u, z - y) ELSE d[z]
      BY Zenon, <3>2
    <3> HIDE DEF u, dst, new
    <3>5. new(z) = IF i = 0 THEN (d[z] % 2^shift) + ByteOf(u, 0)
                   ELSE IF i = k THEN ((d[z] \div 2^shift) * 2^shift) + ByteOf(u, k)
                   ELSE ByteOf(u, i)
      BY Zenon, <3>3, <3>4
    <3> QED
      BY Zenon, <2>1, <3>1, <3>2, <3>5 DEF NewByte
  <2>4. w = Wrap(Pack(block) * 2^shift)
    BY <2>1
  <2> HIDE DEF u
  <2>5. /\ v \in Byte
        /\ \A j \in 0..(ByteBits - 1) :
             Bit(v, j) = IF InWord(i * ByteBits + j, k, shift)
                         THEN At(block, i * ByteBits + j - shift) ELSE Bit(o, j)
    BY <2>2, <2>3, <2>4, ByteOfWord
  <2> QED
    BY <2>1, <2>5
<1>3. \A i \in 1..size : i \notin (a + 1)..(a + 1 + k) => e[i] = d[i]
  BY <1>1
<1> HIDE DEF u, new, dst
<1>4. e \in [1..size -> Byte]
  <2>1. ASSUME NEW i \in 1..size
        PROVE  e[i] \in Byte
    <3>1. CASE i \in (a + 1)..(a + 1 + k)
      <4>1. i - (a + 1) \in 0..k /\ a + 1 + (i - (a + 1)) = i
        BY <3>1
      <4> QED
        BY <1>2, <4>1
    <3> QED
      BY <1>3, <3>1
  <2> QED
    BY <1>1, <2>1
<1>5. ASSUME NEW p \in 0..(size * ByteBits - 1)
      PROVE  At(e, p) = IF p \in (a * ByteBits + shift)..(a * ByteBits + shift + k * ByteBits - 1)
                        THEN At(block, p - (a * ByteBits + shift)) ELSE At(d, p)
  <2>0. PICK Z \in Nat : Z = size * ByteBits
    BY Span
  <2>1. p \in Nat /\ p < size * ByteBits
    BY <2>0
  <2>2. PICK c \in Nat, j \in Nat : j \in 0..(ByteBits - 1) /\ p = c * ByteBits + j
    BY <2>1, PlaceOf
  <2>3. c < size
    <3>1. c >= size => p >= size * ByteBits
      BY <2>2, Before
    <3> QED
      BY <2>0, <2>1, <3>1
  <2>4. At(e, p) = Bit(e[c + 1], j) /\ At(d, p) = Bit(d[c + 1], j)
    BY <2>2, AtPlace
  <2>5. PICK A, K \in Nat : A = a * ByteBits /\ K = k * ByteBits
    BY Span
  <2>6. shift \in Nat /\ ByteBits \in Nat /\ ByteBits > shift
    BY Sizes
  <2>7. CASE c < a
    <3>1. p < A
      BY <2>2, <2>5, <2>7, Before
    <3>2. e[c + 1] = d[c + 1]
      BY <1>3, <2>3, <2>7
    <3> QED
      BY <2>1, <2>4, <2>5, <2>6, <3>1, <3>2
  <2>8. CASE c > a + k
    <3>1. p >= ((a + k) + 1) * ByteBits
      BY <2>2, <2>8, Before
    <3>2. ((a + k) + 1) * ByteBits = (A + K) + ByteBits
      <4>1. a + k \in Nat /\ (a + k) * ByteBits = A + K
        BY <2>5, SpanSum
      <4> QED
        BY <4>1, Span
    <3>3. e[c + 1] = d[c + 1]
      BY <1>3, <2>3, <2>8
    <3> QED
      BY <2>1, <2>4, <2>5, <2>6, <3>1, <3>2, <3>3
  <2>9. CASE c \in a..(a + k)
    <3>1. PICK i \in 0..k : c = a + i /\ a + 1 + i = c + 1
      <4>1. c - a \in 0..k /\ c = a + (c - a) /\ a + 1 + (c - a) = c + 1
        BY <2>9
      <4> QED
        BY <4>1
    <3>5. i \in Nat
      OBVIOUS
    <3>2. PICK I \in Nat : I = i * ByteBits /\ c * ByteBits = A + I
      BY <2>5, <3>1, <3>5, Span, SpanSum
    <3>3. Bit(e[c + 1], j) = IF I + j \in shift..(shift + K - 1) THEN At(block, I + j - shift) ELSE Bit(d[c + 1], j)
      BY <1>2, <2>2, <2>5, <3>1, <3>2 DEF InWord
    <3>4. /\ p = A + (I + j) /\ p - (A + shift) = I + j - shift
          /\ p \in (A + shift)..(A + shift + K - 1) <=> I + j \in shift..(shift + K - 1)
      BY <2>2, <2>5, <2>6, <3>2
    <3> QED
      BY <2>4, <2>5, <3>3, <3>4
  <2> QED
    BY <2>2, <2>7, <2>8, <2>9
<1> QED
  BY <1>4, <1>5 DEF Laid

(* A part of a sequence. *)
LEMMA SubIs ==
  ASSUME NEW size \in Nat, NEW S, NEW d \in [1..size -> S], NEW a \in Nat, NEW k \in Nat, a + k <= size
  PROVE  /\ SubSeq(d, a + 1, a + k) \in [1..k -> S]
         /\ \A i \in 1..k : SubSeq(d, a + 1, a + k)[i] = d[a + i]
<1>1. d \in Seq(S)
  OBVIOUS
<1>2. \A i \in 1..k : a + i \in 1..size /\ d[a + i] \in S
  OBVIOUS
<1>3. PICK t : t = SubSeq(d, a + 1, a + k)
  OBVIOUS
<1>4. t \in Seq(S) /\ Len(t) = k
  BY <1>1, <1>3
<1>5. \A i \in 1..k : t[i] = d[a + i]
  BY <1>1, <1>3
<1>6. t \in [1..k -> S]
  BY <1>4
<1> QED
  BY <1>3, <1>5, <1>6

(* out is the bytes of d from a position on. *)
Taken(d, pos, out, w) ==
  /\ out \in [1..w -> Byte]
  /\ \A p \in 0..(w * ByteBits - 1) : At(out, p) = At(d, pos + p)

(* The bytes that a word holds of those from a position on. *)
LEMMA GetIs ==
  ASSUME NEW size \in Nat, NEW d \in [1..size -> Byte], NEW a \in Nat, NEW k \in Nat \ {0},
         NEW shift \in 0..(ByteBits - 1),
         a + 1 + k <= size, k * ByteBits + shift <= WordBits,
         NEW g, g = GetBlock(d, a + 1, k, shift)
  PROVE  Taken(d, a * ByteBits + shift, g, k)
<1>1. PICK A \in Nat, K \in Nat, W \in Nat :
        A = a * ByteBits /\ K = k * ByteBits /\ W = (k + 1) * ByteBits /\ W = K + ByteBits
  <2>1. k \in Nat
    OBVIOUS
  <2>2. a * ByteBits \in Nat /\ k * ByteBits \in Nat /\ (k + 1) * ByteBits = k * ByteBits + ByteBits
    BY <2>1, Span
  <2>3. ByteBits \in Nat
    BY Sizes
  <2> QED
    BY <2>2, <2>3
<1>2. shift \in Nat /\ ByteBits \in Nat /\ ByteBits > shift /\ WordBits \in Nat /\ K + shift <= WordBits
  BY <1>1, Sizes
<1>3. PICK t : t = SubSeq(d, a + 1, a + (k + 1))
  OBVIOUS
<1>4. t \in [1..(k + 1) -> Byte] /\ \A i \in 1..(k + 1) : t[i] = d[a + i]
  <2>1. k + 1 \in Nat /\ a + (k + 1) <= size
    OBVIOUS
  <2>2. PICK m \in Nat : m = k + 1
    BY <2>1
  <2>3. a + m <= size /\ t = SubSeq(d, a + 1, a + m)
    BY <1>3, <2>1, <2>2
  <2>4. t \in [1..m -> Byte] /\ \A i \in 1..m : t[i] = d[a + i]
    BY <2>3, SubIs
  <2> QED
    BY <2>2, <2>4
<1>5. PICK x : x = Pack(t)
  OBVIOUS
<1>6. x \in Nat /\ \A q \in 0..(W - 1) : Bit(x, q) = At(t, q)
  <2>1. k + 1 \in Nat
    OBVIOUS
  <2>2. x \in 0..(Pow(W) - 1) /\ \A q \in 0..(W - 1) : Bit(x, q) = At(t, q)
    BY <1>1, <1>4, <1>5, <2>1, PackIs
  <2>3. Pow(W) \in Nat
    BY PowIs
  <2> QED
    BY <2>2, <2>3
<1>7. PICK w \in Nat : w = Wrap(x) /\ \A i \in Nat : i < WordBits => Bit(w, i) = Bit(x, i)
  BY <1>6, WrapBits
<1>8. PICK u \in Nat : u = w \div Pow(shift) /\ \A i \in Nat : Bit(u, i) = Bit(w, i + shift)
  <2>1. w \div Pow(shift) \in Nat /\ \A i \in Nat : Bit(w \div Pow(shift), i) = Bit(w, i + shift)
    BY Zenon, <1>2, <1>7, BitsOfDiv
  <2>2. PICK u \in Nat : u = w \div Pow(shift)
    BY <2>1
  <2>3. \A i \in Nat : Bit(u, i) = Bit(w, i + shift)
    BY Zenon, <2>1, <2>2
  <2> QED
    BY <2>2, <2>3
<1>9. g = [i \in 1..k |-> ByteOf(u, i - 1)]
  <2>1. a + 1 + k = a + (k + 1)
    OBVIOUS
  <2>2. g = [i \in 1..k |-> ByteOf(Wrap(Pack(SubSeq(d, a + 1, a + 1 + k))) \div 2^shift, i - 1)]
    BY Zenon DEF GetBlock
  <2> QED
    BY Zenon, <1>3, <1>5, <1>7, <1>8, <2>1, <2>2 DEF Pow
<1>10. ASSUME NEW c \in 0..(k - 1)
       PROVE  g[c + 1] \in Byte /\ \A j \in 0..(ByteBits - 1) : Bit(g[c + 1], j) = Bit(u, c * ByteBits + j)
  <2>1. c + 1 \in 1..k /\ (c + 1) - 1 = c /\ c \in Nat
    OBVIOUS
  <2>2. g[c + 1] = ByteOf(u, c)
    BY <1>9, <2>1
  <2> QED
    BY <2>1, <2>2, ByteOfBits
<1>11. g \in [1..k -> Byte]
  <2>1. ASSUME NEW i \in 1..k
        PROVE  g[i] \in Byte
    <3>1. i - 1 \in 0..(k - 1) /\ (i - 1) + 1 = i
      OBVIOUS
    <3> QED
      BY <1>10, <3>1
  <2> QED
    BY <1>9, <2>1
<1>12. ASSUME NEW p \in 0..(k * ByteBits - 1)
       PROVE  At(g, p) = At(d, a * ByteBits + shift + p)
  <2>1. p \in Nat /\ p < K
    BY <1>1
  <2>2. PICK c \in Nat, j \in Nat : j \in 0..(ByteBits - 1) /\ p = c * ByteBits + j
    BY <2>1, PlaceOf
  <2>3. c \in 0..(k - 1)
    <3>1. c >= k => p >= K
      BY <1>1, <2>2, Before
    <3> QED
      BY <2>1, <3>1
  <2>4. At(g, p) = Bit(g[c + 1], j)
    BY <2>2, AtPlace
  <2>5. Bit(g[c + 1], j) = Bit(u, p)
    BY <1>10, <2>2, <2>3
  <2>6. Bit(u, p) = Bit(x, p + shift)
    <3>1. p + shift \in Nat /\ p + shift < WordBits
      BY <1>2, <2>1
    <3> QED
      BY <1>7, <1>8, <2>1, <3>1
  <2>7. Bit(x, p + shift) = At(t, p + shift)
    <3>1. p + shift \in 0..(W - 1)
      BY <1>1, <1>2, <2>1
    <3> QED
      BY <1>6, <3>1
  <2>8. At(t, p + shift) = At(d, A + (p + shift))
    <3>1. p + shift \in Nat
      BY <1>2, <2>1
    <3>2. PICK e \in Nat, f \in Nat : f \in 0..(ByteBits - 1) /\ p + shift = e * ByteBits + f
      <4>1. PICK z \in Nat : z = p + shift
        BY <3>1
      <4>2. \E e \in Nat, f \in 0..(ByteBits - 1) : z = e * ByteBits + f
        BY Zenon, <4>1, PlaceOf
      <4> QED
        BY <4>1, <4>2
    <3>3. e \in 0..k
      <4>1. e >= k + 1 => p + shift >= W
        BY <1>1, <3>2, Before
      <4> QED
        BY <1>1, <1>2, <2>1, <4>1
    <3>4. At(t, p + shift) = Bit(t[e + 1], f)
      BY <3>2, AtPlace
    <3>5. t[e + 1] = d[(a + e) + 1]
      <4>1. e + 1 \in 1..(k + 1) /\ a + (e + 1) = (a + e) + 1
        BY <3>3
      <4> QED
        BY <1>4, <4>1
    <3>6. a + e \in Nat /\ (a + e) * ByteBits + f = A + (p + shift)
      <4>1. PICK E \in Nat : E = e * ByteBits
        BY Span
      <4>2. (a + e) * ByteBits = A + E
        BY <1>1, <4>1, SpanSum
      <4> QED
        BY <3>1, <3>2, <4>1, <4>2, <1>1
    <3>7. At(d, (a + e) * ByteBits + f) = Bit(d[(a + e) + 1], f)
      BY <3>2, <3>6, AtPlace
    <3> QED
      BY <3>4, <3>5, <3>6, <3>7
  <2>9. A + (p + shift) = a * ByteBits + shift + p
    BY <1>1, <1>2, <2>1
  <2> QED
    BY <2>4, <2>5, <2>6, <2>7, <2>8, <2>9
<1> QED
  BY <1>11, <1>12 DEF Taken

-----------------------------------------------------------------------------
(* The streams with a buffer of so many bytes. *)
Errors == {"Ok", "Overflow", "BadArg", "Eof", "BadData"}
Streams(size) ==
  [data : [1..size -> Byte], bitPos : 0..(size * ByteBits), streamErr : Errors]

(* t is s after n bits f. *)
Puts(s, t, f, n, size) ==
  /\ ~ ok(s) => t = s
  /\ s.bitPos <= t.bitPos
  /\ ok(t) => /\ t.bitPos = s.bitPos + n
              /\ \A p \in 0..(n - 1) : At(t.data, s.bitPos + p) = f[p]
  /\ \A p \in 0..(size * ByteBits - 1) :
       p < s.bitPos \/ p >= t.bitPos => At(t.data, p) = At(s.data, p)

(* What such a stream is made of, and where its position is. *)
LEMMA StreamIs ==
  ASSUME NEW size \in Nat, NEW s \in Streams(size)
  PROVE  /\ s = [data |-> s.data, bitPos |-> s.bitPos, streamErr |-> s.streamErr]
         /\ s.data \in [1..size -> Byte]
         /\ s.bitPos \in Nat /\ s.bitPos <= size * ByteBits /\ size * ByteBits \in Nat
         /\ s.streamErr \in Errors
         /\ Size(s) = size
         /\ byteIndex(s) \in Nat /\ bitIndex(s) \in 0..(ByteBits - 1)
         /\ s.bitPos = byteIndex(s) * ByteBits + bitIndex(s)
<1>1. size * ByteBits \in Nat
  BY Span
<1>2. /\ s = [data |-> s.data, bitPos |-> s.bitPos, streamErr |-> s.streamErr]
      /\ s.data \in [1..size -> Byte]
      /\ s.bitPos \in Nat /\ s.bitPos <= size * ByteBits
      /\ s.streamErr \in Errors
  BY <1>1 DEF Streams
<1>3. Size(s) = size
  BY <1>2, LengthIs DEF Size
<1>4. PICK p \in Nat : p = s.bitPos
  BY <1>2
<1>5. \E a \in Nat, j \in 0..(ByteBits - 1) : p = a * ByteBits + j /\ a = p \div ByteBits /\ j = p % ByteBits
  BY PlaceOf
<1> QED
  BY <1>1, <1>2, <1>3, <1>4, <1>5 DEF byteIndex, bitIndex

LEMMA StreamMade ==
  ASSUME NEW size \in Nat, NEW d \in [1..size -> Byte], NEW p \in Nat, p <= size * ByteBits,
         NEW e \in Errors
  PROVE  [data |-> d, bitPos |-> p, streamErr |-> e] \in Streams(size)
<1>1. p \in 0..(size * ByteBits)
  BY Span
<1> QED
  BY <1>1 DEF Streams

(* writeBit puts one bit, and touches no other. *)
LEMMA PutBit ==
  ASSUME NEW size \in Nat, NEW s \in Streams(size), NEW b \in {0, 1}, NEW f, f[0] = b,
         NEW t, t = writeBit(s, b)
  PROVE  t \in Streams(size) /\ Puts(s, t, f, 1, size)
<1> DEFINE i == byteIndex(s) + 1
           v == (s.data[i] % 2^bitIndex(s))
                  + 2^bitIndex(s) * (b + 2 * (s.data[i] \div 2^(bitIndex(s) + 1)))
<1>1. t = IF ~ ok(s) THEN s
      ELSE IF i > Size(s) THEN fail(s, "Overflow")
      ELSE advance([s EXCEPT !.data[i] = v], 1)
  BY Zenon DEF writeBit
<1>2. PICK d, pos, err : s = [data |-> d, bitPos |-> pos, streamErr |-> err]
  BY StreamIs
<1>3. PICK a \in Nat, j \in Nat : a = byteIndex(s) /\ j = bitIndex(s)
  BY StreamIs
<1>4. PICK End \in Nat : End = size * ByteBits
  BY StreamIs
<1>5. PICK A \in Nat : A = a * ByteBits
  BY Span
<1>6. /\ d \in [1..size -> Byte] /\ pos \in Nat /\ pos <= End /\ err \in Errors
      /\ Size(s) = size /\ j \in 0..(ByteBits - 1) /\ pos = A + j
      /\ s.data = d /\ s.bitPos = pos /\ s.streamErr = err
  BY <1>2, <1>3, <1>4, <1>5, StreamIs
<1>7. ok(s) <=> err = "Ok"
  BY <1>6 DEF ok
<1>8. CASE ~ ok(s)
  BY <1>1, <1>6, <1>7, <1>8 DEF Puts
<1>9. CASE ok(s) /\ i > Size(s)
  <2>1. t = [data |-> d, bitPos |-> pos, streamErr |-> "Overflow"]
    BY <1>1, <1>2, <1>9 DEF fail
  <2>2. t \in Streams(size)
    BY <1>4, <1>6, <2>1, StreamMade DEF Errors
  <2> QED
    BY <1>6, <1>9, <2>1, <2>2 DEF Puts, ok
<1>10. CASE ok(s) /\ ~ (i > Size(s))
  <2>1. a + 1 \in 1..size /\ d[a + 1] \in Byte
    BY <1>3, <1>6, <1>10
  <2>2. PICK o \in Byte : o = d[a + 1]
    BY <2>1
  <2>3. PICK w : w = (o % 2^j) + 2^j * (b + 2 * (o \div 2^(j + 1)))
    OBVIOUS
  <2>4. w = v
    BY Zenon, <1>3, <1>6, <2>2, <2>3
  <2>5. w \in Byte /\ \A x \in 0..(ByteBits - 1) : Bit(w, x) = IF x = j THEN b ELSE Bit(o, x)
    <3>1. j \in 0..(ByteBits - 1)
      BY <1>6
    <3>2. /\ (o % 2^j) + 2^j * (b + 2 * (o \div 2^(j + 1))) \in Byte
          /\ \A x \in 0..(ByteBits - 1) :
               Bit((o % 2^j) + 2^j * (b + 2 * (o \div 2^(j + 1))), x) = IF x = j THEN b ELSE Bit(o, x)
      BY Zenon, <3>1, BitSet
    <3> QED
      BY Zenon, <2>3, <3>2
  <2> HIDE DEF v
  <2>6. PICK e : e = [d EXCEPT ![a + 1] = w]
    OBVIOUS
  <2>7. /\ e \in [1..size -> Byte] /\ e[a + 1] = w
        /\ \A x \in 1..size : x # a + 1 => e[x] = d[x]
    BY <1>6, <2>1, <2>5, <2>6
  <2>8. t = [data |-> e, bitPos |-> pos + 1, streamErr |-> "Ok"]
    BY <1>1, <1>2, <1>3, <1>7, <1>10, <2>4, <2>6 DEF advance
  <2>9. pos + 1 <= End
    <3>1. a < size
      BY <2>1
    <3>2. A + j < End
      BY <1>4, <1>5, <1>6, <3>1, Before
    <3> QED
      BY <1>6, <3>2
  <2>10. t \in Streams(size)
    <3>1. pos + 1 \in Nat /\ pos + 1 <= size * ByteBits /\ "Ok" \in Errors
      BY <1>4, <1>6, <2>9 DEF Errors
    <3> QED
      BY Zenon, <2>7, <2>8, <3>1, StreamMade
  <2>11. At(e, pos) = b
    <3>1. At(e, A + j) = Bit(w, j)
      BY <1>5, <1>6, <2>7, AtPlace
    <3> QED
      BY <1>6, <2>5, <3>1
  <2>12. ASSUME NEW p \in 0..(End - 1), p # pos
         PROVE  At(e, p) = At(d, p)
    <3>1. PICK c \in Nat, x \in Nat : x \in 0..(ByteBits - 1) /\ p = c * ByteBits + x
      BY PlaceOf
    <3>2. c \in 0..(size - 1)
      <4>1. c >= size => p >= End
        BY <1>4, <3>1, Before
      <4> QED
        BY <4>1
    <3>3. At(e, p) = Bit(e[c + 1], x) /\ At(d, p) = Bit(d[c + 1], x)
      BY <3>1, AtPlace
    <3>4. CASE c = a
      <4>1. x # j
        BY <1>5, <1>6, <2>12, <3>1, <3>4
      <4> QED
        BY <2>2, <2>5, <2>7, <3>1, <3>3, <3>4, <4>1
    <3>5. CASE c # a
      <4>1. c + 1 \in 1..size /\ c + 1 # a + 1
        BY <3>2, <3>5
      <4> QED
        BY <2>7, <3>3, <4>1
    <3> QED
      BY <3>4, <3>5
  <2>13. t.data = e /\ t.bitPos = pos + 1
    BY <2>8
  <2>14. \A p \in 0..(1 - 1) : At(t.data, s.bitPos + p) = f[p]
    <3>1. \A p \in 0..(1 - 1) : p = 0 /\ pos + p = pos
      BY <1>6
    <3> QED
      BY <1>6, <2>11, <2>13, <3>1
  <2>15. \A p \in 0..(size * ByteBits - 1) :
           p < s.bitPos \/ p >= t.bitPos => At(t.data, p) = At(s.data, p)
    <3>1. \A p \in 0..(End - 1) : p < pos \/ p >= pos + 1 => p # pos
      BY <1>6
    <3> QED
      BY <1>4, <1>6, <2>12, <2>13, <3>1
  <2> QED
    BY <1>6, <1>10, <2>10, <2>13, <2>14, <2>15 DEF Puts
<1> QED
  BY <1>8, <1>9, <1>10

(* One after the other. *)
LEMMA PutsOn ==
  ASSUME NEW size \in Nat, NEW s \in Streams(size), NEW t \in Streams(size), NEW u \in Streams(size),
         NEW f, NEW g, NEW m \in Nat, NEW n \in Nat,
         Puts(s, t, f, m, size), Puts(t, u, g, n, size),
         \A p \in 0..(n - 1) : g[p] = f[m + p]
  PROVE  Puts(s, u, f, m + n, size)
<1>1. PICK End \in Nat : End = size * ByteBits
  BY StreamIs
<1>2. PICK S \in Nat, T \in Nat, U \in Nat : S = s.bitPos /\ T = t.bitPos /\ U = u.bitPos
  BY StreamIs
<1>3. S <= T /\ T <= U /\ U <= End
  BY <1>1, <1>2, StreamIs DEF Puts
<1>4. ~ ok(s) => u = s
  BY DEF Puts
<1>5. \A p \in 0..(End - 1) : p < S \/ p >= T => At(t.data, p) = At(s.data, p)
  BY <1>1, <1>2 DEF Puts
<1>6. \A p \in 0..(End - 1) : p < T \/ p >= U => At(u.data, p) = At(t.data, p)
  BY <1>1, <1>2 DEF Puts
<1>7. \A p \in 0..(End - 1) : p < S \/ p >= U => At(u.data, p) = At(s.data, p)
  <2>1. ASSUME NEW p \in 0..(End - 1), p < S \/ p >= U
        PROVE  (p < S \/ p >= T) /\ (p < T \/ p >= U)
    BY <1>3, <2>1
  <2> QED
    BY <1>5, <1>6, <2>1
<1>8. ASSUME ok(u)
      PROVE  U = S + (m + n) /\ \A p \in 0..((m + n) - 1) : At(u.data, S + p) = f[p]
  <2>1. ok(t)
    BY <1>8 DEF Puts
  <2>2. T = S + m /\ U = T + n
    BY <1>2, <1>8, <2>1 DEF Puts
  <2>3. \A p \in 0..(m - 1) : At(t.data, S + p) = f[p]
    BY <1>2, <2>1 DEF Puts
  <2>4. \A p \in 0..(n - 1) : At(u.data, T + p) = g[p]
    BY <1>2, <1>8 DEF Puts
  <2>5. ASSUME NEW p \in 0..((m + n) - 1)
        PROVE  At(u.data, S + p) = f[p]
    <3>1. CASE p < m
      <4>1. p \in 0..(m - 1) /\ S + p \in 0..(End - 1) /\ S + p < T
        BY <1>3, <2>2, <3>1
      <4> QED
        BY <1>6, <2>3, <4>1
    <3>2. CASE ~ (p < m)
      <4>1. PICK q \in 0..(n - 1) : p = m + q
        <5>1. p - m \in 0..(n - 1) /\ p = m + (p - m)
          BY <3>2
        <5> QED
          BY <5>1
      <4>2. S + p = T + q
        BY <2>2, <4>1
      <4> QED
        BY <2>4, <4>1, <4>2
    <3> QED
      BY <3>1, <3>2
  <2> QED
    BY <2>2, <2>5
<1> QED
  BY <1>1, <1>2, <1>3, <1>4, <1>7, <1>8 DEF Puts

LEMMA PutsNone ==
  ASSUME NEW size \in Nat, NEW s \in Streams(size), NEW f
  PROVE  Puts(s, s, f, 0, size)
BY StreamIs DEF Puts

(* Bits of bytes that were taken out. *)
LEMMA AtSub ==
  ASSUME NEW size \in Nat, NEW d \in [1..size -> Byte], NEW a \in Nat, NEW k \in Nat, a + k <= size,
         NEW p \in 0..(k * ByteBits - 1)
  PROVE  At(SubSeq(d, a + 1, a + k), p) = At(d, a * ByteBits + p)
<1>1. PICK t : t = SubSeq(d, a + 1, a + k)
  OBVIOUS
<1>2. \A i \in 1..k : t[i] = d[a + i]
  BY <1>1, SubIs
<1>3. PICK A \in Nat, K \in Nat : A = a * ByteBits /\ K = k * ByteBits
  BY Span
<1>4. PICK c \in Nat, x \in Nat : x \in 0..(ByteBits - 1) /\ p = c * ByteBits + x
  <2>1. p \in Nat
    BY <1>3
  <2> QED
    BY <2>1, PlaceOf
<1>5. c \in 0..(k - 1)
  <2>1. c >= k => p >= K
    BY <1>3, <1>4, Before
  <2> QED
    BY <1>3, <2>1
<1>6. At(t, p) = Bit(t[c + 1], x)
  BY <1>4, AtPlace
<1>7. t[c + 1] = d[(a + c) + 1]
  <2>1. c + 1 \in 1..k /\ a + (c + 1) = (a + c) + 1
    BY <1>5
  <2> QED
    BY <1>2, <2>1
<1>8. At(d, (a + c) * ByteBits + x) = Bit(d[(a + c) + 1], x)
  <2>1. a + c \in Nat
    OBVIOUS
  <2> QED
    BY <1>4, <2>1, AtPlace
<1>9. (a + c) * ByteBits + x = A + p
  <2>1. PICK C \in Nat : C = c * ByteBits
    BY Span
  <2>2. (a + c) * ByteBits = A + C
    BY <1>3, <2>1, SpanSum
  <2> QED
    BY <1>3, <1>4, <2>1, <2>2
<1> QED
  BY <1>1, <1>3, <1>6, <1>7, <1>8, <1>9

(* One block more is laid. *)
LEMMA LaidOn ==
  ASSUME NEW size \in Nat, NEW base, NEW d \in [1..size -> Byte], NEW length \in Nat,
         NEW out \in [1..length -> Byte], NEW a \in Nat, NEW shift \in 0..(ByteBits - 1),
         NEW w \in Nat, NEW k \in Nat \ {0}, w + k <= length,
         a + w + 1 + k <= size, k * ByteBits + shift <= WordBits,
         Laid(base, d, out, a, shift, w, size),
         NEW e, e = PutBlock(d, a + w + 1, SubSeq(out, w + 1, w + k), shift)
  PROVE  e \in [1..size -> Byte] /\ Laid(base, e, out, a, shift, w + k, size)
<1>1. PICK block : block = SubSeq(out, w + 1, w + k)
  OBVIOUS
<1>2. block \in [1..k -> Byte]
  <2>1. k \in Nat
    OBVIOUS
  <2> QED
    BY <1>1, <2>1, SubIs
<1>3. PICK A \in Nat, W \in Nat : A = a * ByteBits /\ W = w * ByteBits
  BY Span
<1>4. PICK K \in Nat, AW \in Nat, WK \in Nat : K = k * ByteBits /\ AW = A + W /\ WK = W + K
  <2>1. k \in Nat
    OBVIOUS
  <2>2. PICK K \in Nat : K = k * ByteBits
    BY <2>1, Span
  <2> QED
    BY <2>2
<1>14. AW = (a + w) * ByteBits /\ WK = (w + k) * ByteBits
  <2>1. (a + w) * ByteBits = a * ByteBits + w * ByteBits
    BY SpanSum
  <2>2. (w + k) * ByteBits = w * ByteBits + k * ByteBits
    BY SpanSum
  <2> QED
    BY <1>3, <1>4, <2>1, <2>2
<1>15. /\ AW = A + W /\ WK = W + K /\ A \in Nat /\ W \in Nat /\ K \in Nat /\ AW \in Nat /\ WK \in Nat
  BY <1>3, <1>4
<1>5. shift \in Nat
  BY Sizes
<1>6. PICK c \in Nat : c = a + w
  OBVIOUS
<1>7. /\ e \in [1..size -> Byte]
      /\ \A p \in 0..(size * ByteBits - 1) :
           At(e, p) = IF p \in (AW + shift)..(AW + shift + K - 1)
                      THEN At(block, p - (AW + shift)) ELSE At(d, p)
  <2>1. c + 1 + k <= size /\ e = PutBlock(d, c + 1, block, shift)
    BY <1>1, <1>6
  <2>2. /\ e \in [1..size -> Byte]
        /\ \A p \in 0..(size * ByteBits - 1) :
             At(e, p) = IF p \in (c * ByteBits + shift)..(c * ByteBits + shift + k * ByteBits - 1)
                        THEN At(block, p - (c * ByteBits + shift)) ELSE At(d, p)
    <3>1. e \in [1..size -> Byte] /\ Laid(d, e, block, c, shift, k, size)
      BY <1>2, <2>1, PutIs
    <3> QED
      BY <3>1 DEF Laid
  <2>3. c * ByteBits = AW
    BY <1>6, <1>14
  <2> QED
    BY <1>4, <2>2, <2>3
<1>8. ASSUME NEW p \in 0..(size * ByteBits - 1)
      PROVE  At(e, p) = IF p \in (A + shift)..(A + shift + WK - 1)
                        THEN At(out, p - (A + shift)) ELSE At(base, p)
  <2>1. p \in Nat
    <3>1. size * ByteBits \in Nat
      BY Span
    <3> QED
      BY <3>1
  <2>2. CASE p \in (AW + shift)..(AW + shift + K - 1)
    <3>1. PICK q \in Nat : q = p - (AW + shift)
      BY <1>5, <2>2
    <3>2. q \in 0..(k * ByteBits - 1)
      <4>1. q \in 0..(K - 1)
        BY <1>5, <1>15, <2>1, <2>2, <3>1
      <4> QED
        BY <1>4, <4>1
    <3>3. At(block, q) = At(out, w * ByteBits + q)
      <4>1. k \in Nat
        OBVIOUS
      <4>2. At(SubSeq(out, w + 1, w + k), q) = At(out, w * ByteBits + q)
        BY <3>2, <4>1, AtSub
      <4> QED
        BY <1>1, <4>2
    <3>4. w * ByteBits + q = p - (A + shift)
      <4>1. W + q = p - (A + shift)
        BY <1>5, <1>15, <2>1, <3>1
      <4> QED
        BY <1>3, <4>1
    <3>5. p \in (A + shift)..(A + shift + WK - 1)
      BY <1>5, <1>15, <2>1, <2>2
    <3> QED
      BY <1>7, <2>2, <3>1, <3>3, <3>4, <3>5
  <2>3. CASE ~ (p \in (AW + shift)..(AW + shift + K - 1))
    <3>1. At(e, p) = At(d, p)
      BY <1>7, <2>3
    <3>2. At(d, p) = IF p \in (A + shift)..(A + shift + W - 1)
                     THEN At(out, p - (A + shift)) ELSE At(base, p)
      BY <1>3 DEF Laid
    <3>3. p \in (A + shift)..(A + shift + W - 1) <=> p \in (A + shift)..(A + shift + WK - 1)
      BY <1>5, <1>15, <2>1, <2>3
    <3> QED
      BY <3>1, <3>2, <3>3
  <2> QED
    BY <2>2, <2>3
<1> QED
  BY <1>3, <1>7, <1>8, <1>14 DEF Laid

LEMMA LaidNone ==
  ASSUME NEW size \in Nat, NEW d, NEW out, NEW a \in Nat, NEW shift \in 0..(ByteBits - 1)
  PROVE  Laid(d, d, out, a, shift, 0, size)
<1>1. PICK A \in Nat : A = a * ByteBits
  BY Span
<1>2. 0 * ByteBits = 0 /\ shift \in Nat
  BY Span, Sizes
<1>3. \A p : ~ (p \in (A + shift)..(A + shift + 0 - 1))
  BY <1>2
<1> QED
  BY <1>1, <1>2, <1>3 DEF Laid

(* Whole bytes. *)
CopyOf(d, out, a, count, size) ==
  [i \in 1..size |-> IF i \in (a + 1)..(a + 1 + count - 1) THEN out[i - (a + 1) + 1] ELSE d[i]]

LEMMA Copied ==
  ASSUME NEW size \in Nat, NEW d \in [1..size -> Byte], NEW length \in Nat,
         NEW out \in [1..length -> Byte], NEW a \in Nat, NEW count \in Nat, count <= length,
         a + count <= size,
         NEW e, e = CopyOf(d, out, a, count, size)
  PROVE  e \in [1..size -> Byte] /\ Laid(d, e, out, a, 0, count, size)
<1> USE DEF CopyOf
<1>1. e \in [1..size -> Byte]
  <2>1. ASSUME NEW i \in 1..size
        PROVE  e[i] \in Byte
    <3>1. i \in (a + 1)..(a + 1 + count - 1) => i - (a + 1) + 1 \in 1..length
      OBVIOUS
    <3> QED
      BY <3>1
  <2> QED
    BY <2>1
<1>2. PICK A \in Nat, C \in Nat : A = a * ByteBits /\ C = count * ByteBits
  BY Span
<1>3. ASSUME NEW p \in 0..(size * ByteBits - 1)
      PROVE  At(e, p) = IF p \in (A + 0)..(A + 0 + C - 1) THEN At(out, p - (A + 0)) ELSE At(d, p)
  <2>1. PICK E \in Nat : E = size * ByteBits
    BY Span
  <2>2. PICK c \in Nat, x \in Nat : x \in 0..(ByteBits - 1) /\ p = c * ByteBits + x
    <3>1. p \in Nat
      BY <2>1
    <3> QED
      BY <3>1, PlaceOf
  <2>3. c \in 0..(size - 1)
    <3>1. c >= size => p >= E
      BY <2>1, <2>2, Before
    <3> QED
      BY <2>1, <3>1
  <2>4. At(e, p) = Bit(e[c + 1], x) /\ At(d, p) = Bit(d[c + 1], x)
    BY <2>2, AtPlace
  <2>5. PICK N \in Nat : N = a + count
    OBVIOUS
  <2>6. N * ByteBits = A + C
    BY <1>2, <2>5, SpanSum
  <2>7. (c < a => p < A) /\ (c >= a => p >= A) /\ (c < N => p < A + C) /\ (c >= N => p >= A + C)
    BY <1>2, <2>2, <2>6, Before
  <2>8. CASE c \in a..(N - 1)
    <3>1. PICK z \in Nat : z = c - a
      BY <2>8
    <3>2. e[c + 1] = out[z + 1]
      <4>1. c + 1 \in 1..size /\ c + 1 \in (a + 1)..(a + 1 + count - 1) /\ (c + 1) - (a + 1) + 1 = z + 1
        BY <2>3, <2>5, <2>8, <3>1
      <4> QED
        BY <4>1
    <3>3. PICK Z \in Nat : Z = z * ByteBits
      BY Span
    <3>4. z * ByteBits + x = p - A
      <4>1. c = a + z
        BY <3>1
      <4>2. c * ByteBits = A + Z
        BY <1>2, <3>3, <4>1, SpanSum
      <4> QED
        BY <2>2, <3>3, <4>2
    <3>5. At(out, z * ByteBits + x) = Bit(out[z + 1], x)
      BY <2>2, AtPlace
    <3>6. p \in (A + 0)..(A + 0 + C - 1) /\ p - (A + 0) = p - A
      BY <2>2, <2>7, <2>8
    <3> QED
      BY <2>4, <3>2, <3>4, <3>5, <3>6
  <2>9. CASE ~ (c \in a..(N - 1))
    <3>1. e[c + 1] = d[c + 1]
      <4>1. c + 1 \in 1..size /\ ~ (c + 1 \in (a + 1)..(a + 1 + count - 1))
        BY <2>3, <2>5, <2>9
      <4> QED
        BY <4>1
    <3>2. ~ (p \in (A + 0)..(A + 0 + C - 1))
      BY <2>2, <2>5, <2>7, <2>9
    <3> QED
      BY <2>4, <3>1, <3>2
  <2> QED
    BY <2>8, <2>9
<1> QED
  BY <1>1, <1>2, <1>3 DEF Laid

(* The words that count bytes go through after a shift. *)
LEMMA BlocksAre ==
  ASSUME NEW shift \in 0..(ByteBits - 1), NEW count \in Nat
  PROVE  \E n \in Nat : \E w \in [0..n -> 0..count] :
           /\ w[0] = 0 /\ w[n] = count
           /\ Len(Blocks(count, shift)) = n
           /\ \A j \in 1..n :
                /\ w[j] - w[j - 1] \in Nat \ {0}
                /\ (w[j] - w[j - 1]) * ByteBits + shift <= WordBits
                /\ Blocks(count, shift)[j] = [first |-> w[j - 1], size |-> w[j] - w[j - 1]]
<1>1. PICK most : most = MaxBlock(shift)
  OBVIOUS
<1>2. most \in Nat \ {0} /\ most * ByteBits + shift <= WordBits
  <2>1. PICK room \in Nat : room = WordBits - shift /\ room >= ByteBits
    BY BitStreamAssumption
  <2>2. PICK x \in Nat, r \in Nat : room = x * ByteBits + r /\ x = room \div ByteBits
    <3>1. \E a \in Nat, j \in 0..(ByteBits - 1) : room = a * ByteBits + j /\ a = room \div ByteBits
      BY PlaceOf
    <3>2. \A j \in 0..(ByteBits - 1) : j \in Nat
      BY Sizes
    <3> QED
      BY <3>1, <3>2
  <2>3. x = most
    BY <1>1, <2>1, <2>2 DEF MaxBlock
  <2>4. PICK X \in Nat : X = x * ByteBits
    BY Span
  <2>5. x # 0
    <3>1. \E a \in Nat, j \in 0..(ByteBits - 1) : room = a * ByteBits + j /\ a = room \div ByteBits
      BY PlaceOf
    <3>2. PICK j \in 0..(ByteBits - 1) : room = x * ByteBits + j
      BY <2>2, <3>1
    <3>3. x = 0 => x * ByteBits = 0
      BY Span
    <3>4. j < ByteBits
      BY Sizes
    <3> QED
      BY <2>1, <3>2, <3>3, <3>4, Sizes
  <2>6. X + shift <= WordBits
    BY <2>1, <2>2, <2>4, Sizes
  <2> QED
    BY <2>3, <2>4, <2>5, <2>6
<1>3. PICK n : n = (count + most - 1) \div most
  OBVIOUS
<1>4. /\ n \in Nat
      /\ n * most >= count
      /\ \A j \in 1..n : (j - 1) * most < count
  <2>1. PICK x \in Nat : x = count + most - 1
    BY <1>2
  <2>2. PICK r \in Nat : n \in Nat /\ r \in 0..(most - 1) /\ x = most * n + r
    <3>1. x \div most \in Nat /\ x % most \in 0..(most - 1) /\ x = most * (x \div most) + (x % most)
      BY <1>2, DivTells
    <3>2. PICK q \in Nat, z \in Nat : q = x \div most /\ z = x % most
      BY <1>2, <3>1
    <3>3. x = most * q + z /\ z \in 0..(most - 1)
      BY <3>1, <3>2
    <3> QED
      BY <1>3, <2>1, <3>2, <3>3
  <2>3. PICK N \in Nat : N = n * most /\ N = most * n
    BY <1>2, <2>2
  <2>4. N >= count
    BY <1>2, <2>1, <2>2, <2>3
  <2>5. ASSUME NEW j \in 1..n
        PROVE  (j - 1) * most < count
    <3>1. PICK i \in Nat : i = j - 1 /\ i < n
      BY <2>2
    <3>2. most * i + most <= most * n
      BY <1>2, <2>2, <3>1, Times
    <3>3. PICK M \in Nat : M = i * most /\ M = most * i
      BY <1>2, <3>1
    <3>4. M + most <= N
      BY <2>3, <3>2, <3>3
    <3>5. M < count
      BY <1>2, <2>1, <2>2, <2>3, <3>4
    <3> QED
      BY <3>1, <3>3, <3>5
  <2> QED
    BY <2>2, <2>3, <2>4, <2>5
<1>5. PICK w : w = [j \in 0..n |-> Least(j * most, count)]
  OBVIOUS
<1>6. ASSUME NEW j \in 0..n
      PROVE  w[j] \in 0..count /\ w[j] = IF j * most < count THEN j * most ELSE count
  <2>1. PICK J \in Nat : J = j * most
    BY <1>2, <1>4
  <2> QED
    BY <1>5, <2>1 DEF Least
<1>7. w[0] = 0 /\ w[n] = count
  <2>1. 0 \in 0..n /\ n \in 0..n
    BY <1>4
  <2>2. 0 * most = 0
    BY <1>2
  <2>3. PICK N \in Nat : N = n * most
    BY <1>2, <1>4
  <2> QED
    BY <1>4, <1>6, <2>1, <2>2, <2>3
<1>8. PICK blocks : blocks = Blocks(count, shift)
  OBVIOUS
<1>9. blocks = [j \in 1..n |-> [first |-> (j - 1) * most, size |-> Least(most, count - (j - 1) * most)]]
  BY Zenon, <1>1, <1>3, <1>8 DEF Blocks
<1>10. Len(blocks) = n
  BY <1>4, <1>9
<1>11. ASSUME NEW j \in 1..n
       PROVE  /\ w[j] - w[j - 1] \in Nat \ {0}
              /\ (w[j] - w[j - 1]) * ByteBits + shift <= WordBits
              /\ blocks[j] = [first |-> w[j - 1], size |-> w[j] - w[j - 1]]
  <2>1. PICK i \in Nat : i = j - 1 /\ i \in 0..n /\ j \in 0..n /\ j = i + 1
    BY <1>4
  <2>2. PICK M \in Nat : M = i * most
    BY <1>2
  <2>3. j * most = M + most
    BY <1>2, <2>1, <2>2
  <2>4. M < count
    BY <1>4, <2>1, <2>2
  <2>5. w[i] = M /\ w[j] = IF M + most < count THEN M + most ELSE count
    BY <1>6, <2>1, <2>2, <2>3, <2>4
  <2>6. PICK z \in Nat \ {0} : z = w[j] - w[i] /\ z <= most /\ z = Least(most, count - M)
    BY <1>2, <2>4, <2>5 DEF Least
  <2>7. z * ByteBits <= most * ByteBits
    <3>1. PICK y \in Nat : most = z + y
      <4>1. most - z \in Nat /\ most = z + (most - z)
        BY <1>2, <2>6
      <4> QED
        BY <4>1
    <3>2. PICK Y \in Nat : Y = y * ByteBits
      BY Span
    <3>3. z * ByteBits \in Nat
      <4>1. z \in Nat
        OBVIOUS
      <4> QED
        BY <4>1, Span
    <3>4. (z + y) * ByteBits = z * ByteBits + y * ByteBits
      BY SpanSum
    <3> QED
      BY <3>1, <3>2, <3>3, <3>4
  <2>8. z * ByteBits + shift <= WordBits
    <3>1. PICK Z \in Nat, Y \in Nat : Z = z * ByteBits /\ Y = most * ByteBits
      <4>1. z \in Nat /\ most \in Nat
        BY <1>2
      <4> QED
        BY <4>1, Span
    <3>2. Z <= Y /\ Y + shift <= WordBits
      BY <1>2, <2>7, <3>1
    <3>3. Z + shift <= WordBits
      BY <3>2, Sizes
    <3> QED
      BY <3>1, <3>3
  <2>9. blocks[j] = [first |-> M, size |-> Least(most, count - M)]
    BY <1>9, <2>1, <2>2
  <2> QED
    BY <2>1, <2>5, <2>6, <2>8, <2>9
<1>12. w \in [0..n -> 0..count]
  BY <1>5, <1>6
<1> QED
  BY <1>4, <1>7, <1>8, <1>10, <1>11, <1>12

(* The words of a run of bytes, one after the other (put of writeBytes).   *)
Words(s, out, count, shift, start) ==
  LET blocks == Blocks(count, shift)
      put[j \in 0..Len(blocks)] ==
        IF j = 0 THEN s.data
        ELSE LET b == blocks[j]
             IN  PutBlock(put[j - 1], start + b.first,
                          SubSeq(out, b.first + 1, b.first + b.size), shift)
  IN  put[Len(blocks)]

(* All blocks together lay all bytes. *)
LEMMA WordsLaid ==
  ASSUME NEW size \in Nat, NEW s \in Streams(size), NEW length \in Nat,
         NEW out \in [1..length -> Byte], NEW count \in Nat, count <= length,
         NEW shift \in 0..(ByteBits - 1), NEW a \in Nat, a + count + 1 <= size,
         NEW e, e = Words(s, out, count, shift, a + 1)
  PROVE  e \in [1..size -> Byte] /\ Laid(s.data, e, out, a, shift, count, size)
<1> DEFINE D == [1..size -> Byte]
           blocks == Blocks(count, shift)
           start == a + 1
           Put1(d, j) == PutBlock(d, start + blocks[j].first,
                               SubSeq(out, blocks[j].first + 1, blocks[j].first + blocks[j].size), shift)
           Step(f, n) == [j \in 0..n |-> IF j = 0 THEN s.data ELSE Put1(f[j - 1], j)]
<1>1. PICK n \in Nat : \E w \in [0..n -> 0..count] :
           /\ w[0] = 0 /\ w[n] = count
           /\ Len(Blocks(count, shift)) = n
           /\ \A j \in 1..n :
                /\ w[j] - w[j - 1] \in Nat \ {0}
                /\ (w[j] - w[j - 1]) * ByteBits + shift <= WordBits
                /\ Blocks(count, shift)[j] = [first |-> w[j - 1], size |-> w[j] - w[j - 1]]
  BY BlocksAre
<1>2. PICK w \in [0..n -> 0..count] :
           /\ w[0] = 0 /\ w[n] = count
           /\ Len(blocks) = n
           /\ \A j \in 1..n :
                /\ w[j] - w[j - 1] \in Nat \ {0}
                /\ (w[j] - w[j - 1]) * ByteBits + shift <= WordBits
                /\ blocks[j] = [first |-> w[j - 1], size |-> w[j] - w[j - 1]]
  BY <1>1
<1>3. e = LET r == CHOOSE f : f = Step(f, n) IN r[n]
  <2>1. e = LET r == CHOOSE f : f = Step(f, Len(blocks)) IN r[Len(blocks)]
    BY Zenon DEF Words
  <2> QED
    BY Zenon, <1>2, <2>1
<1> HIDE DEF blocks
<1>4. PICK base : base = s.data /\ base \in D
  BY StreamIs
(* One word more. *)
<1>5. ASSUME NEW j \in 1..n, NEW d \in D
      PROVE  /\ Put1(d, j) \in D
             /\ Laid(base, d, out, a, shift, w[j - 1], size) =>
                  Laid(base, Put1(d, j), out, a, shift, w[j], size)
  <2>9. PICK x \in Nat, v \in Nat : x = w[j - 1] /\ v = w[j] /\ v <= count /\ v - x \in Nat \ {0}
    <3>1. j - 1 \in 0..n /\ j \in 0..n
      BY <1>1
    <3>2. w[j - 1] \in 0..count /\ w[j] \in 0..count
      BY <1>2, <3>1
    <3>3. w[j] - w[j - 1] \in Nat \ {0}
      BY <1>2
    <3> QED
      BY <3>2, <3>3
  <2>11. x \in Nat /\ v \in Nat /\ v <= count /\ v - x \in Nat \ {0}
    BY <2>9
  <2>10. PICK k \in Nat \ {0} : k = v - x /\ v = x + k
    <3>1. v - x \in Nat \ {0} /\ v = x + (v - x)
      BY <2>11
    <3> QED
      BY <3>1
  <2>1. x = w[j - 1] /\ k = w[j] - w[j - 1] /\ w[j] = x + k
    BY <2>9, <2>10
  <2>2. k * ByteBits + shift <= WordBits /\ blocks[j] = [first |-> x, size |-> k]
    BY <1>2, <2>1
  <2>3. Put1(d, j) = PutBlock(d, a + x + 1, SubSeq(out, x + 1, x + k), shift)
    <3>1. blocks[j].first = x /\ blocks[j].size = k
      BY <2>2
    <3>2. Put1(d, j) = PutBlock(d, a + 1 + x, SubSeq(out, x + 1, x + k), shift)
      BY <3>1
    <3>3. a + 1 + x = a + x + 1
      BY <2>9
    <3> QED
      BY <3>2, <3>3
  <2> HIDE DEF Put1
  <2>4. x + k <= length /\ a + x + 1 + k <= size
    <3>1. k \in Nat /\ v = x + k
      BY <2>10
    <3> QED
      BY <2>11, <3>1
  <2>5. PICK y : y = Put1(d, j)
    OBVIOUS
  <2>6. y = PutBlock(d, a + x + 1, SubSeq(out, x + 1, x + k), shift)
    BY <2>3, <2>5
  <2>7. y \in D
    <3>2. PICK c \in Nat : c = a + x
      BY <2>9
    <3>3. SubSeq(out, x + 1, x + k) \in [1..k -> Byte]
      <4>1. k \in Nat
        BY <2>10
      <4> QED
        BY <2>4, <4>1, SubIs
    <3>4. c + 1 + k <= size /\ y = PutBlock(d, c + 1, SubSeq(out, x + 1, x + k), shift)
      BY <2>4, <2>6, <3>2
    <3> QED
      BY <2>2, <3>3, <3>4, PutIs
  <2>8. Laid(base, d, out, a, shift, x, size) => Laid(base, y, out, a, shift, x + k, size)
    BY <2>2, <2>4, <2>6, LaidOn
  <2> QED
    BY <2>1, <2>5, <2>7, <2>8
<1> HIDE DEF Put1
<1>6. \E f : f = Step(f, n)
  <2>1. PICK F : F = [j \in 1..n |-> [d \in D |-> Put1(d, j)]]
    OBVIOUS
  <2>2. F \in [1..n -> [D -> D]]
    BY <1>5, <2>1
  <2>3. PICK g \in [0..n -> D] : Stepwise(g, F, n, base)
    BY Zenon, <1>4, <2>2, Iterates
  <2>4. g[0] = base /\ \A i \in 1..n : g[i] = F[i][g[i - 1]]
    BY Zenon, <2>3 DEF Stepwise
  <2> HIDE DEF D
  <2>5. ASSUME NEW i \in 0..n
        PROVE  g[i] = IF i = 0 THEN s.data ELSE Put1(g[i - 1], i)
    <3>1. CASE i = 0
      BY <1>4, <2>4, <3>1
    <3>2. CASE i # 0
      <4>1. i \in 1..n /\ i - 1 \in 0..n
        BY <3>2
      <4>2. g[i] = F[i][g[i - 1]] /\ g[i - 1] \in D
        BY <2>3, <2>4, <4>1
      <4>3. F[i][g[i - 1]] = Put1(g[i - 1], i)
        BY <2>1, <4>1, <4>2
      <4> QED
        BY <3>2, <4>2, <4>3
    <3> QED
      BY <3>1, <3>2
  <2>6. g = Step(g, n)
    BY <2>5
  <2> QED
    BY <2>6
<1>7. PICK f : f = Step(f, n) /\ e = f[n]
  <2>1. PICK r : r = CHOOSE f : f = Step(f, n)
    OBVIOUS
  <2>2. r = Step(r, n)
    BY Zenon, <1>6, <2>1
  <2>3. e = r[n]
    BY Zenon, <1>3, <2>1
  <2> QED
    BY <2>2, <2>3
<1>8. /\ f[0] = base
      /\ \A i \in 0..(n - 1) : f[i + 1] = Put1(f[i], i + 1)
  <2>1. 0 \in 0..n
    BY <1>1
  <2>2. f[0] = base
    BY <1>4, <1>7, <2>1
  <2>3. ASSUME NEW i \in 0..(n - 1)
        PROVE  f[i + 1] = Put1(f[i], i + 1)
    <3>1. PICK j : j = i + 1
      OBVIOUS
    <3>2. j \in 0..n /\ j # 0 /\ j - 1 = i
      BY <1>1, <3>1
    <3>3. f[j] = Put1(f[j - 1], j)
      BY <1>7, <3>2
    <3> QED
      BY <3>1, <3>2, <3>3
  <2> QED
    BY <2>2, <2>3
<1> DEFINE P == {m \in 0..n : f[m] \in D /\ Laid(base, f[m], out, a, shift, w[m], size)}
<1>9. 0 \in P
  <2>1. Laid(base, base, out, a, shift, 0, size)
    BY LaidNone
  <2> QED
    BY <1>1, <1>2, <1>4, <1>8, <2>1
<1>10. \A i \in 0..(n - 1) : i \in P => i + 1 \in P
  <2> SUFFICES ASSUME NEW i \in 0..(n - 1), i \in P PROVE i + 1 \in P
    OBVIOUS
  <2>1. PICK j \in 1..n : j = i + 1 /\ j - 1 = i
    BY <1>1
  <2>2. PICK d \in D : d = f[i]
    OBVIOUS
  <2>3. Laid(base, d, out, a, shift, w[j - 1], size)
    BY <2>1, <2>2
  <2>4. f[j] = Put1(d, j)
    BY <1>8, <2>1, <2>2
  <2>5. Put1(d, j) \in D /\ Laid(base, Put1(d, j), out, a, shift, w[j], size)
    BY <1>5, <2>3
  <2>6. j \in 0..n
    BY <1>1
  <2> QED
    BY <2>1, <2>4, <2>5, <2>6
<1> HIDE DEF P
<1>11. n \in P
  <2>1. 0..n \subseteq P
    BY Zenon, <1>1, <1>9, <1>10, Onward
  <2> QED
    BY <1>1, <2>1
<1> QED
  BY <1>2, <1>4, <1>7, <1>11 DEF P

(* writeBytes puts the bits of the bytes, wherever in a byte they begin    *)
(* (BitStream.cpp:191-274).                                                *)
LEMMA PutBytes ==
  ASSUME NEW size \in Nat, NEW s \in Streams(size), NEW length \in Nat,
         NEW out \in [1..length -> Byte], NEW count \in Nat, NEW f,
         \A p \in 0..(count * ByteBits - 1) : f[p] = At(out, p),
         NEW t, t = writeBytes(s, out, count)
  PROVE  /\ t \in Streams(size) /\ Puts(s, t, f, count * ByteBits, size)
         /\ ok(t) => count <= length
<1> DEFINE shift  == bitIndex(s)
           needed == count + (IF shift = 0 THEN 0 ELSE 1)
           start  == byteIndex(s) + 1
           blocks == Blocks(count, shift)
           put == CHOOSE g : g = [j \in 0..Len(blocks) |->
             IF j = 0 THEN s.data
             ELSE LET b == blocks[j]
                  IN  PutBlock(g[j - 1], start + b.first,
                               SubSeq(out, b.first + 1, b.first + b.size), shift)]
           copied == [i \in DOMAIN s.data |->
                        IF i \in start..(start + count - 1) THEN out[i - start + 1] ELSE s.data[i]]
<1>1. t = IF ~ ok(s) \/ count = 0 THEN s
        ELSE IF count > Len(out) THEN fail(s, "BadArg")
        ELSE IF Size(s) - byteIndex(s) < needed THEN fail(s, "Overflow")
        ELSE advance([s EXCEPT !.data = IF shift = 0 THEN copied ELSE put[Len(blocks)]], count * ByteBits)
  BY Zenon DEF writeBytes
<1>2. put[Len(blocks)] = Words(s, out, count, shift, start)
  BY Zenon DEF Words
<1> HIDE DEF put, blocks
<1>3. PICK d, pos, err : s = [data |-> d, bitPos |-> pos, streamErr |-> err]
  BY StreamIs
<1>4. PICK a \in Nat, j \in Nat : a = byteIndex(s) /\ j = bitIndex(s)
  BY StreamIs
<1>5. PICK End \in Nat, C \in Nat : End = size * ByteBits /\ C = count * ByteBits
  BY Span
<1>6. PICK A \in Nat : A = a * ByteBits
  BY Span
<1>7. /\ d \in [1..size -> Byte] /\ pos \in Nat /\ pos <= End /\ err \in Errors
      /\ Size(s) = size /\ j \in 0..(ByteBits - 1) /\ pos = A + j
      /\ s.data = d /\ s.bitPos = pos /\ s.streamErr = err
  BY <1>3, <1>4, <1>5, <1>6, StreamIs
<1>8. (ok(s) <=> err = "Ok") /\ Len(out) = length /\ DOMAIN d = 1..size
  BY <1>7, LengthIs DEF ok
<1>9. CASE ~ ok(s) \/ count = 0
  <2>1. t = s
    BY <1>1, <1>9
  <2>2. CASE ok(s)
    <3>1. count * ByteBits = 0
      BY <1>9, <2>2, Span
    <3>2. count <= length
      BY <1>9, <2>2
    <3> QED
      BY <2>1, <3>1, <3>2, PutsNone
  <2>3. CASE ~ ok(s)
    BY <1>7, <2>1, <2>3 DEF Puts
  <2> QED
    BY <2>2, <2>3
<1>10. CASE \E bad \in Errors \ {"Ok"} : ok(s) /\ t = fail(s, bad)
  <2>1. PICK bad \in Errors : bad # "Ok" /\ t = [data |-> d, bitPos |-> pos, streamErr |-> bad]
    BY <1>3, <1>10 DEF fail
  <2>2. t \in Streams(size)
    BY <1>5, <1>7, <2>1, StreamMade
  <2> QED
    BY <1>7, <1>10, <2>1, <2>2 DEF Puts, ok
<1>11. CASE ok(s) /\ count # 0 /\ ~ (count > Len(out)) /\ ~ (Size(s) - byteIndex(s) < needed)
  <2>1. PICK e : e = IF shift = 0 THEN copied ELSE put[Len(blocks)]
    OBVIOUS
  <2>2. t = [data |-> e, bitPos |-> pos + C, streamErr |-> "Ok"]
    <3>1. t = advance([s EXCEPT !.data = e], C)
      BY <1>1, <1>5, <1>11, <2>1
    <3> QED
      BY <1>3, <1>8, <1>11, <3>1 DEF advance
  <2>3. /\ count <= length /\ a + count <= size
        /\ j # 0 => a + count + 1 <= size
    BY <1>4, <1>7, <1>8, <1>11
  <2>4. e \in [1..size -> Byte] /\ Laid(d, e, out, a, j, count, size)
    <3>1. CASE j = 0
      <4>1. e = [i \in 1..size |-> IF i \in (a + 1)..(a + 1 + count - 1)
                                   THEN out[i - (a + 1) + 1] ELSE d[i]]
        BY <1>4, <1>7, <1>8, <2>1, <3>1
      <4>2. e \in [1..size -> Byte] /\ Laid(d, e, out, a, 0, count, size)
        <5>1. d \in [1..size -> Byte] /\ count <= length /\ a + count <= size
          BY <1>7, <2>3
        <5>2. e = CopyOf(d, out, a, count, size)
          BY Zenon, <4>1 DEF CopyOf
        <5> QED
          BY Zenon, <5>1, <5>2, Copied
      <4> QED
        BY <3>1, <4>2
    <3>2. CASE j # 0
      <4>1. e = Words(s, out, count, j, a + 1)
        BY <1>2, <1>4, <2>1, <3>2
      <4>2. e \in [1..size -> Byte] /\ Laid(s.data, e, out, a, j, count, size)
        BY <1>7, <2>3, <3>2, <4>1, WordsLaid
      <4> QED
        BY <1>7, <4>2
    <3> QED
      BY <3>1, <3>2
  <2>5. \A p \in 0..(End - 1) :
           At(e, p) = IF p \in pos..(pos + C - 1) THEN At(out, p - pos) ELSE At(d, p)
    BY <1>5, <1>6, <1>7, <2>4 DEF Laid
  <2>6. pos + C <= End
    <3>1. PICK N \in Nat : N = a + count
      OBVIOUS
    <3>2. N * ByteBits = A + C
      BY <1>5, <1>6, <3>1, SpanSum
    <3>3. CASE N < size
      <4>1. N * ByteBits + j < End
        BY <1>5, <1>7, <3>3, Before
      <4>2. A + C + j < End
        BY <3>2, <4>1
      <4> QED
        BY <1>7, <4>2
    <3>4. CASE ~ (N < size)
      <4>1. j = 0 /\ N = size
        BY <2>3, <3>1, <3>4
      <4>2. A + C = End
        BY <1>5, <3>2, <4>1
      <4> QED
        BY <1>7, <4>1, <4>2
    <3> QED
      BY <3>3, <3>4
  <2>7. t \in Streams(size)
    <3>1. pos + C \in Nat /\ pos + C <= size * ByteBits /\ "Ok" \in Errors
      BY <1>5, <1>7, <2>6 DEF Errors
    <3> QED
      BY Zenon, <2>2, <2>4, <3>1, StreamMade
  <2>8. t.data = e /\ t.bitPos = pos + C
    BY <2>2
  <2>9. ASSUME NEW p \in 0..(C - 1)
        PROVE  At(e, pos + p) = f[p]
    <3>1. pos + p \in 0..(End - 1) /\ pos + p \in pos..(pos + C - 1) /\ (pos + p) - pos = p
      <4>1. pos \in Nat /\ pos + C <= End
        BY <1>7, <2>6
      <4> QED
        BY <4>1
    <3> QED
      BY <1>5, <2>5, <3>1
  <2>10. ASSUME NEW p \in 0..(End - 1), p < pos \/ p >= pos + C
         PROVE  At(e, p) = At(d, p)
    <3>1. ~ (p \in pos..(pos + C - 1))
      BY <1>7, <2>10
    <3> QED
      BY <2>5, <3>1
  <2>11. s.bitPos = pos /\ s.data = d /\ ok(s)
    BY <1>7, <1>11
  <2>12. s.bitPos <= t.bitPos /\ t.bitPos = s.bitPos + C
    BY <1>7, <2>8, <2>11
  <2>13. \A p \in 0..(C - 1) : At(t.data, s.bitPos + p) = f[p]
    BY <2>8, <2>9, <2>11
  <2>14. \A p \in 0..(End - 1) : p < s.bitPos \/ p >= t.bitPos => At(t.data, p) = At(s.data, p)
    BY <2>8, <2>10, <2>11
  <2>15. Puts(s, t, f, C, size)
    BY Zenon, <1>5, <2>11, <2>12, <2>13, <2>14 DEF Puts
  <2> QED
    BY <1>5, <1>6, <1>11, <2>3, <2>7, <2>15
<1>12. "BadArg" \in Errors \ {"Ok"} /\ "Overflow" \in Errors \ {"Ok"}
  BY DEF Errors
<1>13. ok(t) => count <= length
  <2> HIDE DEF needed, copied, shift, start
  <2>1. \A err2 : ok(fail(s, err2)) => err2 = "Ok"
    BY <1>3 DEF fail, ok
  <2>2. count > length => count # 0
    OBVIOUS
  <2> QED
    BY <1>1, <1>8, <2>1, <2>2
<1> HIDE DEF needed, copied, shift, start
<1> QED
  BY <1>1, <1>9, <1>10, <1>11, <1>12, <1>13

(* A step, k times over. *)
Chain(g, G, k, start) == g[0] = start /\ \A i \in 1..k : g[i] = G[g[i - 1]]

LEMMA Repeats ==
  ASSUME NEW D, NEW k \in Nat, NEW G \in [D -> D], NEW start \in D
  PROVE  \E g \in [0..k -> D] : Chain(g, G, k, start)
<1>1. PICK F : F = [i \in 1..k |-> G]
  OBVIOUS
<1>2. F \in [1..k -> [D -> D]]
  BY <1>1
<1>3. PICK g \in [0..k -> D] : Stepwise(g, F, k, start)
  BY Zenon, <1>2, Iterates
<1>4. g[0] = start /\ \A i \in 1..k : g[i] = F[i][g[i - 1]]
  BY Zenon, <1>3 DEF Stepwise
<1>5. \A i \in 1..k : F[i] = G
  BY <1>1
<1> QED
  BY <1>4, <1>5 DEF Chain

-----------------------------------------------------------------------------
(* What is left to write of a number, and where. *)
Work(size) == [stream : Streams(size), rest : Nat]
NumberBits(v) == [p \in Nat |-> Bit(v, p)]

BitOut(w)  == [stream |-> writeBit(w.stream, w.rest % 2), rest |-> w.rest \div 2]
ByteOut(w) == [stream |-> writeBytes(w.stream, <<w.rest % 2^ByteBits>>, 1),
               rest |-> w.rest \div 2^ByteBits]

(* The first m bits of v went to s. *)
Emits(s, v, m, w, size) ==
  /\ w \in Work(size)
  /\ \A q \in Nat : Bit(w.rest, q) = Bit(v, m + q)
  /\ Puts(s, w.stream, NumberBits(v), m, size)

LEMMA WorkIs ==
  ASSUME NEW size \in Nat, NEW w \in Work(size)
  PROVE  /\ w = [stream |-> w.stream, rest |-> w.rest]
         /\ w.stream \in Streams(size) /\ w.rest \in Nat
BY DEF Work

(* The rest of a number is the number without its lowest bit. *)
LEMMA LowestBit ==
  ASSUME NEW x \in Nat
  PROVE  /\ x % 2 \in {0, 1} /\ x % 2 = Bit(x, 0)
         /\ x \div 2 \in Nat /\ \A q \in Nat : Bit(x \div 2, q) = Bit(x, q + 1)
<1>1. Pow(0) = 1 /\ Pow(1) = 2
  <2>1. Pow(0 + 1) = 2 * Pow(0) /\ Pow(0) = 1
    BY PowIs
  <2> QED
    BY <2>1
<1>2. x \div 1 = x
  OBVIOUS
<1>3. x % 2 = Bit(x, 0)
  BY <1>1, <1>2 DEF Bit
<1>4. PICK one \in Nat : one = 1
  OBVIOUS
<1>5. x \div Pow(one) \in Nat /\ \A q \in Nat : Bit(x \div Pow(one), q) = Bit(x, q + one)
  BY BitsOfDiv
<1>6. x \div 2 \in Nat /\ \A q \in Nat : Bit(x \div 2, q) = Bit(x, q + 1)
  BY Zenon, <1>1, <1>4, <1>5
<1> QED
  BY <1>3, <1>6

(* One bit, or one byte, goes out. *)
LEMMA EmitsBit ==
  ASSUME NEW size \in Nat, NEW s \in Streams(size), NEW v \in Nat, NEW m \in Nat, NEW w,
         Emits(s, v, m, w, size)
  PROVE  Emits(s, v, m + 1, BitOut(w), size)
<1>1. w \in Work(size) /\ w.stream \in Streams(size) /\ w.rest \in Nat
  BY WorkIs DEF Emits
<1>2. PICK x \in Nat, t \in Streams(size) : x = w.rest /\ t = w.stream
  BY <1>1
<1>3. PICK b \in {0, 1}, y \in Nat : b = x % 2 /\ y = x \div 2 /\ b = Bit(x, 0)
  BY LowestBit
<1>4. \A q \in Nat : Bit(y, q) = Bit(x, q + 1)
  BY Zenon, <1>3, LowestBit
<1>5. \A q \in Nat : Bit(x, q) = Bit(v, m + q)
  BY <1>2 DEF Emits
<1>6. PICK g : g = [p \in Nat |-> b]
  OBVIOUS
<1>7. PICK u : u = writeBit(t, b)
  OBVIOUS
<1>8. u \in Streams(size) /\ Puts(t, u, g, 1, size)
  <2>1. g[0] = b
    BY <1>6
  <2> QED
    BY <1>7, <2>1, PutBit
<1>9. Puts(s, u, NumberBits(v), m + 1, size)
  <2>1. Puts(s, t, NumberBits(v), m, size)
    BY <1>2 DEF Emits
  <2>2. \A p \in 0..(1 - 1) : g[p] = NumberBits(v)[m + p]
    <3>1. b = Bit(v, m + 0)
      BY <1>3, <1>5
    <3>2. \A p \in 0..(1 - 1) : p = 0 /\ m + p = m /\ m + 0 = m
      OBVIOUS
    <3> QED
      BY <1>6, <3>1, <3>2 DEF NumberBits
  <2> QED
    BY <1>8, <2>1, <2>2, PutsOn
<1>10. ASSUME NEW q \in Nat
       PROVE  Bit(y, q) = Bit(v, (m + 1) + q)
  <2>1. m + (q + 1) = (m + 1) + q /\ q + 1 \in Nat
    OBVIOUS
  <2> QED
    BY <1>4, <1>5, <2>1
<1>11. BitOut(w) = [stream |-> u, rest |-> y]
  BY <1>2, <1>3, <1>7 DEF BitOut
<1>12. BitOut(w) \in Work(size) /\ BitOut(w).stream = u /\ BitOut(w).rest = y
  BY <1>8, <1>11 DEF Work
<1> QED
  BY <1>9, <1>10, <1>12 DEF Emits

LEMMA EmitsByte ==
  ASSUME NEW size \in Nat, NEW s \in Streams(size), NEW v \in Nat, NEW m \in Nat, NEW w,
         Emits(s, v, m, w, size)
  PROVE  Emits(s, v, m + ByteBits, ByteOut(w), size)
<1>1. w \in Work(size) /\ w.stream \in Streams(size) /\ w.rest \in Nat
  BY WorkIs DEF Emits
<1>2. PICK x \in Nat, t \in Streams(size) : x = w.rest /\ t = w.stream
  BY <1>1
<1>3. ByteBits \in Nat
  BY Sizes
<1>4. PICK b \in Nat : b = x % 2^ByteBits /\ b \in Byte
        /\ \A i \in Nat : i < ByteBits => Bit(b, i) = Bit(x, i)
  <2>1. /\ x % Pow(ByteBits) \in 0..(Pow(ByteBits) - 1)
        /\ \A i \in Nat : Bit(x % Pow(ByteBits), i) = IF i < ByteBits THEN Bit(x, i) ELSE 0
    BY <1>3, BitsOfMod
  <2>2. PICK b : b = x % Pow(ByteBits)
    OBVIOUS
  <2>3. b \in Byte /\ \A i \in Nat : i < ByteBits => Bit(b, i) = Bit(x, i)
    BY <2>1, <2>2 DEF Byte
  <2> QED
    BY <2>2, <2>3, Sizes DEF Pow
<1>5. PICK y \in Nat : y = x \div 2^ByteBits /\ \A q \in Nat : Bit(y, q) = Bit(x, q + ByteBits)
  <2>1. /\ x \div Pow(ByteBits) \in Nat
        /\ \A q \in Nat : Bit(x \div Pow(ByteBits), q) = Bit(x, q + ByteBits)
    BY <1>3, BitsOfDiv
  <2>2. PICK y : y = x \div Pow(ByteBits)
    OBVIOUS
  <2> QED
    BY <2>1, <2>2 DEF Pow
<1>6. \A q \in Nat : Bit(x, q) = Bit(v, m + q)
  BY <1>2 DEF Emits
<1>7. PICK g, out, u : g = [p \in Nat |-> At(out, p)] /\ out = <<b>> /\ u = writeBytes(t, out, 1)
  OBVIOUS
<1>8. u \in Streams(size) /\ Puts(t, u, g, ByteBits, size)
  <2>1. PICK one \in Nat : one = 1
    OBVIOUS
  <2>2. out \in [1..one -> Byte] /\ u = writeBytes(t, out, one)
    BY <1>4, <1>7, <2>1
  <2>3. one * ByteBits = ByteBits
    BY <2>1, Span
  <2>4. \A p \in 0..(one * ByteBits - 1) : g[p] = At(out, p)
    <3>1. \A p \in 0..(ByteBits - 1) : p \in Nat
      BY <1>3
    <3> QED
      BY <1>7, <2>3, <3>1
  <2>5. u \in Streams(size) /\ Puts(t, u, g, one * ByteBits, size)
    BY <2>2, <2>4, PutBytes
  <2> QED
    BY <2>3, <2>5
<1>9. ASSUME NEW p \in 0..(ByteBits - 1)
      PROVE  g[p] = NumberBits(v)[m + p]
  <2>1. p \in Nat /\ p < ByteBits /\ m + p \in Nat
    BY <1>3
  <2>2. At(out, 0 * ByteBits + p) = Bit(out[0 + 1], p)
    BY AtPlace
  <2>3. 0 * ByteBits + p = p /\ out[0 + 1] = b
    BY <1>7, <2>1, Span
  <2>4. Bit(b, p) = Bit(v, m + p)
    BY <1>4, <1>6, <2>1
  <2> QED
    BY <1>7, <2>1, <2>2, <2>3, <2>4 DEF NumberBits
<1>10. Puts(s, u, NumberBits(v), m + ByteBits, size)
  <2>1. Puts(s, t, NumberBits(v), m, size)
    BY <1>2 DEF Emits
  <2> QED
    BY <1>3, <1>8, <1>9, <2>1, PutsOn
<1>11. ASSUME NEW q \in Nat
       PROVE  Bit(y, q) = Bit(v, (m + ByteBits) + q)
  <2>1. m + (q + ByteBits) = (m + ByteBits) + q /\ q + ByteBits \in Nat
    BY <1>3
  <2> QED
    BY <1>5, <1>6, <2>1
<1>12. ByteOut(w) = [stream |-> u, rest |-> y]
  BY <1>2, <1>4, <1>5, <1>7 DEF ByteOut
<1>13. ByteOut(w) \in Work(size) /\ ByteOut(w).stream = u /\ ByteOut(w).rest = y
  BY <1>5, <1>8, <1>12 DEF Work
<1> QED
  BY <1>10, <1>11, <1>13 DEF Emits

(* The loops of writeBits. *)
BitsFrom(w, k)  == Repeat(BitOut, w, k)
BytesFrom(w, k) == Repeat(ByteOut, w, k)

LEMMA BitOutStays ==
  ASSUME NEW size \in Nat, NEW w \in Work(size)
  PROVE  BitOut(w) \in Work(size) /\ ByteOut(w) \in Work(size)
<1>1. Emits(w.stream, w.rest, 0, w, size)
  <2>1. w.stream \in Streams(size) /\ w.rest \in Nat
    BY WorkIs
  <2>2. Puts(w.stream, w.stream, NumberBits(w.rest), 0, size)
    BY <2>1, PutsNone
  <2>3. \A q \in Nat : 0 + q = q
    OBVIOUS
  <2> QED
    BY <2>2, <2>3 DEF Emits
<1>2. w.stream \in Streams(size) /\ w.rest \in Nat
  BY WorkIs
<1>3. Emits(w.stream, w.rest, 0 + 1, BitOut(w), size)
  BY <1>1, <1>2, EmitsBit
<1>4. Emits(w.stream, w.rest, 0 + ByteBits, ByteOut(w), size)
  BY <1>1, <1>2, EmitsByte
<1> QED
  BY <1>3, <1>4 DEF Emits

(* A loop is a chain of its steps. *)
LEMMA BitsRepeat ==
  ASSUME NEW size \in Nat, NEW w \in Work(size), NEW k \in Nat
  PROVE  \E f : f[0] = w /\ f[k] = BitsFrom(w, k) /\ \A i \in 0..(k - 1) : f[i + 1] = BitOut(f[i])
<1> DEFINE Step(f) == [i \in 0..k |-> IF i = 0 THEN w ELSE BitOut(f[i - 1])]
           D == Work(size)
<1>1. BitsFrom(w, k) = LET after == CHOOSE f : f = Step(f) IN after[k]
  BY Zenon DEF BitsFrom, Repeat
<1>2. PICK G : G = [x \in D |-> BitOut(x)]
  OBVIOUS
<1>3. G \in [D -> D]
  BY <1>2, BitOutStays
<1>10. w \in D
  OBVIOUS
<1> HIDE DEF D
<1>11. PICK g \in [0..k -> D] : Chain(g, G, k, w)
  BY Zenon, <1>3, <1>10, Repeats
<1>4. g[0] = w /\ \A i \in 1..k : g[i] = G[g[i - 1]]
  BY Zenon, <1>11 DEF Chain
<1>5. ASSUME NEW i \in 0..k
      PROVE  g[i] = IF i = 0 THEN w ELSE BitOut(g[i - 1])
  <2>1. CASE i = 0
    BY <1>4, <2>1
  <2>2. CASE i # 0
    <3>1. i \in 1..k /\ i - 1 \in 0..k
      BY <2>2
    <3>2. g[i] = G[g[i - 1]] /\ g[i - 1] \in D
      BY <1>4, <3>1, <1>11
    <3> QED
      BY <1>2, <2>2, <3>2
  <2> QED
    BY <2>1, <2>2
<1>6. g = Step(g)
  BY <1>5
<1>7. PICK f : f = Step(f) /\ f[k] = BitsFrom(w, k)
  <2>1. PICK r : r = CHOOSE f : f = Step(f)
    OBVIOUS
  <2>2. r = Step(r)
    BY Zenon, <1>6, <2>1
  <2>3. BitsFrom(w, k) = r[k]
    BY Zenon, <1>1, <2>1
  <2> QED
    BY <2>2, <2>3
<1>8. f[0] = w
  <2>1. 0 \in 0..k
    OBVIOUS
  <2> QED
    BY <1>7, <2>1
<1>9. ASSUME NEW i \in 0..(k - 1)
      PROVE  f[i + 1] = BitOut(f[i])
  <2>1. PICK j : j = i + 1
    OBVIOUS
  <2>2. j \in 0..k /\ j # 0 /\ j - 1 = i
    BY <2>1
  <2>3. f[j] = BitOut(f[j - 1])
    BY <1>7, <2>2
  <2> QED
    BY <2>1, <2>2, <2>3
<1> QED
  BY <1>7, <1>8, <1>9

LEMMA BytesRepeat ==
  ASSUME NEW size \in Nat, NEW w \in Work(size), NEW k \in Nat
  PROVE  \E f : f[0] = w /\ f[k] = BytesFrom(w, k) /\ \A i \in 0..(k - 1) : f[i + 1] = ByteOut(f[i])
<1> DEFINE Step(f) == [i \in 0..k |-> IF i = 0 THEN w ELSE ByteOut(f[i - 1])]
           D == Work(size)
<1>1. BytesFrom(w, k) = LET after == CHOOSE f : f = Step(f) IN after[k]
  BY Zenon DEF BytesFrom, Repeat
<1>2. PICK G : G = [x \in D |-> ByteOut(x)]
  OBVIOUS
<1>3. G \in [D -> D]
  BY <1>2, BitOutStays
<1>10. w \in D
  OBVIOUS
<1> HIDE DEF D
<1>11. PICK g \in [0..k -> D] : Chain(g, G, k, w)
  BY Zenon, <1>3, <1>10, Repeats
<1>4. g[0] = w /\ \A i \in 1..k : g[i] = G[g[i - 1]]
  BY Zenon, <1>11 DEF Chain
<1>5. ASSUME NEW i \in 0..k
      PROVE  g[i] = IF i = 0 THEN w ELSE ByteOut(g[i - 1])
  <2>1. CASE i = 0
    BY <1>4, <2>1
  <2>2. CASE i # 0
    <3>1. i \in 1..k /\ i - 1 \in 0..k
      BY <2>2
    <3>2. g[i] = G[g[i - 1]] /\ g[i - 1] \in D
      BY <1>4, <3>1, <1>11
    <3> QED
      BY <1>2, <2>2, <3>2
  <2> QED
    BY <2>1, <2>2
<1>6. g = Step(g)
  BY <1>5
<1>7. PICK f : f = Step(f) /\ f[k] = BytesFrom(w, k)
  <2>1. PICK r : r = CHOOSE f : f = Step(f)
    OBVIOUS
  <2>2. r = Step(r)
    BY Zenon, <1>6, <2>1
  <2>3. BytesFrom(w, k) = r[k]
    BY Zenon, <1>1, <2>1
  <2> QED
    BY <2>2, <2>3
<1>8. f[0] = w
  <2>1. 0 \in 0..k
    OBVIOUS
  <2> QED
    BY <1>7, <2>1
<1>9. ASSUME NEW i \in 0..(k - 1)
      PROVE  f[i + 1] = ByteOut(f[i])
  <2>1. PICK j : j = i + 1
    OBVIOUS
  <2>2. j \in 0..k /\ j # 0 /\ j - 1 = i
    BY <2>1
  <2>3. f[j] = ByteOut(f[j - 1])
    BY <1>7, <2>2
  <2> QED
    BY <2>1, <2>2, <2>3
<1> QED
  BY <1>7, <1>8, <1>9

(* All that the loops put. *)
LEMMA EmitsBits ==
  ASSUME NEW size \in Nat, NEW s \in Streams(size), NEW v \in Nat, NEW m \in Nat, NEW w,
         Emits(s, v, m, w, size), NEW k \in Nat
  PROVE  Emits(s, v, m + k, BitsFrom(w, k), size)
<1>1. w \in Work(size)
  BY DEF Emits
<1>2. PICK f : f[0] = w /\ f[k] = BitsFrom(w, k) /\ \A i \in 0..(k - 1) : f[i + 1] = BitOut(f[i])
  BY <1>1, BitsRepeat
<1> DEFINE P == {i \in 0..k : Emits(s, v, m + i, f[i], size)}
<1>3. 0 \in P
  <2>1. m + 0 = m
    OBVIOUS
  <2> QED
    BY <1>2, <2>1
<1>4. \A i \in 0..(k - 1) : i \in P => i + 1 \in P
  <2> SUFFICES ASSUME NEW i \in 0..(k - 1), i \in P PROVE i + 1 \in P
    OBVIOUS
  <2>1. m + i \in Nat /\ (m + i) + 1 = m + (i + 1) /\ i + 1 \in 0..k
    OBVIOUS
  <2>2. Emits(s, v, m + i, f[i], size) /\ f[i + 1] = BitOut(f[i])
    BY <1>2
  <2>3. Emits(s, v, (m + i) + 1, BitOut(f[i]), size)
    BY <2>1, <2>2, EmitsBit
  <2> QED
    BY <2>1, <2>2, <2>3
<1> HIDE DEF P
<1>5. 0..k \subseteq P
  BY Zenon, <1>3, <1>4, Onward
<1>6. k \in P
  BY <1>5
<1> QED
  BY <1>2, <1>6 DEF P

LEMMA EmitsBytes ==
  ASSUME NEW size \in Nat, NEW s \in Streams(size), NEW v \in Nat, NEW m \in Nat, NEW w,
         Emits(s, v, m, w, size), NEW k \in Nat
  PROVE  Emits(s, v, m + k * ByteBits, BytesFrom(w, k), size)
<1>1. w \in Work(size)
  BY DEF Emits
<1>2. PICK f : f[0] = w /\ f[k] = BytesFrom(w, k) /\ \A i \in 0..(k - 1) : f[i + 1] = ByteOut(f[i])
  BY <1>1, BytesRepeat
<1> DEFINE P == {i \in 0..k : Emits(s, v, m + i * ByteBits, f[i], size)}
<1>3. 0 \in P
  <2>1. m + 0 * ByteBits = m
    BY Span
  <2> QED
    BY <1>2, <2>1
<1>4. \A i \in 0..(k - 1) : i \in P => i + 1 \in P
  <2> SUFFICES ASSUME NEW i \in 0..(k - 1), i \in P PROVE i + 1 \in P
    OBVIOUS
  <2>1. i \in Nat /\ i + 1 \in 0..k
    OBVIOUS
  <2>2. PICK I \in Nat : I = i * ByteBits /\ (i + 1) * ByteBits = I + ByteBits
    BY <2>1, Span
  <2>3. Emits(s, v, m + I, f[i], size) /\ f[i + 1] = ByteOut(f[i])
    BY <1>2, <2>2
  <2>4. Emits(s, v, (m + I) + ByteBits, ByteOut(f[i]), size)
    BY <2>3, EmitsByte
  <2>5. (m + I) + ByteBits = m + (I + ByteBits)
    BY Sizes
  <2> QED
    BY <2>1, <2>2, <2>3, <2>4, <2>5
<1> HIDE DEF P
<1>5. 0..k \subseteq P
  BY Zenon, <1>3, <1>4, Onward
<1>6. k \in P
  BY <1>5
<1> QED
  BY <1>2, <1>6 DEF P

(* Up to a byte, whole bytes, and the rest. *)
LEMMA BitParts ==
  ASSUME NEW size \in Nat, NEW s \in Streams(size), NEW n \in Nat
  PROVE  /\ ToAlign(s) \in Nat /\ ToAlign(s) < ByteBits
         /\ HeadBits(s, n) \in Nat /\ WholeBytes(s, n) \in Nat /\ TailBits(s, n) \in Nat
         /\ HeadBits(s, n) + WholeBytes(s, n) * ByteBits + TailBits(s, n) = n
<1>1. PICK j \in Nat, B \in Nat : j = bitIndex(s) /\ B = ByteBits /\ j < B
  BY StreamIs, Sizes
<1>2. PICK a : a = ToAlign(s)
  OBVIOUS
<1>3. a \in Nat /\ a < B
  <2>1. a = (B - j) % B
    BY <1>1, <1>2 DEF ToAlign
  <2> QED
    BY <1>1, <2>1
<1>4. PICK h \in Nat : h = HeadBits(s, n) /\ h <= n
  <2>1. Least(n, a) \in Nat /\ Least(n, a) <= n
    BY <1>3 DEF Least
  <2> QED
    BY <1>2, <2>1 DEF HeadBits
<1>5. PICK z \in Nat : z = n - h
  BY <1>4
<1>6. \E w \in Nat, r \in 0..(ByteBits - 1) : z = w * ByteBits + r /\ w = z \div ByteBits
  BY PlaceOf
<1>7. PICK w \in Nat, r \in Nat : z = w * ByteBits + r /\ w = z \div ByteBits
  BY <1>6, Sizes
<1>8. w = WholeBytes(s, n)
  BY <1>4, <1>5, <1>7 DEF WholeBytes
<1>9. PICK W \in Nat : W = w * ByteBits /\ W = ByteBits * w
  BY Sizes
<1>10. TailBits(s, n) = r
  <2>1. TailBits(s, n) = n - h - W
    BY <1>4, <1>8, <1>9 DEF TailBits
  <2> QED
    BY <1>4, <1>5, <1>7, <1>9, <2>1
<1>11. h + W + r = n
  BY <1>4, <1>5, <1>7, <1>9
<1> QED
  BY <1>1, <1>2, <1>3, <1>4, <1>8, <1>9, <1>10, <1>11

(* writeBits puts the low bits of a number (BitStream.cpp:276-312). *)
LEMMA PutBits ==
  ASSUME NEW size \in Nat, NEW s \in Streams(size), NEW v \in Nat, NEW n \in Nat,
         NEW t, t = writeBits(s, v, n)
  PROVE  t \in Streams(size) /\ Puts(s, t, NumberBits(v), n, size) /\ (ok(t) => n <= WordBits)
<1>1. PICK start, head, body, tail :
        /\ start = [stream |-> s, rest |-> v]
        /\ head = BitsFrom(start, HeadBits(s, n))
        /\ body = BytesFrom(head, WholeBytes(s, n))
        /\ tail = BitsFrom(body, TailBits(s, n))
  OBVIOUS
<1>2. t = IF ~ ok(s) THEN s ELSE IF n > WordBits THEN fail(s, "BadArg") ELSE tail.stream
  BY Zenon, <1>1 DEF writeBits, BitsFrom, BytesFrom, BitOut, ByteOut
<1>3. PICK h \in Nat, w \in Nat, r \in Nat : h = HeadBits(s, n) /\ w = WholeBytes(s, n) /\ r = TailBits(s, n)
  BY BitParts
<1>4. h + w * ByteBits + r = n
  BY <1>3, BitParts
<1>5. start \in Work(size)
  BY <1>1 DEF Work
<1>6. Emits(s, v, 0, start, size)
  <2>1. Puts(s, s, NumberBits(v), 0, size)
    BY PutsNone
  <2>2. \A q \in Nat : 0 + q = q
    OBVIOUS
  <2> QED
    BY <1>1, <1>5, <2>1, <2>2 DEF Emits
<1>7. Emits(s, v, 0 + h, head, size)
  BY <1>1, <1>3, <1>6, EmitsBits
<1>8. 0 + h = h
  OBVIOUS
<1>9. Emits(s, v, h + w * ByteBits, body, size)
  BY <1>1, <1>3, <1>7, <1>8, EmitsBytes
<1>10. PICK m \in Nat : m = h + w * ByteBits
  BY Span
<1>11. Emits(s, v, m + r, tail, size)
  BY <1>1, <1>3, <1>9, <1>10, EmitsBits
<1>12. Emits(s, v, n, tail, size)
  BY <1>4, <1>10, <1>11
<1>13. tail.stream \in Streams(size) /\ Puts(s, tail.stream, NumberBits(v), n, size)
  BY <1>12, WorkIs DEF Emits
<1>14. CASE ~ ok(s)
  BY <1>2, <1>14, StreamIs DEF Puts
<1>15. CASE ok(s) /\ n > WordBits
  <2>1. t = [data |-> s.data, bitPos |-> s.bitPos, streamErr |-> "BadArg"]
    BY <1>2, <1>15, StreamIs DEF fail
  <2>2. t \in Streams(size)
    <3>1. /\ s.data \in [1..size -> Byte] /\ s.bitPos \in Nat /\ s.bitPos <= size * ByteBits
          /\ "BadArg" \in Errors
      BY StreamIs DEF Errors
    <3> QED
      BY Zenon, <2>1, <3>1, StreamMade
  <2> QED
    BY <1>15, <2>1, <2>2, StreamIs DEF Puts, ok
<1>16. ~ (n > WordBits) => n <= WordBits
  BY Sizes
<1> QED
  BY <1>2, <1>13, <1>14, <1>15, <1>16

-----------------------------------------------------------------------------
(* The loop of writeAlign. *)
ZeroOut(w)      == writeBit(w, 0)
ZerosFrom(w, k) == Repeat(ZeroOut, w, k)
Zeros           == [p \in Nat |-> 0]

LEMMA ZeroOutStays ==
  ASSUME NEW size \in Nat, NEW w \in Streams(size)
  PROVE  ZeroOut(w) \in Streams(size) /\ Puts(w, ZeroOut(w), Zeros, 1, size)
<1>1. PICK b \in {0, 1} : b = 0
  OBVIOUS
<1>2. Zeros[0] = b
  BY <1>1 DEF Zeros
<1>3. PICK t : t = writeBit(w, b)
  OBVIOUS
<1>4. t \in Streams(size) /\ Puts(w, t, Zeros, 1, size)
  BY <1>2, <1>3, PutBit
<1> QED
  BY <1>1, <1>3, <1>4 DEF ZeroOut

LEMMA ZerosRepeat ==
  ASSUME NEW size \in Nat, NEW w \in Streams(size), NEW k \in Nat
  PROVE  \E f : f[0] = w /\ f[k] = ZerosFrom(w, k) /\ \A i \in 0..(k - 1) : f[i + 1] = ZeroOut(f[i])
<1> DEFINE Step(f) == [i \in 0..k |-> IF i = 0 THEN w ELSE ZeroOut(f[i - 1])]
           D == Streams(size)
<1>1. ZerosFrom(w, k) = LET after == CHOOSE f : f = Step(f) IN after[k]
  BY Zenon DEF ZerosFrom, Repeat
<1>2. PICK G : G = [x \in D |-> ZeroOut(x)]
  OBVIOUS
<1>3. G \in [D -> D]
  BY <1>2, ZeroOutStays
<1>10. w \in D
  OBVIOUS
<1> HIDE DEF D
<1>11. PICK g \in [0..k -> D] : Chain(g, G, k, w)
  BY Zenon, <1>3, <1>10, Repeats
<1>4. g[0] = w /\ \A i \in 1..k : g[i] = G[g[i - 1]]
  BY Zenon, <1>11 DEF Chain
<1>5. ASSUME NEW i \in 0..k
      PROVE  g[i] = IF i = 0 THEN w ELSE ZeroOut(g[i - 1])
  <2>1. CASE i = 0
    BY <1>4, <2>1
  <2>2. CASE i # 0
    <3>1. i \in 1..k /\ i - 1 \in 0..k
      BY <2>2
    <3>2. g[i] = G[g[i - 1]] /\ g[i - 1] \in D
      BY <1>4, <3>1, <1>11
    <3> QED
      BY <1>2, <2>2, <3>2
  <2> QED
    BY <2>1, <2>2
<1>6. g = Step(g)
  BY <1>5
<1>7. PICK f : f = Step(f) /\ f[k] = ZerosFrom(w, k)
  <2>1. PICK r : r = CHOOSE f : f = Step(f)
    OBVIOUS
  <2>2. r = Step(r)
    BY Zenon, <1>6, <2>1
  <2>3. ZerosFrom(w, k) = r[k]
    BY Zenon, <1>1, <2>1
  <2> QED
    BY <2>2, <2>3
<1>8. f[0] = w
  <2>1. 0 \in 0..k
    OBVIOUS
  <2> QED
    BY <1>7, <2>1
<1>9. ASSUME NEW i \in 0..(k - 1)
      PROVE  f[i + 1] = ZeroOut(f[i])
  <2>1. PICK j : j = i + 1
    OBVIOUS
  <2>2. j \in 0..k /\ j # 0 /\ j - 1 = i
    BY <2>1
  <2>3. f[j] = ZeroOut(f[j - 1])
    BY <1>7, <2>2
  <2> QED
    BY <2>1, <2>2, <2>3
<1> QED
  BY <1>7, <1>8, <1>9


(* writeAlign puts zeros up to the next byte. *)
LEMMA PutAlign ==
  ASSUME NEW size \in Nat, NEW s \in Streams(size), NEW t, t = writeAlign(s)
  PROVE  t \in Streams(size) /\ Puts(s, t, Zeros, ToAlign(s), size)
<1>1. PICK k \in Nat : k = ToAlign(s)
  BY BitParts
<1>2. PICK f : f[0] = s /\ f[k] = ZerosFrom(s, k) /\ \A i \in 0..(k - 1) : f[i + 1] = ZeroOut(f[i])
  BY ZerosRepeat
<1>3. t = IF ok(s) THEN ZerosFrom(s, k) ELSE s
  BY Zenon, <1>1 DEF writeAlign, ZerosFrom, ZeroOut
<1> DEFINE P == {i \in 0..k : f[i] \in Streams(size) /\ Puts(s, f[i], Zeros, i, size)}
<1>4. 0 \in P
  BY <1>2, PutsNone
<1>5. \A i \in 0..(k - 1) : i \in P => i + 1 \in P
  <2> SUFFICES ASSUME NEW i \in 0..(k - 1), i \in P PROVE i + 1 \in P
    OBVIOUS
  <2>1. i \in Nat /\ i + 1 \in 0..k
    OBVIOUS
  <2>2. PICK u : u = f[i] /\ u \in Streams(size) /\ Puts(s, u, Zeros, i, size)
    OBVIOUS
  <2>3. PICK x : x = ZeroOut(u) /\ x \in Streams(size) /\ Puts(u, x, Zeros, 1, size)
    BY <2>2, ZeroOutStays
  <2>4. \A p \in 0..(1 - 1) : Zeros[p] = Zeros[i + p]
    <3>1. \A p \in 0..(1 - 1) : p \in Nat /\ i + p \in Nat
      BY <2>1
    <3> QED
      BY <3>1 DEF Zeros
  <2>5. Puts(s, x, Zeros, i + 1, size)
    BY <2>1, <2>2, <2>3, <2>4, PutsOn
  <2> QED
    BY <1>2, <2>1, <2>2, <2>3, <2>5
<1> HIDE DEF P
<1>6. 0..k \subseteq P
  BY Zenon, <1>4, <1>5, Onward
<1>7. k \in P
  BY <1>6
<1>8. ZerosFrom(s, k) \in Streams(size) /\ Puts(s, ZerosFrom(s, k), Zeros, k, size)
  BY <1>2, <1>7 DEF P
<1>9. CASE ~ ok(s)
  BY <1>3, <1>9, StreamIs DEF Puts
<1> QED
  BY <1>1, <1>3, <1>8, <1>9

-----------------------------------------------------------------------------
(* The sizes that varints are made of. *)
LEMMA Groups ==
  /\ GroupBits \in Nat \ {0} /\ GroupBits \in Nat /\ GroupBits + 1 = ByteBits /\ GroupBits < ByteBits
  /\ Pow(ByteBits) = 2 * Pow(GroupBits) /\ Pow(GroupBits) \in Nat \ {0}
  /\ MaxGroups \in Nat \ {0} /\ MaxGroups \in Nat
<1>1. GroupBits \in Nat \ {0} /\ GroupBits \in Nat /\ GroupBits + 1 = ByteBits /\ GroupBits < ByteBits
  BY Sizes DEF GroupBits
<1>2. PICK g \in Nat \ {0} : g = GroupBits
  BY <1>1
<1>3. WordBits \div g \in Nat
  BY Sizes
<1>4. Pow(g) \in Nat \ {0} /\ Pow(g + 1) = 2 * Pow(g)
  BY PowIs
<1> QED
  BY <1>1, <1>2, <1>3, <1>4 DEF MaxGroups

(* A group of a varint of n groups, and what its highest bit says. *)
GroupOf(v, i, n) ==
  ((v \div Pow(GroupBits * (i - 1))) % Pow(GroupBits)) + (IF i < n THEN Pow(GroupBits) ELSE 0)

LEMMA GroupIs ==
  ASSUME NEW v \in Nat, NEW i \in Nat \ {0}, NEW n \in Nat
  PROVE  /\ GroupOf(v, i, n) \in Byte
         /\ i < n <=> GroupOf(v, i, n) >= Pow(GroupBits)
         /\ GroupOf(v, i, n) % Pow(GroupBits) = (v \div Pow(GroupBits * (i - 1))) % Pow(GroupBits)
<1>1. PICK P \in Nat \ {0} : P = Pow(GroupBits) /\ Pow(ByteBits) = 2 * P
  BY Groups
<1>2. GroupBits * (i - 1) \in Nat
  BY Groups
<1>3. PICK m \in Nat : m = GroupBits * (i - 1)
  BY <1>2
<1>4. v \div Pow(m) \in Nat
  BY BitsOfDiv
<1>5. PICK x \in Nat : x = v \div Pow(m)
  BY <1>4
<1>6. PICK r \in 0..(P - 1) : r = x % P
  BY <1>1
<1>7. PICK y : y = IF i < n THEN r + P ELSE r
  OBVIOUS
<1>8. GroupOf(v, i, n) = y
  BY <1>1, <1>3, <1>5, <1>6, <1>7 DEF GroupOf
<1>9. y \in 0..(2 * P - 1) /\ (i < n <=> y >= P)
  BY <1>6, <1>7
<1>10. y % P = r
  <2>1. PICK q \in {0, 1} : y = P * q + r
    <3>1. CASE i < n
      <4>1. y = P * 1 + r
        BY <1>7, <3>1
      <4> QED
        BY <4>1
    <3>2. CASE ~ (i < n)
      <4>1. y = P * 0 + r
        BY <1>7, <3>2
      <4> QED
        BY <4>1
    <3> QED
      BY <3>1, <3>2
  <2>2. q \in Nat
    OBVIOUS
  <2> QED
    BY <2>1, <2>2, DivIs
<1> QED
  BY <1>1, <1>3, <1>5, <1>6, <1>8, <1>9, <1>10 DEF Byte

(* The groups that a varint is. *)
LEMMA VarintBytes ==
  ASSUME NEW v \in Nat
  PROVE  \E n \in 1..MaxGroups :
           /\ n = MaxGroups \/ v < Pow(GroupBits * n)
           /\ varintBytes(v) \in [1..n -> Byte] /\ Len(varintBytes(v)) = n
           /\ \A i \in 1..n : varintBytes(v)[i] = GroupOf(v, i, n)
<1> DEFINE Ends == {i \in 1..MaxGroups : i = MaxGroups \/ v < 2^(GroupBits * i)}
           n == FirstOf(Ends)
<1>1. MaxGroups \in Nat \ {0}
  BY Groups
<1>2. MaxGroups \in Ends /\ Ends \subseteq 1..MaxGroups
  <2>1. MaxGroups \in 1..MaxGroups
    BY <1>1
  <2> QED
    BY Zenon, <2>1
<1>3. \A i \in Ends : i = MaxGroups \/ v < Pow(GroupBits * i)
  BY Zenon DEF Pow
<1>4. varintBytes(v) = [i \in 1..n |-> GroupOf(v, i, n)]
  BY Zenon DEF varintBytes, GroupOf, Pow
<1> HIDE DEF Ends
<1>5. \E i \in Ends : \A j \in Ends : i <= j
  <2>1. Ends \subseteq Nat /\ Ends # {}
    BY <1>1, <1>2
  <2> QED
    BY <2>1, LeastNat
<1>6. n \in Ends
  BY <1>5 DEF FirstOf
<1> HIDE DEF n
<1>7. n \in 1..MaxGroups /\ n \in Nat
  <2>1. n \in 1..MaxGroups
    BY Zenon, <1>2, <1>6
  <2> QED
    BY <1>1, <2>1
<1>8. \A i \in 1..n : GroupOf(v, i, n) \in Byte
  <2> SUFFICES ASSUME NEW i \in 1..n PROVE GroupOf(v, i, n) \in Byte
    OBVIOUS
  <2>1. i \in Nat \ {0}
    BY <1>7
  <2> QED
    BY <1>7, <2>1, GroupIs
<1>9. varintBytes(v) \in [1..n -> Byte]
  BY <1>4, <1>8
<1>10. Len(varintBytes(v)) = n
  BY <1>7, <1>9, LengthIs
<1> QED
  BY <1>3, <1>4, <1>6, <1>7, <1>9, <1>10

-----------------------------------------------------------------------------
(* The first byte of a prefix integer. *)
LEMMA HeaderIs ==
  ASSUME NEW e \in 0..ByteBits
  PROVE  /\ HeaderBits(e) \in Nat
         /\ Ones(e) \in Nat
         /\ \A x \in 0..(Pow(HeaderBits(e)) - 1) :
              Ones(e) + x \in Byte /\ (e = ByteBits \/ Ones(e) + x < Ones(e + 1))
<1>1. PICK B \in Nat : B = ByteBits /\ B > 1
  BY Sizes
<1>2. PICK d \in Nat : d = B - e
  BY <1>1
<1>3. PICK W \in Nat, D \in Nat \ {0} : W = Pow(B) /\ D = Pow(d) /\ D <= W
  <2>1. d <= B /\ Pow(B) \in Nat /\ Pow(d) \in Nat \ {0}
    BY <1>1, <1>2, PowIs
  <2>2. Pow(d) <= Pow(B)
    BY <2>1, PowGrows
  <2> QED
    BY <2>1, <2>2
<1>4. Ones(e) = W - D
  BY <1>1, <1>2, <1>3 DEF Ones, Pow
<1>5. CASE d = 0
  <2>1. HeaderBits(e) = 0 /\ Pow(0) = 1 /\ e = ByteBits
    BY <1>1, <1>2, <1>5, Groups, PowIs DEF HeaderBits
  <2>2. D = 1
    BY <1>3, <1>5, <2>1
  <2> QED
    BY <1>1, <1>3, <1>4, <2>1, <2>2 DEF Byte
<1>6. CASE d # 0
  <2>1. PICK c \in Nat : d = c + 1 /\ c = B - (e + 1)
    <3>1. d - 1 \in Nat /\ d = (d - 1) + 1 /\ d - 1 = B - (e + 1)
      BY <1>1, <1>2, <1>6
    <3> QED
      BY <3>1
  <2>2. PICK C \in Nat \ {0} : C = Pow(c) /\ D = 2 * C
    BY <1>3, <2>1, PowIs
  <2>3. HeaderBits(e) = c
    BY <1>1, <1>2, <2>1, Groups DEF HeaderBits
  <2>4. Ones(e + 1) = W - C
    BY <1>1, <1>3, <2>1, <2>2 DEF Ones, Pow
  <2>5. \A x \in 0..(C - 1) : (W - D) + x \in 0..(W - 1) /\ (W - D) + x < W - C
    BY <1>3, <2>2
  <2> QED
    BY <1>1, <1>3, <1>4, <2>2, <2>3, <2>4, <2>5 DEF Byte
<1> QED
  BY <1>5, <1>6

(* The first byte that a number gets. *)
LEMMA PrefixBytes ==
  ASSUME NEW v \in Nat
  PROVE  \E e \in 0..ByteBits, h \in Byte :
           /\ encodePrefixIntHeader(v) = [header |-> h, shift |-> HeaderBits(e), extra |-> e]
           /\ Holds(e, v)
           /\ h = Ones(e) + (v % Pow(HeaderBits(e)))
<1> DEFINE Enough == {e \in 0..ByteBits : Holds(e, v)}
           extra == CHOOSE e \in 0..ByteBits : Holds(e, v) /\ \A f \in 0..(e - 1) : ~ Holds(f, v)
<1>1. ByteBits \in Enough
  <2>1. ByteBits \in 0..ByteBits
    BY Sizes
  <2>2. Holds(ByteBits, v)
    BY Zenon DEF Holds
  <2> QED
    BY <2>1, <2>2
<1>2. PICK least \in Enough : \A e \in Enough : least <= e
  <2>1. Enough \subseteq Nat
    BY Sizes
  <2> HIDE DEF Enough
  <2> QED
    BY <1>1, <2>1, LeastNat
<1>3. \A f \in 0..(least - 1) : f \in 0..ByteBits /\ ~ (least <= f)
  BY <1>2, Sizes
<1>4. least \in 0..ByteBits /\ Holds(least, v) /\ \A f \in 0..(least - 1) : ~ Holds(f, v)
  BY <1>2, <1>3
<1>5. extra \in 0..ByteBits /\ Holds(extra, v)
  BY <1>4
<1>6. encodePrefixIntHeader(v) =
        [header |-> Ones(extra) + (v % 2^HeaderBits(extra)), shift |-> HeaderBits(extra), extra |-> extra]
  BY Zenon DEF encodePrefixIntHeader
<1> HIDE DEF extra
<1>7. PICK k \in Nat : k = HeaderBits(extra)
  BY <1>5, HeaderIs
<1>8. v % Pow(k) \in 0..(Pow(k) - 1)
  BY BitsOfMod
<1>9. PICK h : h = Ones(extra) + (v % Pow(k))
  OBVIOUS
<1>10. h \in Byte
  BY <1>5, <1>7, <1>8, <1>9, HeaderIs
<1>11. encodePrefixIntHeader(v) = [header |-> h, shift |-> HeaderBits(extra), extra |-> extra]
  BY Zenon, <1>6, <1>7, <1>9 DEF Pow
<1> QED
  BY <1>5, <1>7, <1>9, <1>10, <1>11

(* The bytes of a prefix integer whose header is h. *)
PrefixOut(h, e, v) == <<h>> \o [i \in 1..e |-> ByteOf(v \div Pow(HeaderBits(e)), i - 1)]

LEMMA PrefixOutIs ==
  ASSUME NEW v \in Nat, NEW e \in 0..ByteBits, NEW h \in Byte
  PROVE  /\ PrefixOut(h, e, v) \in [1..(e + 1) -> Byte]
         /\ PrefixOut(h, e, v)[1] = h
         /\ \A i \in 1..e : PrefixOut(h, e, v)[i + 1] = ByteOf(v \div Pow(HeaderBits(e)), i - 1)
<1>1. PICK x \in Nat : x = v \div Pow(HeaderBits(e))
  BY HeaderIs, BitsOfDiv
<1>2. PICK rest : rest = [i \in 1..e |-> ByteOf(x, i - 1)]
  OBVIOUS
<1>3. e \in Nat
  BY Sizes
<1>4. \A i \in 1..e : ByteOf(x, i - 1) \in Byte
  <2> SUFFICES ASSUME NEW i \in 1..e PROVE ByteOf(x, i - 1) \in Byte
    OBVIOUS
  <2>1. i - 1 \in Nat
    BY <1>3
  <2> QED
    BY <2>1, ByteOfBits
<1>5. rest \in [1..e -> Byte] /\ rest \in Seq(Byte) /\ Len(rest) = e
  <2>1. rest \in [1..e -> Byte]
    BY <1>2, <1>4
  <2> QED
    BY <1>3, <2>1, LengthIs
<1>6. <<h>> \in Seq(Byte) /\ Len(<<h>>) = 1 /\ <<h>>[1] = h
  OBVIOUS
<1>7. PICK out : out = <<h>> \o rest
  OBVIOUS
<1>8. out \in Seq(Byte) /\ Len(out) = e + 1 /\ out[1] = h /\ \A i \in 1..e : out[i + 1] = rest[i]
  BY <1>3, <1>5, <1>6, <1>7
<1>9. out \in [1..(e + 1) -> Byte]
  BY <1>3, <1>8
<1>10. PrefixOut(h, e, v) = out
  BY Zenon, <1>1, <1>2, <1>7 DEF PrefixOut
<1> QED
  BY <1>1, <1>2, <1>8, <1>9, <1>10

-----------------------------------------------------------------------------
(* Where so many bytes end, by the number of bytes they reach into. *)
LEMMA EndsIn ==
  ASSUME NEW size \in Nat, NEW a \in Nat, NEW j \in 0..(ByteBits - 1), NEW count \in Nat
  PROVE  a * ByteBits + j + count * ByteBits <= size * ByteBits
           <=> a + (count + (IF j = 0 THEN 0 ELSE 1)) <= size
<1>1. PICK A \in Nat, C \in Nat, End \in Nat :
        A = a * ByteBits /\ C = count * ByteBits /\ End = size * ByteBits
  BY Span
<1>2. PICK N \in Nat : N = a + count
  OBVIOUS
<1>3. N * ByteBits = A + C
  BY <1>1, <1>2, SpanSum
<1>4. j \in Nat
  BY Sizes
<1>5. N < size => A + C + j < End
  <2>1. N < size => N * ByteBits + j < size * ByteBits
    BY Before
  <2> QED
    BY <1>1, <1>3, <2>1
<1>6. N = size => A + C = End
  BY <1>1, <1>3
<1>7. N > size => A + C > End
  <2> SUFFICES ASSUME N > size PROVE A + C > End
    OBVIOUS
  <2>1. size * ByteBits + 0 < N * ByteBits
    <3>1. 0 \in 0..(ByteBits - 1)
      BY Sizes
    <3>2. size < N
      OBVIOUS
    <3> QED
      BY <3>1, <3>2, Before
  <2> QED
    BY <1>1, <1>3, <2>1
<1>8. A + j + C <= End <=> N + (IF j = 0 THEN 0 ELSE 1) <= size
  BY <1>4, <1>5, <1>6, <1>7
<1> QED
  BY <1>1, <1>2, <1>8

(* Sequences, one after the other. *)
Joined(x, y) == x \o y

LEMMA JoinIs ==
  ASSUME NEW S, NEW x \in Seq(S), NEW y \in Seq(S), NEW m \in Nat, NEW k \in Nat,
         Len(x) = m, Len(y) = k
  PROVE  /\ Joined(x, y) \in [1..(m + k) -> S]
         /\ \A i \in 1..m : Joined(x, y)[i] = x[i]
         /\ \A i \in 1..k : Joined(x, y)[m + i] = y[i]
<1>1. x \o y \in Seq(S) /\ Len(x \o y) = m + k
  OBVIOUS
<1>2. \A i \in 1..m : (x \o y)[i] = x[i]
  OBVIOUS
<1>3. \A i \in 1..k : (x \o y)[m + i] = y[i]
  OBVIOUS
<1>4. PICK n \in Nat : n = m + k
  OBVIOUS
<1>5. PICK z : z = x \o y
  OBVIOUS
<1>6. z \in Seq(S) /\ Len(z) = n
  BY <1>1, <1>4, <1>5
<1>7. z \in [1..n -> S]
  BY <1>6
<1>8. z = Joined(x, y)
  BY <1>5 DEF Joined
<1> QED
  BY <1>2, <1>3, <1>4, <1>5, <1>7, <1>8

(* The byte and the bit of a position. *)
LEMMA InPlace ==
  ASSUME NEW size \in Nat, NEW p \in 0..(size * ByteBits - 1)
  PROVE  \E c \in Nat : \E j \in Nat :
           c \in 0..(size - 1) /\ j \in 0..(ByteBits - 1) /\ p = c * ByteBits + j
<1>1. PICK E \in Nat : E = size * ByteBits
  BY Span
<1>2. p \in Nat /\ p < E
  BY <1>1
<1>3. PICK c \in Nat, j \in 0..(ByteBits - 1) : p = c * ByteBits + j
  BY <1>2, PlaceOf
<1>4. j \in Nat
  BY Sizes
<1>5. c < size
  <2>1. c >= size => p >= size * ByteBits
    BY <1>3, Before
  <2> QED
    BY <1>1, <1>2, <2>1
<1>6. c \in 0..(size - 1)
  BY <1>5
<1> QED
  BY <1>3, <1>4, <1>6

(* Two sequences of bytes, one after the other. *)
LEMMA AtJoin ==
  ASSUME NEW m \in Nat, NEW k \in Nat, NEW x \in [1..m -> Byte], NEW y \in [1..k -> Byte],
         NEW z, z = Joined(x, y)
  PROVE  /\ z \in [1..(m + k) -> Byte]
         /\ \A p \in 0..(m * ByteBits - 1) : At(z, p) = At(x, p)
         /\ \A p \in 0..(k * ByteBits - 1) : At(z, m * ByteBits + p) = At(y, p)
<1>1. x \in Seq(Byte) /\ y \in Seq(Byte) /\ Len(x) = m /\ Len(y) = k
  BY LengthIs
<1>2. /\ Joined(x, y) \in [1..(m + k) -> Byte]
      /\ \A i \in 1..m : Joined(x, y)[i] = x[i]
      /\ \A i \in 1..k : Joined(x, y)[m + i] = y[i]
  BY <1>1, JoinIs
<1>3. z \in [1..(m + k) -> Byte]
  BY <1>2
<1>4. \A i \in 1..m : z[i] = x[i]
  BY <1>2
<1>5. \A i \in 1..k : z[m + i] = y[i]
  BY <1>2
<1>6. PICK M \in Nat, K \in Nat : M = m * ByteBits /\ K = k * ByteBits
  BY Span
<1>7. ASSUME NEW p \in 0..(M - 1)
      PROVE  At(z, p) = At(x, p)
  <2>1. PICK c \in Nat : \E j \in Nat :
          c \in 0..(m - 1) /\ j \in 0..(ByteBits - 1) /\ p = c * ByteBits + j
    BY Zenon, <1>6, <1>7, InPlace
  <2>7. PICK j \in Nat : c \in 0..(m - 1) /\ j \in 0..(ByteBits - 1) /\ p = c * ByteBits + j
    BY <2>1
  <2>2. c < m
    BY <2>7
  <2>3. z[c + 1] = x[c + 1]
    <3>1. c + 1 \in 1..m
      BY <2>2
    <3> QED
      BY <1>4, <3>1
  <2>4. At(z, c * ByteBits + j) = Bit(z[c + 1], j) /\ At(x, c * ByteBits + j) = Bit(x[c + 1], j)
    BY <2>7, AtPlace
  <2> QED
    BY <2>7, <2>3, <2>4
<1>8. ASSUME NEW p \in 0..(K - 1)
      PROVE  At(z, M + p) = At(y, p)
  <2>1. PICK c \in Nat : \E j \in Nat :
          c \in 0..(k - 1) /\ j \in 0..(ByteBits - 1) /\ p = c * ByteBits + j
    BY Zenon, <1>6, <1>8, InPlace
  <2>7. PICK j \in Nat : c \in 0..(k - 1) /\ j \in 0..(ByteBits - 1) /\ p = c * ByteBits + j
    BY <2>1
  <2>2. c < k
    BY <2>7
  <2>3. PICK d \in Nat : d = m + c
    OBVIOUS
  <2>4. z[d + 1] = y[c + 1]
    <3>1. c + 1 \in 1..k /\ m + (c + 1) = d + 1
      BY <2>2, <2>3
    <3> QED
      BY <1>5, <3>1
  <2>5. d * ByteBits + j = M + p
    <3>1. PICK C \in Nat : C = c * ByteBits
      BY Span
    <3>2. d * ByteBits = M + C
      BY <1>6, <2>3, <3>1, SpanSum
    <3> QED
      BY <2>7, <3>1, <3>2
  <2>6. At(z, d * ByteBits + j) = Bit(z[d + 1], j) /\ At(y, p) = Bit(y[c + 1], j)
    BY <2>7, AtPlace
  <2> QED
    BY <2>4, <2>5, <2>6
<1> QED
  BY <1>3, <1>6, <1>7, <1>8

(* A word of bytes more. *)
LEMMA TakenOn ==
  ASSUME NEW size \in Nat, NEW d \in [1..size -> Byte], NEW a \in Nat, NEW shift \in 0..(ByteBits - 1),
         NEW w \in Nat, NEW k \in Nat \ {0},
         a + w + 1 + k <= size, k * ByteBits + shift <= WordBits,
         NEW x, Taken(d, a * ByteBits + shift, x, w),
         NEW y, y = Joined(x, GetBlock(d, a + 1 + w, k, shift))
  PROVE  Taken(d, a * ByteBits + shift, y, w + k)
<1>1. PICK c \in Nat : c = a + w
  OBVIOUS
<1>2. PICK g : g = GetBlock(d, c + 1, k, shift)
  OBVIOUS
<1>3. /\ g \in [1..k -> Byte]
      /\ \A p \in 0..(k * ByteBits - 1) : At(g, p) = At(d, c * ByteBits + shift + p)
  <2>1. c + 1 + k <= size
    BY <1>1
  <2>2. Taken(d, c * ByteBits + shift, g, k)
    BY <1>2, <2>1, GetIs
  <2> QED
    BY Zenon, <2>2 DEF Taken
<1>4. y = Joined(x, g)
  <2>1. a + 1 + w = c + 1
    BY <1>1
  <2> QED
    BY <1>2, <2>1
<1>5. k \in Nat /\ shift \in Nat
  BY Sizes
<1>6. PICK A \in Nat, W \in Nat, K \in Nat : A = a * ByteBits /\ W = w * ByteBits /\ K = k * ByteBits
  <2>1. PICK A \in Nat, W \in Nat : A = a * ByteBits /\ W = w * ByteBits
    BY Span
  <2>2. PICK K \in Nat : K = k * ByteBits
    BY <1>5, Span
  <2> QED
    BY <2>1, <2>2
<1>7. c * ByteBits = A + W /\ (w + k) * ByteBits = W + K
  BY <1>1, <1>5, <1>6, SpanSum
<1>8. x \in [1..w -> Byte] /\ \A p \in 0..(W - 1) : At(x, p) = At(d, A + shift + p)
  BY <1>6 DEF Taken
<1>9. /\ y \in [1..(w + k) -> Byte]
      /\ \A p \in 0..(W - 1) : At(y, p) = At(x, p)
      /\ \A p \in 0..(K - 1) : At(y, W + p) = At(g, p)
  <2>1. PICK n \in Nat : n = k
    BY <1>5
  <2>2. g \in [1..n -> Byte] /\ x \in [1..w -> Byte]
    BY <1>3, <1>8, <2>1
  <2>3. /\ y \in [1..(w + n) -> Byte]
        /\ \A p \in 0..(w * ByteBits - 1) : At(y, p) = At(x, p)
        /\ \A p \in 0..(n * ByteBits - 1) : At(y, w * ByteBits + p) = At(g, p)
    BY <1>4, <2>2, AtJoin
  <2> QED
    BY <1>6, <2>1, <2>3
<1>10. ASSUME NEW p \in 0..(W + K - 1)
       PROVE  At(y, p) = At(d, A + shift + p)
  <2>1. CASE p < W
    <3>1. p \in 0..(W - 1)
      BY <2>1
    <3> QED
      BY <1>8, <1>9, <3>1
  <2>2. CASE ~ (p < W)
    <3>1. PICK q \in 0..(K - 1) : p = W + q
      <4>1. p - W \in 0..(K - 1) /\ p = W + (p - W)
        BY <2>2
      <4> QED
        BY <4>1
    <3>2. At(y, p) = At(d, A + W + shift + q)
      BY <1>3, <1>6, <1>7, <1>9, <3>1
    <3>3. A + W + shift + q = A + shift + p
      BY <1>5, <3>1
    <3> QED
      BY <3>2, <3>3
  <2> QED
    BY <2>1, <2>2
<1>11. \A p \in 0..((w + k) * ByteBits - 1) : At(y, p) = At(d, a * ByteBits + shift + p)
  BY <1>6, <1>7, <1>10
<1> QED
  BY Zenon, <1>9, <1>11 DEF Taken

(* Whole bytes. *)
LEMMA TakenWhole ==
  ASSUME NEW size \in Nat, NEW d \in [1..size -> Byte], NEW a \in Nat, NEW count \in Nat,
         a + count <= size
  PROVE  Taken(d, a * ByteBits, SubSeq(d, a + 1, a + count), count)
<1>1. SubSeq(d, a + 1, a + count) \in [1..count -> Byte]
  BY SubIs
<1>2. \A p \in 0..(count * ByteBits - 1) : At(SubSeq(d, a + 1, a + count), p) = At(d, a * ByteBits + p)
  BY AtSub
<1> QED
  BY <1>1, <1>2 DEF Taken

LEMMA TakenNone ==
  ASSUME NEW d, NEW pos
  PROVE  Taken(d, pos, <<>>, 0)
<1>1. 0 * ByteBits = 0
  BY Span
<1>2. <<>> \in [1..0 -> Byte]
  OBVIOUS
<1>3. \A p \in 0..(0 - 1) : FALSE
  OBVIOUS
<1> QED
  BY <1>1, <1>2, <1>3 DEF Taken

(* The words of a run of bytes, one after the other (got of readBytes). *)
Gathered(s, count, shift, start) ==
  LET blocks == Blocks(count, shift)
      got[j \in 0..Len(blocks)] ==
        IF j = 0 THEN <<>>
        ELSE got[j - 1] \o GetBlock(s.data, start + blocks[j].first, blocks[j].size, shift)
  IN  got[Len(blocks)]

(* All words together have all bytes. *)
LEMMA WordsTaken ==
  ASSUME NEW size \in Nat, NEW s \in Streams(size), NEW count \in Nat,
         NEW shift \in 0..(ByteBits - 1), NEW a \in Nat, a + count + 1 <= size,
         NEW e, e = Gathered(s, count, shift, a + 1)
  PROVE  Taken(s.data, a * ByteBits + shift, e, count)
<1> DEFINE D == Seq(Byte)
           blocks == Blocks(count, shift)
           start == a + 1
           Get1(x, j) == x \o GetBlock(s.data, start + blocks[j].first, blocks[j].size, shift)
           Step(f, n) == [j \in 0..n |-> IF j = 0 THEN <<>> ELSE Get1(f[j - 1], j)]
<1>1. PICK n \in Nat : \E w \in [0..n -> 0..count] :
           /\ w[0] = 0 /\ w[n] = count
           /\ Len(Blocks(count, shift)) = n
           /\ \A j \in 1..n :
                /\ w[j] - w[j - 1] \in Nat \ {0}
                /\ (w[j] - w[j - 1]) * ByteBits + shift <= WordBits
                /\ Blocks(count, shift)[j] = [first |-> w[j - 1], size |-> w[j] - w[j - 1]]
  BY BlocksAre
<1>2. PICK w \in [0..n -> 0..count] :
           /\ w[0] = 0 /\ w[n] = count
           /\ Len(blocks) = n
           /\ \A j \in 1..n :
                /\ w[j] - w[j - 1] \in Nat \ {0}
                /\ (w[j] - w[j - 1]) * ByteBits + shift <= WordBits
                /\ blocks[j] = [first |-> w[j - 1], size |-> w[j] - w[j - 1]]
  BY <1>1
<1>3. e = LET r == CHOOSE f : f = Step(f, n) IN r[n]
  <2>1. e = LET r == CHOOSE f : f = Step(f, Len(blocks)) IN r[Len(blocks)]
    BY Zenon DEF Gathered
  <2> QED
    BY Zenon, <1>2, <2>1
<1> HIDE DEF blocks
<1>4. PICK base, pos : base = s.data /\ base \in [1..size -> Byte] /\ pos = a * ByteBits + shift
  BY StreamIs
(* One word more. *)
<1>5. ASSUME NEW j \in 1..n, NEW x \in D
      PROVE  /\ Get1(x, j) \in D
             /\ Taken(base, pos, x, w[j - 1]) => Taken(base, pos, Get1(x, j), w[j])
  <2>1. PICK b \in Nat, v \in Nat : b = w[j - 1] /\ v = w[j] /\ v <= count /\ v - b \in Nat \ {0}
    <3>1. j - 1 \in 0..n /\ j \in 0..n
      BY <1>1
    <3>2. w[j - 1] \in 0..count /\ w[j] \in 0..count
      BY <1>2, <3>1
    <3>3. w[j] - w[j - 1] \in Nat \ {0}
      BY <1>2
    <3> QED
      BY <3>2, <3>3
  <2>2. b \in Nat /\ v \in Nat /\ v <= count /\ v - b \in Nat \ {0}
    BY <2>1
  <2>3. PICK k \in Nat \ {0} : k = v - b /\ v = b + k
    <3>1. v - b \in Nat \ {0} /\ v = b + (v - b)
      BY <2>2
    <3> QED
      BY <3>1
  <2>4. b = w[j - 1] /\ k = w[j] - w[j - 1] /\ w[j] = b + k
    BY <2>1, <2>3
  <2>5. k * ByteBits + shift <= WordBits /\ blocks[j] = [first |-> b, size |-> k]
    BY <1>2, <2>4
  <2>6. PICK g : g = GetBlock(base, a + 1 + b, k, shift)
    OBVIOUS
  <2>7. Get1(x, j) = Joined(x, g)
    <3>1. blocks[j].first = b /\ blocks[j].size = k
      BY <2>5
    <3> QED
      BY Zenon, <1>4, <2>6, <3>1 DEF Joined
  <2> HIDE DEF Get1
  <2>8. PICK y : y = Get1(x, j)
    OBVIOUS
  <2>9. y \in D
    <3>1. PICK c \in Nat : c = a + b /\ c + 1 + k <= size /\ a + 1 + b = c + 1
      <4>1. k \in Nat /\ v = b + k
        BY <2>3
      <4>2. a + b \in Nat /\ (a + b) + 1 + k <= size /\ a + 1 + b = (a + b) + 1
        BY <2>2, <4>1
      <4> QED
        BY <4>2
    <3>2. Taken(base, c * ByteBits + shift, g, k)
      BY <1>4, <2>5, <2>6, <3>1, GetIs
    <3>3. g \in [1..k -> Byte]
      BY Zenon, <3>2 DEF Taken
    <3>4. PICK m \in Nat : m = Len(x)
      OBVIOUS
    <3>5. PICK l \in Nat : l = k
      BY <2>3
    <3>6. g \in Seq(Byte) /\ Len(g) = l
      BY <3>3, <3>5, LengthIs
    <3>7. Joined(x, g) \in [1..(m + l) -> Byte]
      BY <3>4, <3>6, JoinIs
    <3>8. PICK z \in Nat : z = m + l
      OBVIOUS
    <3> QED
      BY <2>7, <2>8, <3>7, <3>8
  <2>10. Taken(base, pos, x, b) => Taken(base, pos, y, b + k)
    <3>1. y = Joined(x, GetBlock(base, a + 1 + b, k, shift))
      BY <2>6, <2>7, <2>8
    <3>2. a + b + 1 + k <= size
      <4>1. k \in Nat /\ v = b + k
        BY <2>3
      <4> QED
        BY <2>2, <4>1
    <3> QED
      BY <1>4, <2>5, <3>1, <3>2, TakenOn
  <2> QED
    BY <2>4, <2>8, <2>9, <2>10
<1> HIDE DEF Get1
<1>12. <<>> \in D
  OBVIOUS
<1>6. \E f : f = Step(f, n)
  <2>1. PICK F : F = [j \in 1..n |-> [x \in D |-> Get1(x, j)]]
    OBVIOUS
  <2>2. F \in [1..n -> [D -> D]]
    BY <1>5, <2>1
  <2> HIDE DEF D
  <2>7. PICK none : none = <<>> /\ none \in D
    BY <1>12
  <2>3. PICK g \in [0..n -> D] : Stepwise(g, F, n, none)
    BY Zenon, <2>7, <2>2, Iterates
  <2>4. g[0] = none /\ \A i \in 1..n : g[i] = F[i][g[i - 1]]
    BY Zenon, <2>3 DEF Stepwise
  <2>5. ASSUME NEW i \in 0..n
        PROVE  g[i] = IF i = 0 THEN <<>> ELSE Get1(g[i - 1], i)
    <3>1. CASE i = 0
      BY <2>7, <2>4, <3>1
    <3>2. CASE i # 0
      <4>1. i \in 1..n /\ i - 1 \in 0..n
        BY <3>2
      <4>2. g[i] = F[i][g[i - 1]] /\ g[i - 1] \in D
        BY <2>3, <2>4, <4>1
      <4>3. F[i][g[i - 1]] = Get1(g[i - 1], i)
        BY <2>1, <4>1, <4>2
      <4> QED
        BY <3>2, <4>2, <4>3
    <3> QED
      BY <3>1, <3>2
  <2>6. g = Step(g, n)
    BY <2>5
  <2> QED
    BY <2>6
<1>7. PICK f : f = Step(f, n) /\ e = f[n]
  <2>1. PICK r : r = CHOOSE f : f = Step(f, n)
    OBVIOUS
  <2>2. r = Step(r, n)
    BY Zenon, <1>6, <2>1
  <2>3. e = r[n]
    BY Zenon, <1>3, <2>1
  <2> QED
    BY <2>2, <2>3
<1>8. /\ f[0] = <<>>
      /\ \A i \in 0..(n - 1) : f[i + 1] = Get1(f[i], i + 1)
  <2>1. 0 \in 0..n
    BY <1>1
  <2>2. f[0] = <<>>
    BY <1>7, <2>1
  <2>3. ASSUME NEW i \in 0..(n - 1)
        PROVE  f[i + 1] = Get1(f[i], i + 1)
    <3>1. PICK j : j = i + 1
      OBVIOUS
    <3>2. j \in 0..n /\ j # 0 /\ j - 1 = i
      BY <1>1, <3>1
    <3>3. f[j] = Get1(f[j - 1], j)
      BY <1>7, <3>2
    <3> QED
      BY <3>1, <3>2, <3>3
  <2> QED
    BY <2>2, <2>3
<1> DEFINE P == {m \in 0..n : f[m] \in D /\ Taken(base, pos, f[m], w[m])}
<1>9. 0 \in P
  <2>1. Taken(base, pos, <<>>, 0)
    BY TakenNone
  <2>2. f[0] \in D
    BY <1>8, <1>12
  <2>3. w[0] = 0 /\ 0 \in 0..n
    BY <1>1, <1>2
  <2>4. Taken(base, pos, f[0], w[0])
    BY Zenon, <1>8, <2>1, <2>3
  <2> QED
    BY Zenon, <2>2, <2>3, <2>4
<1>10. \A i \in 0..(n - 1) : i \in P => i + 1 \in P
  <2> SUFFICES ASSUME NEW i \in 0..(n - 1), i \in P PROVE i + 1 \in P
    OBVIOUS
  <2>1. PICK j \in 1..n : j = i + 1 /\ j - 1 = i
    BY <1>1
  <2>2. PICK x \in D : x = f[i]
    OBVIOUS
  <2>3. Taken(base, pos, x, w[j - 1])
    BY <2>1, <2>2
  <2>4. f[j] = Get1(x, j)
    BY <1>8, <2>1, <2>2
  <2>5. Get1(x, j) \in D /\ Taken(base, pos, Get1(x, j), w[j])
    BY <1>5, <2>3
  <2>6. j \in 0..n
    BY <1>1
  <2> QED
    BY <2>1, <2>4, <2>5, <2>6
<1> HIDE DEF P
<1>11. n \in P
  <2>1. 0..n \subseteq P
    BY Zenon, <1>1, <1>9, <1>10, Onward
  <2> QED
    BY <1>1, <2>1
<1> QED
  BY <1>2, <1>4, <1>7, <1>11 DEF P

(* t is s n bits later, or at the end of what there is. *)
Moved(s, t, n, size) ==
  /\ t \in Streams(size)
  /\ ~ ok(s) => t = s
  /\ ok(s) => t.data = s.data
  /\ ok(s) => IF s.bitPos + n <= size * ByteBits THEN ok(t) /\ t.bitPos = s.bitPos + n
              ELSE t.streamErr = "Eof"

LEMMA MovedNone ==
  ASSUME NEW size \in Nat, NEW s \in Streams(size)
  PROVE  Moved(s, s, 0, size)
<1>1. PICK S \in Nat, End \in Nat : S = s.bitPos /\ End = size * ByteBits /\ S <= End
  BY StreamIs
<1> QED
  BY <1>1 DEF Moved

(* One move after the other. *)
LEMMA MovedOn ==
  ASSUME NEW size \in Nat, NEW s \in Streams(size), NEW t, NEW u, NEW m \in Nat, NEW n \in Nat,
         Moved(s, t, m, size), Moved(t, u, n, size)
  PROVE  Moved(s, u, m + n, size)
<1>1. t \in Streams(size) /\ u \in Streams(size)
  BY DEF Moved
<1>2. PICK S \in Nat, T \in Nat, U \in Nat, End \in Nat :
        S = s.bitPos /\ T = t.bitPos /\ U = u.bitPos /\ End = size * ByteBits
  BY <1>1, StreamIs
<1>3. (~ ok(s) => u = s) /\ (ok(s) => u.data = s.data)
  BY DEF Moved
<1>4. ok(s) => IF S + m <= End THEN ok(t) /\ T = S + m ELSE t.streamErr = "Eof"
  BY <1>2 DEF Moved
<1>5. ok(t) => IF T + n <= End THEN ok(u) /\ U = T + n ELSE u.streamErr = "Eof"
  BY <1>2 DEF Moved
<1>6. ~ ok(t) => u = t
  BY DEF Moved
<1>7. ok(s) => IF S + (m + n) <= End THEN ok(u) /\ U = S + (m + n) ELSE u.streamErr = "Eof"
  <2> SUFFICES ASSUME ok(s) PROVE IF S + (m + n) <= End THEN ok(u) /\ U = S + (m + n) ELSE u.streamErr = "Eof"
    OBVIOUS
  <2>1. CASE S + m <= End
    <3>1. ok(t) /\ T = S + m
      BY <1>4, <2>1
    <3>2. T + n = S + (m + n)
      BY <3>1
    <3> QED
      BY <1>5, <3>1, <3>2
  <2>2. CASE ~ (S + m <= End)
    <3>1. t.streamErr = "Eof" /\ u = t
      BY <1>4, <1>6, <2>2 DEF ok
    <3>2. ~ (S + (m + n) <= End)
      BY <2>2
    <3> QED
      BY <3>1, <3>2
  <2> QED
    BY <2>1, <2>2
<1> QED
  BY <1>1, <1>2, <1>3, <1>7 DEF Moved

(* Bytes are taken out, or they are not all there. *)
LEMMA GetBytes ==
  ASSUME NEW size \in Nat, NEW s \in Streams(size), NEW count \in Nat,
         NEW r, r = readBytes(s, count, count)
  PROVE  /\ Moved(s, r.stream, count * ByteBits, size)
         /\ ok(r.stream) => Taken(s.data, s.bitPos, r.out, count)
<1> DEFINE shift  == bitIndex(s)
           needed == count + (IF shift = 0 THEN 0 ELSE 1)
           start  == byteIndex(s) + 1
           blocks == Blocks(count, shift)
           got == CHOOSE g : g = [j \in 0..Len(blocks) |->
             IF j = 0 THEN <<>>
             ELSE g[j - 1] \o GetBlock(s.data, start + blocks[j].first, blocks[j].size, shift)]
<1>1. r = IF ~ ok(s) \/ count = 0 THEN Got(s, <<>>)
      ELSE IF count > count THEN Got(fail(s, "BadArg"), <<>>)
      ELSE IF byteIndex(s) + needed > Size(s) THEN Got(fail(s, "Eof"), <<>>)
      ELSE Got(advance(s, count * ByteBits),
               IF shift = 0 THEN SubSeq(s.data, start, start + count - 1) ELSE got[Len(blocks)])
  BY Zenon DEF readBytes
<1>2. got[Len(blocks)] = Gathered(s, count, shift, start)
  BY Zenon DEF Gathered
<1> HIDE DEF got, blocks
<1>3. PICK d, pos, err : s = [data |-> d, bitPos |-> pos, streamErr |-> err]
  BY StreamIs
<1>4. PICK a \in Nat, j \in Nat : a = byteIndex(s) /\ j = bitIndex(s)
  BY StreamIs, Sizes
<1>5. PICK End \in Nat, C \in Nat : End = size * ByteBits /\ C = count * ByteBits
  BY Span
<1>6. PICK A \in Nat : A = a * ByteBits
  BY Span
<1>7. /\ d \in [1..size -> Byte] /\ pos \in Nat /\ pos <= End /\ err \in Errors
      /\ Size(s) = size /\ j \in 0..(ByteBits - 1) /\ pos = A + j
      /\ s.data = d /\ s.bitPos = pos /\ s.streamErr = err
  BY <1>3, <1>4, <1>5, <1>6, StreamIs
<1>8. ok(s) <=> err = "Ok"
  BY <1>7 DEF ok
<1>9. CASE ~ ok(s)
  <2>1. r.stream = s
    BY <1>1, <1>9 DEF Got
  <2> QED
    BY <1>9, <2>1 DEF Moved
<1>10. CASE ok(s) /\ count = 0
  <2>1. r.stream = s /\ r.out = <<>>
    BY <1>1, <1>10 DEF Got
  <2>2. count * ByteBits = 0
    BY <1>10, Span
  <2>3. Moved(s, s, 0, size) /\ Taken(s.data, s.bitPos, <<>>, 0)
    BY MovedNone, TakenNone
  <2> QED
    BY <1>10, <2>1, <2>2, <2>3
<1>11. PICK more \in Nat : more = needed /\ more = count + (IF j = 0 THEN 0 ELSE 1)
  BY <1>4
<1>12. pos + C <= End <=> a + more <= size
  <2>1. a * ByteBits + j + count * ByteBits <= size * ByteBits
           <=> a + (count + (IF j = 0 THEN 0 ELSE 1)) <= size
    BY <1>7, EndsIn
  <2> QED
    BY <1>5, <1>6, <1>7, <1>11, <2>1
<1>13. ~ (count > count)
  OBVIOUS
<1>14. CASE ok(s) /\ count # 0 /\ a + more > size
  <2>1. r.stream = fail(s, "Eof")
    BY <1>1, <1>4, <1>7, <1>11, <1>13, <1>14 DEF Got
  <2>2. r.stream = [data |-> d, bitPos |-> pos, streamErr |-> "Eof"]
    BY <1>3, <2>1 DEF fail
  <2>3. r.stream \in Streams(size)
    <3>1. /\ d \in [1..size -> Byte] /\ pos \in Nat /\ pos <= size * ByteBits
          /\ "Eof" \in Errors
      BY <1>5, <1>7 DEF Errors
    <3>2. [data |-> d, bitPos |-> pos, streamErr |-> "Eof"] \in Streams(size)
      BY Zenon, <3>1, StreamMade
    <3> QED
      BY <2>2, <3>2
  <2>4. ~ (pos + C <= End)
    BY <1>12, <1>14
  <2>5. r.stream.data = d /\ r.stream.streamErr = "Eof"
    BY <2>2
  <2> QED
    BY <1>5, <1>7, <1>14, <2>3, <2>4, <2>5 DEF Moved, ok
<1>15. CASE ok(s) /\ count # 0 /\ ~ (a + more > size)
  <2>1. PICK e : e = IF shift = 0 THEN SubSeq(s.data, start, start + count - 1) ELSE got[Len(blocks)]
    OBVIOUS
  <2>2. r = Got(advance(s, C), e)
    BY <1>1, <1>4, <1>5, <1>7, <1>11, <1>13, <1>15, <2>1
  <2>3. r.out = e /\ r.stream = [data |-> d, bitPos |-> pos + C, streamErr |-> "Ok"]
    BY <1>3, <1>8, <1>15, <2>2 DEF Got, advance
  <2>4. pos + C <= End
    BY <1>12, <1>15
  <2>5. r.stream \in Streams(size)
    <3>1. /\ d \in [1..size -> Byte] /\ pos + C \in Nat /\ pos + C <= size * ByteBits
          /\ "Ok" \in Errors
      BY <1>5, <1>7, <2>4 DEF Errors
    <3>2. [data |-> d, bitPos |-> pos + C, streamErr |-> "Ok"] \in Streams(size)
      BY Zenon, <3>1, StreamMade
    <3> QED
      BY <2>3, <3>2
  <2>6. Taken(d, pos, e, count)
    <3>1. CASE j = 0
      <4>1. e = SubSeq(d, a + 1, a + count)
        <5>1. (a + 1) + count - 1 = a + count
          OBVIOUS
        <5> QED
          BY <1>4, <1>7, <2>1, <3>1, <5>1
      <4>2. a + count <= size
        BY <1>11, <1>15, <3>1
      <4>3. Taken(d, a * ByteBits, e, count)
        BY <1>7, <4>1, <4>2, TakenWhole
      <4>4. pos = a * ByteBits
        BY <1>6, <1>7, <3>1
      <4> QED
        BY <4>3, <4>4
    <3>2. CASE j # 0
      <4>1. e = Gathered(s, count, j, a + 1)
        BY <1>2, <1>4, <2>1, <3>2
      <4>2. a + count + 1 <= size
        BY <1>11, <1>15, <3>2
      <4>3. Taken(s.data, a * ByteBits + j, e, count)
        BY <1>7, <4>1, <4>2, WordsTaken
      <4> QED
        BY <1>6, <1>7, <4>3
    <3> QED
      BY <3>1, <3>2
  <2> QED
    BY <1>5, <1>7, <1>15, <2>3, <2>4, <2>5, <2>6 DEF Moved, ok
<1> QED
  BY <1>9, <1>10, <1>14, <1>15

-----------------------------------------------------------------------------
(* A number above another. *)
LEMMA AboveIs ==
  ASSUME NEW m \in Nat, NEW n \in Nat, NEW out \in 0..(Pow(m) - 1), NEW x \in 0..(Pow(n) - 1),
         NEW new, new = IF x = 0 THEN out ELSE out + x * Pow(m)
  PROVE  /\ new \in 0..(Pow(m + n) - 1)
         /\ \A p \in 0..(m - 1) : Bit(new, p) = Bit(out, p)
         /\ \A p \in 0..(n - 1) : Bit(new, m + p) = Bit(x, p)
<1>1. PICK P \in Nat \ {0} : P = Pow(m)
  BY PowIs
<1>2. x \in Nat
  <2>1. Pow(n) \in Nat
    BY PowIs
  <2> QED
    BY <2>1
<1>3. new = P * x + out
  <2>1. out \in Nat
    BY <1>1
  <2>2. x = 0 => P * x + out = out
    BY <1>1, <2>1
  <2>3. P * x + out = out + x * P
    BY <1>1, <1>2, <2>1
  <2> QED
    BY <1>1, <2>2, <2>3
<1>4. new \in 0..(Pow(m + n) - 1)
  BY <1>1, <1>3, Join
<1>7. new = Pow(m) * x + out
  BY <1>1, <1>3
<1>8. \A p \in Nat : (p < m => Bit(new, p) = Bit(out, p)) /\ (p >= m => Bit(new, p) = Bit(x, p - m))
  <2> SUFFICES ASSUME NEW p \in Nat
               PROVE  (p < m => Bit(new, p) = Bit(out, p)) /\ (p >= m => Bit(new, p) = Bit(x, p - m))
    OBVIOUS
  <2>1. m \in Nat /\ x \in Nat /\ out \in 0..(Pow(m) - 1) /\ new = Pow(m) * x + out
    BY <1>2, <1>7
  <2>2. /\ new \in Nat
        /\ p < m => Bit(new, p) = Bit(out, p)
        /\ p >= m => Bit(new, p) = Bit(x, p - m)
    BY <2>1, BitSplit
  <2> QED
    BY <2>2
<1>5. ASSUME NEW p \in 0..(m - 1)
      PROVE  Bit(new, p) = Bit(out, p)
  <2>1. p \in Nat /\ p < m
    OBVIOUS
  <2> QED
    BY <1>8, <2>1
<1>6. ASSUME NEW p \in 0..(n - 1)
      PROVE  Bit(new, m + p) = Bit(x, p)
  <2>1. PICK q \in Nat : q = m + p /\ q >= m /\ q - m = p
    OBVIOUS
  <2>2. Bit(new, q) = Bit(x, q - m)
    BY <1>8, <2>1
  <2> QED
    BY <2>1, <2>2
<1> QED
  BY <1>4, <1>5, <1>6

(* A number that is being read, and one of which m bits were read from s. *)
Numbers(size) == [stream : Streams(size), out : Nat, produced : Nat]
Gains(s, m, w, size) ==
  /\ w \in Numbers(size)
  /\ Moved(s, w.stream, m, size)
  /\ ok(w.stream) => /\ w.produced = m /\ w.out \in 0..(Pow(m) - 1)
                     /\ \A p \in 0..(m - 1) : Bit(w.out, p) = At(s.data, s.bitPos + p)

LEMMA NumberIs ==
  ASSUME NEW size \in Nat, NEW w \in Numbers(size)
  PROVE  /\ w = [stream |-> w.stream, out |-> w.out, produced |-> w.produced]
         /\ w.stream \in Streams(size) /\ w.out \in Nat /\ w.produced \in Nat
BY DEF Numbers

(* x has the next n bits. *)
LEMMA GainsOn ==
  ASSUME NEW size \in Nat, NEW s \in Streams(size), NEW m \in Nat, NEW n \in Nat, NEW w,
         Gains(s, m, w, size), NEW t, Moved(w.stream, t, n, size), NEW x \in 0..(Pow(n) - 1),
         ok(t),
         \A p \in 0..(n - 1) : Bit(x, p) = At(w.stream.data, w.stream.bitPos + p),
         NEW new, new = IF x = 0 THEN w.out ELSE w.out + x * Pow(w.produced),
         NEW y, y = [stream |-> t, out |-> new, produced |-> w.produced + n]
  PROVE  Gains(s, m + n, y, size)
<1>1. PICK u \in Streams(size) : u = w.stream
  BY NumberIs DEF Gains
<1>2. Moved(s, u, m, size) /\ Moved(u, t, n, size)
  BY <1>1 DEF Gains
<1>3. ok(u) /\ ok(s)
  BY <1>2 DEF Moved
<1>4. PICK S \in Nat, End \in Nat : S = s.bitPos /\ End = size * ByteBits
  BY StreamIs
<1>5. u.data = s.data /\ u.bitPos = S + m
  <2>1. IF S + m <= End THEN ok(u) /\ u.bitPos = S + m ELSE u.streamErr = "Eof"
    BY <1>2, <1>3, <1>4 DEF Moved
  <2> QED
    BY <1>2, <1>3, <2>1 DEF Moved, ok
<1>6. PICK out \in 0..(Pow(m) - 1) : out = w.out /\ \A p \in 0..(m - 1) : Bit(out, p) = At(s.data, S + p)
  BY <1>1, <1>3, <1>4 DEF Gains
<1>7. w.produced = m
  BY <1>1, <1>3 DEF Gains
<1>8. new = IF x = 0 THEN out ELSE out + x * Pow(m)
  BY <1>6, <1>7
<1>9. /\ new \in 0..(Pow(m + n) - 1)
      /\ \A p \in 0..(m - 1) : Bit(new, p) = Bit(out, p)
      /\ \A p \in 0..(n - 1) : Bit(new, m + p) = Bit(x, p)
  BY <1>8, AboveIs
<1>10. ASSUME NEW p \in 0..((m + n) - 1)
       PROVE  Bit(new, p) = At(s.data, S + p)
  <2>1. CASE p < m
    <3>1. p \in 0..(m - 1)
      BY <2>1
    <3> QED
      BY <1>6, <1>9, <3>1
  <2>2. CASE ~ (p < m)
    <3>1. PICK q \in 0..(n - 1) : p = m + q
      <4>1. p - m \in 0..(n - 1) /\ p = m + (p - m)
        BY <2>2
      <4> QED
        BY <4>1
    <3>2. (S + m) + q = S + p
      BY <3>1
    <3>3. Bit(x, q) = At(s.data, (S + m) + q)
      BY <1>1, <1>5
    <3> QED
      BY <1>9, <3>1, <3>2, <3>3
  <2> QED
    BY <2>1, <2>2
<1>11. Moved(s, t, m + n, size)
  BY <1>2, MovedOn
<1>12. t \in Streams(size) /\ new \in Nat
  <2>1. Pow(m + n) \in Nat
    BY PowIs
  <2> QED
    BY <1>2, <1>9, <2>1 DEF Moved
<1>13. y \in Numbers(size) /\ y.stream = t /\ y.out = new /\ y.produced = m + n
  BY <1>7, <1>12 DEF Numbers
<1> QED
  BY <1>4, <1>9, <1>10, <1>11, <1>13 DEF Gains

(* When nothing more can be read. *)
LEMMA GainsNone ==
  ASSUME NEW size \in Nat, NEW s \in Streams(size), NEW m \in Nat, NEW n \in Nat, NEW w,
         Gains(s, m, w, size), NEW t, Moved(w.stream, t, n, size), ~ ok(t),
         NEW y, y = [stream |-> t, out |-> w.out, produced |-> w.produced]
  PROVE  Gains(s, m + n, y, size)
<1>1. Moved(s, t, m + n, size)
  BY MovedOn DEF Gains
<1>2. w.out \in Nat /\ w.produced \in Nat /\ t \in Streams(size)
  BY NumberIs DEF Gains, Moved
<1>3. y \in Numbers(size) /\ y.stream = t
  BY <1>2 DEF Numbers
<1> QED
  BY <1>1, <1>3 DEF Gains

(* One bit, or one byte, is read. *)
LEMMA GainsBit ==
  ASSUME NEW size \in Nat, NEW s \in Streams(size), NEW m \in Nat, NEW w, Gains(s, m, w, size)
  PROVE  Gains(s, m + 1, readBit(w), size)
<1>1. w \in Numbers(size)
  BY DEF Gains
<1>2. PICK u \in Streams(size), out \in Nat, z \in Nat :
        u = w.stream /\ out = w.out /\ z = w.produced /\ w = [stream |-> u, out |-> out, produced |-> z]
  BY <1>1, NumberIs
<1>3. PICK d, pos, err : u = [data |-> d, bitPos |-> pos, streamErr |-> err]
  BY StreamIs
<1>4. PICK a \in Nat, j \in Nat : a = byteIndex(u) /\ j = bitIndex(u)
  BY StreamIs, Sizes
<1>5. PICK End \in Nat, A \in Nat : End = size * ByteBits /\ A = a * ByteBits
  BY Span
<1>6. /\ d \in [1..size -> Byte] /\ pos \in Nat /\ pos <= End /\ err \in Errors
      /\ Size(u) = size /\ j \in 0..(ByteBits - 1) /\ pos = A + j
      /\ u.data = d /\ u.bitPos = pos /\ u.streamErr = err
  BY <1>3, <1>4, <1>5, StreamIs
<1>7. (a < size => pos < End) /\ (a >= size => pos >= End)
  BY <1>5, <1>6, Before
<1>8. PICK y : y = readBit(w)
  OBVIOUS
<1>9. CASE ~ ok(u)
  <2>1. y = [stream |-> u, out |-> w.out, produced |-> w.produced]
    BY <1>2, <1>8, <1>9 DEF readBit
  <2>2. Moved(w.stream, u, 1, size)
    BY <1>2, <1>9 DEF Moved
  <2> QED
    BY <1>8, <1>9, <2>1, <2>2, GainsNone
<1>10. CASE ok(u) /\ a >= size
  <2>1. PICK t : t = fail(u, "Eof")
    OBVIOUS
  <2>2. t = [data |-> d, bitPos |-> pos, streamErr |-> "Eof"]
    BY <1>3, <2>1 DEF fail
  <2>3. y = [stream |-> t, out |-> w.out, produced |-> w.produced]
    BY <1>2, <1>4, <1>6, <1>8, <1>10, <2>1 DEF readBit
  <2>4. t \in Streams(size)
    <3>1. d \in [1..size -> Byte] /\ pos \in Nat /\ pos <= size * ByteBits /\ "Eof" \in Errors
      BY <1>5, <1>6 DEF Errors
    <3> QED
      BY Zenon, <2>2, <3>1, StreamMade
  <2>5. t.data = d /\ t.streamErr = "Eof" /\ ~ ok(t)
    BY <2>2 DEF ok
  <2>6. ~ (pos + 1 <= End)
    BY <1>6, <1>7, <1>10
  <2>7. Moved(w.stream, t, 1, size)
    BY <1>2, <1>5, <1>6, <1>10, <2>4, <2>5, <2>6 DEF Moved
  <2> QED
    BY <1>8, <2>3, <2>5, <2>7, GainsNone
<1>11. CASE ok(u) /\ ~ (a >= size)
  <2>1. PICK t : t = advance(u, 1)
    OBVIOUS
  <2>2. t = [data |-> d, bitPos |-> pos + 1, streamErr |-> "Ok"]
    BY <1>3, <1>6, <1>11, <2>1 DEF advance, ok
  <2>3. PICK x : x = (d[a + 1] \div 2^j) % 2
    OBVIOUS
  <2>4. PICK new : new = IF x = 0 THEN w.out ELSE w.out + x * Pow(w.produced)
    OBVIOUS
  <2>5. y = [stream |-> t, out |-> new, produced |-> w.produced + 1]
    <3>1. y = Above([w EXCEPT !.stream = advance(u, 1)],
                    (u.data[byteIndex(u) + 1] \div 2^bitIndex(u)) % 2, 1)
      BY Zenon, <1>2, <1>4, <1>6, <1>8, <1>11 DEF readBit
    <3>2. y = Above([w EXCEPT !.stream = t], x, 1)
      BY Zenon, <1>4, <1>6, <2>1, <2>3, <3>1
    <3>3. [w EXCEPT !.stream = t] = [stream |-> t, out |-> out, produced |-> z]
      BY <1>2
    <3> QED
      BY <1>2, <2>4, <3>2, <3>3 DEF Above, Pow
  <2>6. x = Bit(d[a + 1], j)
    BY <2>3 DEF Bit, Pow
  <2>7. d[a + 1] \in Nat
    <3>1. a + 1 \in 1..size
      BY <1>11
    <3> QED
      BY <1>6, <3>1, Sizes
  <2>8. x \in {0, 1}
    BY <2>6, <2>7, BitType
  <2>9. x \in 0..(Pow(1) - 1)
    <3>1. Pow(0 + 1) = 2 * Pow(0) /\ Pow(0) = 1
      BY PowIs
    <3> QED
      BY <2>8, <3>1
  <2>10. \A p \in 0..(1 - 1) : Bit(x, p) = At(d, pos + p)
    <3>1. At(d, a * ByteBits + j) = Bit(d[a + 1], j)
      BY <1>6, AtPlace
    <3>2. x = At(d, pos)
      BY <1>5, <1>6, <2>6, <3>1
    <3>3. Bit(x, 0) = x
      <4>1. x \in Nat /\ x % 2 = x
        BY <2>8
      <4>2. x % 2 = Bit(x, 0)
        BY <4>1, LowestBit
      <4> QED
        BY <4>1, <4>2
    <3>4. \A p \in 0..(1 - 1) : p = 0 /\ pos + p = pos
      BY <1>6
    <3> QED
      BY <3>2, <3>3, <3>4
  <2>11. pos + 1 <= End
    BY <1>6, <1>7, <1>11
  <2>12. t \in Streams(size)
    <3>1. d \in [1..size -> Byte] /\ pos + 1 \in Nat /\ pos + 1 <= size * ByteBits /\ "Ok" \in Errors
      BY <1>5, <1>6, <2>11 DEF Errors
    <3> QED
      BY Zenon, <2>2, <3>1, StreamMade
  <2>13. t.data = d /\ t.bitPos = pos + 1 /\ ok(t)
    BY <2>2 DEF ok
  <2>14. Moved(w.stream, t, 1, size)
    BY <1>2, <1>5, <1>6, <1>11, <2>11, <2>12, <2>13 DEF Moved
  <2>15. \A p \in 0..(1 - 1) : Bit(x, p) = At(w.stream.data, w.stream.bitPos + p)
    BY <1>2, <1>6, <2>10
  <2> QED
    BY <1>8, <2>4, <2>5, <2>9, <2>13, <2>14, <2>15, GainsOn
<1> QED
  BY <1>8, <1>9, <1>10, <1>11

LEMMA GainsByte ==
  ASSUME NEW size \in Nat, NEW s \in Streams(size), NEW m \in Nat, NEW w, Gains(s, m, w, size)
  PROVE  Gains(s, m + ByteBits, readByte(w), size)
<1>1. w \in Numbers(size) /\ ByteBits \in Nat
  BY Sizes DEF Gains
<1>2. PICK u \in Streams(size), out \in Nat, z \in Nat :
        u = w.stream /\ out = w.out /\ z = w.produced /\ w = [stream |-> u, out |-> out, produced |-> z]
  BY <1>1, NumberIs
<1>3. PICK r, t : r = readBytes(u, 1, 1) /\ t = r.stream
  OBVIOUS
<1>4. Moved(u, t, ByteBits, size) /\ (ok(t) => Taken(u.data, u.bitPos, r.out, 1))
  <2>1. PICK one \in Nat : one = 1
    OBVIOUS
  <2>2. one * ByteBits = ByteBits
    BY <2>1, Span
  <2>3. r = readBytes(u, one, one)
    BY <1>3, <2>1
  <2>4. /\ Moved(u, r.stream, one * ByteBits, size)
        /\ ok(r.stream) => Taken(u.data, u.bitPos, r.out, one)
    BY <2>3, GetBytes
  <2> QED
    BY <1>3, <2>1, <2>2, <2>4
<1>5. PICK y : y = readByte(w)
  OBVIOUS
<1>6. CASE ~ ok(t)
  <2>1. y = [stream |-> t, out |-> w.out, produced |-> w.produced]
    BY <1>2, <1>3, <1>5, <1>6 DEF readByte
  <2> QED
    BY <1>1, <1>2, <1>4, <1>5, <1>6, <2>1, GainsNone
<1>7. CASE ok(t)
  <2>1. PICK x : x = r.out[1]
    OBVIOUS
  <2>2. PICK new : new = IF x = 0 THEN w.out ELSE w.out + x * Pow(w.produced)
    OBVIOUS
  <2>3. y = [stream |-> t, out |-> new, produced |-> w.produced + ByteBits]
    <3>1. y = Above([w EXCEPT !.stream = t], x, ByteBits)
      BY <1>2, <1>3, <1>5, <1>7, <2>1 DEF readByte
    <3>2. [w EXCEPT !.stream = t] = [stream |-> t, out |-> out, produced |-> z]
      BY <1>2
    <3> QED
      BY <1>2, <2>2, <3>1, <3>2 DEF Above, Pow
  <2>4. /\ r.out \in [1..1 -> Byte]
        /\ \A p \in 0..(1 * ByteBits - 1) : At(r.out, p) = At(u.data, u.bitPos + p)
    BY Zenon, <1>4, <1>7 DEF Taken
  <2>5. x \in 0..(Pow(ByteBits) - 1)
    BY <2>1, <2>4 DEF Byte
  <2>6. ASSUME NEW p \in 0..(ByteBits - 1)
        PROVE  Bit(x, p) = At(u.data, u.bitPos + p)
    <3>1. At(r.out, 0 * ByteBits + p) = Bit(r.out[0 + 1], p)
      BY AtPlace
    <3>2. 0 * ByteBits + p = p /\ 1 * ByteBits = ByteBits /\ 0 + 1 = 1
      BY Span, Sizes
    <3> QED
      BY <2>1, <2>4, <3>1, <3>2
  <2> QED
    BY <1>1, <1>2, <1>4, <1>5, <1>7, <2>2, <2>3, <2>5, <2>6, GainsOn
<1> QED
  BY <1>5, <1>6, <1>7

(* The loops of readBits. *)
BitsRead(w, k)  == Repeat(readBit, w, k)
BytesRead(w, k) == Repeat(readByte, w, k)

(* What has been gained from s so far. *)
Gained(s, size) == {w \in Numbers(size) : \E m \in Nat : Gains(s, m, w, size)}

LEMMA ReadStays ==
  ASSUME NEW size \in Nat, NEW s \in Streams(size), NEW w \in Gained(s, size)
  PROVE  readBit(w) \in Gained(s, size) /\ readByte(w) \in Gained(s, size)
<1>1. PICK m \in Nat : Gains(s, m, w, size)
  BY DEF Gained
<1>2. Gains(s, m + 1, readBit(w), size) /\ Gains(s, m + ByteBits, readByte(w), size)
  BY <1>1, GainsBit, GainsByte
<1>3. readBit(w) \in Numbers(size) /\ readByte(w) \in Numbers(size)
  BY <1>2 DEF Gains
<1>4. m + 1 \in Nat /\ m + ByteBits \in Nat
  BY Sizes
<1> QED
  BY <1>2, <1>3, <1>4 DEF Gained

(* A loop is a chain of its steps. *)
LEMMA ReadBitsRepeat ==
  ASSUME NEW size \in Nat, NEW s \in Streams(size), NEW w \in Gained(s, size), NEW k \in Nat
  PROVE  \E f : f[0] = w /\ f[k] = BitsRead(w, k) /\ \A i \in 0..(k - 1) : f[i + 1] = readBit(f[i])
<1> DEFINE Step(f) == [i \in 0..k |-> IF i = 0 THEN w ELSE readBit(f[i - 1])]
           D == Gained(s, size)
<1>1. BitsRead(w, k) = LET after == CHOOSE f : f = Step(f) IN after[k]
  BY Zenon DEF BitsRead, Repeat
<1>2. PICK G : G = [x \in D |-> readBit(x)]
  OBVIOUS
<1>3. G \in [D -> D]
  BY <1>2, ReadStays
<1>10. w \in D
  OBVIOUS
<1> HIDE DEF D
<1>11. PICK g \in [0..k -> D] : Chain(g, G, k, w)
  BY Zenon, <1>3, <1>10, Repeats
<1>4. g[0] = w /\ \A i \in 1..k : g[i] = G[g[i - 1]]
  BY Zenon, <1>11 DEF Chain
<1>5. ASSUME NEW i \in 0..k
      PROVE  g[i] = IF i = 0 THEN w ELSE readBit(g[i - 1])
  <2>1. CASE i = 0
    BY <1>4, <2>1
  <2>2. CASE i # 0
    <3>1. i \in 1..k /\ i - 1 \in 0..k
      BY <2>2
    <3>2. g[i] = G[g[i - 1]] /\ g[i - 1] \in D
      BY <1>4, <3>1, <1>11
    <3> QED
      BY <1>2, <2>2, <3>2
  <2> QED
    BY <2>1, <2>2
<1>6. g = Step(g)
  BY <1>5
<1>7. PICK f : f = Step(f) /\ f[k] = BitsRead(w, k)
  <2>1. PICK r : r = CHOOSE f : f = Step(f)
    OBVIOUS
  <2>2. r = Step(r)
    BY Zenon, <1>6, <2>1
  <2>3. BitsRead(w, k) = r[k]
    BY Zenon, <1>1, <2>1
  <2> QED
    BY <2>2, <2>3
<1>8. f[0] = w
  <2>1. 0 \in 0..k
    OBVIOUS
  <2> QED
    BY <1>7, <2>1
<1>9. ASSUME NEW i \in 0..(k - 1)
      PROVE  f[i + 1] = readBit(f[i])
  <2>1. PICK j : j = i + 1
    OBVIOUS
  <2>2. j \in 0..k /\ j # 0 /\ j - 1 = i
    BY <2>1
  <2>3. f[j] = readBit(f[j - 1])
    BY <1>7, <2>2
  <2> QED
    BY <2>1, <2>2, <2>3
<1> QED
  BY <1>7, <1>8, <1>9

LEMMA ReadBytesRepeat ==
  ASSUME NEW size \in Nat, NEW s \in Streams(size), NEW w \in Gained(s, size), NEW k \in Nat
  PROVE  \E f : f[0] = w /\ f[k] = BytesRead(w, k) /\ \A i \in 0..(k - 1) : f[i + 1] = readByte(f[i])
<1> DEFINE Step(f) == [i \in 0..k |-> IF i = 0 THEN w ELSE readByte(f[i - 1])]
           D == Gained(s, size)
<1>1. BytesRead(w, k) = LET after == CHOOSE f : f = Step(f) IN after[k]
  BY Zenon DEF BytesRead, Repeat
<1>2. PICK G : G = [x \in D |-> readByte(x)]
  OBVIOUS
<1>3. G \in [D -> D]
  BY <1>2, ReadStays
<1>10. w \in D
  OBVIOUS
<1> HIDE DEF D
<1>11. PICK g \in [0..k -> D] : Chain(g, G, k, w)
  BY Zenon, <1>3, <1>10, Repeats
<1>4. g[0] = w /\ \A i \in 1..k : g[i] = G[g[i - 1]]
  BY Zenon, <1>11 DEF Chain
<1>5. ASSUME NEW i \in 0..k
      PROVE  g[i] = IF i = 0 THEN w ELSE readByte(g[i - 1])
  <2>1. CASE i = 0
    BY <1>4, <2>1
  <2>2. CASE i # 0
    <3>1. i \in 1..k /\ i - 1 \in 0..k
      BY <2>2
    <3>2. g[i] = G[g[i - 1]] /\ g[i - 1] \in D
      BY <1>4, <3>1, <1>11
    <3> QED
      BY <1>2, <2>2, <3>2
  <2> QED
    BY <2>1, <2>2
<1>6. g = Step(g)
  BY <1>5
<1>7. PICK f : f = Step(f) /\ f[k] = BytesRead(w, k)
  <2>1. PICK r : r = CHOOSE f : f = Step(f)
    OBVIOUS
  <2>2. r = Step(r)
    BY Zenon, <1>6, <2>1
  <2>3. BytesRead(w, k) = r[k]
    BY Zenon, <1>1, <2>1
  <2> QED
    BY <2>2, <2>3
<1>8. f[0] = w
  <2>1. 0 \in 0..k
    OBVIOUS
  <2> QED
    BY <1>7, <2>1
<1>9. ASSUME NEW i \in 0..(k - 1)
      PROVE  f[i + 1] = readByte(f[i])
  <2>1. PICK j : j = i + 1
    OBVIOUS
  <2>2. j \in 0..k /\ j # 0 /\ j - 1 = i
    BY <2>1
  <2>3. f[j] = readByte(f[j - 1])
    BY <1>7, <2>2
  <2> QED
    BY <2>1, <2>2, <2>3
<1> QED
  BY <1>7, <1>8, <1>9

(* All that the loops read. *)
LEMMA GainsBits ==
  ASSUME NEW size \in Nat, NEW s \in Streams(size), NEW m \in Nat, NEW w,
         Gains(s, m, w, size), NEW k \in Nat
  PROVE  Gains(s, m + k, BitsRead(w, k), size)
<1>1. w \in Gained(s, size)
  BY DEF Gains, Gained
<1>2. PICK f : f[0] = w /\ f[k] = BitsRead(w, k) /\ \A i \in 0..(k - 1) : f[i + 1] = readBit(f[i])
  BY <1>1, ReadBitsRepeat
<1> DEFINE P == {i \in 0..k : Gains(s, m + i, f[i], size)}
<1>3. 0 \in P
  <2>1. m + 0 = m
    OBVIOUS
  <2> QED
    BY <1>2, <2>1
<1>4. \A i \in 0..(k - 1) : i \in P => i + 1 \in P
  <2> SUFFICES ASSUME NEW i \in 0..(k - 1), i \in P PROVE i + 1 \in P
    OBVIOUS
  <2>1. m + i \in Nat /\ (m + i) + 1 = m + (i + 1) /\ i + 1 \in 0..k
    OBVIOUS
  <2>2. Gains(s, m + i, f[i], size) /\ f[i + 1] = readBit(f[i])
    BY <1>2
  <2>3. Gains(s, (m + i) + 1, readBit(f[i]), size)
    BY <2>1, <2>2, GainsBit
  <2> QED
    BY <2>1, <2>2, <2>3
<1> HIDE DEF P
<1>5. 0..k \subseteq P
  BY Zenon, <1>3, <1>4, Onward
<1>6. k \in P
  BY <1>5
<1> QED
  BY <1>2, <1>6 DEF P

LEMMA GainsBytes ==
  ASSUME NEW size \in Nat, NEW s \in Streams(size), NEW m \in Nat, NEW w,
         Gains(s, m, w, size), NEW k \in Nat
  PROVE  Gains(s, m + k * ByteBits, BytesRead(w, k), size)
<1>1. w \in Gained(s, size)
  BY DEF Gains, Gained
<1>2. PICK f : f[0] = w /\ f[k] = BytesRead(w, k) /\ \A i \in 0..(k - 1) : f[i + 1] = readByte(f[i])
  BY <1>1, ReadBytesRepeat
<1> DEFINE P == {i \in 0..k : Gains(s, m + i * ByteBits, f[i], size)}
<1>3. 0 \in P
  <2>1. m + 0 * ByteBits = m
    BY Span
  <2> QED
    BY <1>2, <2>1
<1>4. \A i \in 0..(k - 1) : i \in P => i + 1 \in P
  <2> SUFFICES ASSUME NEW i \in 0..(k - 1), i \in P PROVE i + 1 \in P
    OBVIOUS
  <2>1. i \in Nat /\ i + 1 \in 0..k
    OBVIOUS
  <2>2. PICK I \in Nat : I = i * ByteBits /\ (i + 1) * ByteBits = I + ByteBits
    BY <2>1, Span
  <2>3. Gains(s, m + I, f[i], size) /\ f[i + 1] = readByte(f[i])
    BY <1>2, <2>2
  <2>4. Gains(s, (m + I) + ByteBits, readByte(f[i]), size)
    BY <2>3, GainsByte
  <2>5. (m + I) + ByteBits = m + (I + ByteBits)
    BY Sizes
  <2> QED
    BY <2>1, <2>2, <2>3, <2>4, <2>5
<1> HIDE DEF P
<1>5. 0..k \subseteq P
  BY Zenon, <1>3, <1>4, Onward
<1>6. k \in P
  BY <1>5
<1> QED
  BY <1>2, <1>6 DEF P

(* readBits gives the number with the bits that are next, or none of it. *)
LEMMA GetBits ==
  ASSUME NEW size \in Nat, NEW s \in Streams(size), NEW n \in Nat, n <= WordBits,
         NEW r, r = readBits(s, n)
  PROVE  /\ Moved(s, r.stream, n, size)
         /\ ok(r.stream) =>
              /\ r.out \in 0..(Pow(n) - 1)
              /\ \A p \in 0..(n - 1) : Bit(r.out, p) = At(s.data, s.bitPos + p)
<1>1. PICK start, head, body, tail :
        /\ start = [stream |-> s, out |-> 0, produced |-> 0]
        /\ head = BitsRead(start, HeadBits(s, n))
        /\ body = BytesRead(head, WholeBytes(s, n))
        /\ tail = BitsRead(body, TailBits(s, n))
  OBVIOUS
<1>2. r = IF ~ ok(s) THEN Got(s, 0) ELSE IF n > WordBits THEN Got(fail(s, "BadArg"), 0)
          ELSE Got(tail.stream, tail.out)
  BY Zenon, <1>1 DEF readBits, BitsRead, BytesRead
<1>3. PICK h \in Nat, w \in Nat, x \in Nat : h = HeadBits(s, n) /\ w = WholeBytes(s, n) /\ x = TailBits(s, n)
  BY BitParts
<1>4. h + w * ByteBits + x = n
  BY <1>3, BitParts
<1>5. start \in Numbers(size) /\ start.stream = s /\ start.out = 0 /\ start.produced = 0
  BY <1>1 DEF Numbers
<1>6. Gains(s, 0, start, size)
  <2>1. 0 \in 0..(Pow(0) - 1)
    BY PowIs
  <2>2. Moved(s, s, 0, size)
    BY MovedNone
  <2>3. \A p \in 0..(0 - 1) : FALSE
    OBVIOUS
  <2> QED
    BY <1>5, <2>1, <2>2, <2>3 DEF Gains
<1>7. Gains(s, 0 + h, head, size)
  BY <1>1, <1>3, <1>6, GainsBits
<1>8. 0 + h = h
  OBVIOUS
<1>9. Gains(s, h + w * ByteBits, body, size)
  BY <1>1, <1>3, <1>7, <1>8, GainsBytes
<1>10. PICK m \in Nat : m = h + w * ByteBits
  BY Span
<1>11. Gains(s, m + x, tail, size)
  BY <1>1, <1>3, <1>9, <1>10, GainsBits
<1>12. Gains(s, n, tail, size)
  BY <1>4, <1>10, <1>11
<1>13. CASE ~ ok(s)
  <2>1. r.stream = s
    BY <1>2, <1>13 DEF Got
  <2> QED
    BY <1>13, <2>1 DEF Moved
<1>14. CASE ok(s)
  <2>1. ~ (n > WordBits)
    BY Sizes
  <2>2. r.stream = tail.stream /\ r.out = tail.out
    BY <1>2, <1>14, <2>1 DEF Got
  <2> QED
    BY <1>12, <2>2 DEF Gains
<1> QED
  BY <1>13, <1>14

(* Bits up to a byte are left unread. *)
LEMMA GetAlign ==
  ASSUME NEW size \in Nat, NEW s \in Streams(size), NEW t, t = readAlign(s)
  PROVE  Moved(s, t, ToAlign(s), size)
<1>1. PICK n \in Nat : n = ToAlign(s) /\ n <= WordBits
  <2>1. \A k \in Nat : ToAlign(s) \in Nat /\ ToAlign(s) < ByteBits
    BY BitParts
  <2>2. ToAlign(s) \in Nat /\ ToAlign(s) < ByteBits
    BY <2>1, Sizes
  <2> QED
    BY <2>2, Sizes
<1>2. PICK r : r = readBits(s, n) /\ Moved(s, r.stream, n, size)
  BY <1>1, GetBits
<1>3. t = IF ok(s) THEN r.stream ELSE s
  BY <1>1, <1>2 DEF readAlign
<1>4. CASE ~ ok(s)
  BY <1>1, <1>3, <1>4 DEF Moved
<1> QED
  BY <1>1, <1>2, <1>3, <1>4

-----------------------------------------------------------------------------
(* The rest of a number, in two parts. *)
LEMMA ModSum ==
  ASSUME NEW v \in Nat, NEW a \in Nat, NEW b \in Nat
  PROVE  v % Pow(a + b) = (v % Pow(a)) + ((v \div Pow(a)) % Pow(b)) * Pow(a)
<1>1. PICK A \in Nat \ {0}, B \in Nat \ {0} : A = Pow(a) /\ B = Pow(b) /\ Pow(a + b) = A * B
  <2>1. Pow(a) \in Nat \ {0} /\ Pow(b) \in Nat \ {0} /\ Pow(a + b) = Pow(a) * Pow(b)
    BY PowIs, PowSum
  <2> QED
    BY <2>1
<1>2. PICK q, r : q = v \div A /\ r = v % A
  OBVIOUS
<1>3. q \in Nat /\ r \in 0..(A - 1) /\ v = A * q + r
  BY <1>1, <1>2, DivTells
<1>4. PICK z, x : z = q \div B /\ x = q % B
  OBVIOUS
<1>5. z \in Nat /\ x \in 0..(B - 1) /\ q = B * z + x
  BY <1>1, <1>3, <1>4, DivTells
<1>6. PICK y : y = A * x + r
  OBVIOUS
<1>7. y \in 0..(Pow(a + b) - 1)
  BY <1>1, <1>3, <1>5, <1>6, Join
<1>8. PICK C \in Nat \ {0} : C = A * B
  <2>1. A * B \in Nat \ {0}
    BY <1>1
  <2> QED
    BY <2>1
<1>9. v = C * z + y
  <2>1. A * (B * z + x) = (A * B) * z + A * x
    BY <1>1, <1>5
  <2> QED
    BY <1>1, <1>3, <1>5, <1>6, <1>8, <2>1
<1>10. v % C = y
  <2>1. y \in 0..(C - 1)
    BY <1>1, <1>7, <1>8
  <2> QED
    BY <1>5, <1>9, <2>1, DivIs
<1>11. y = r + x * A
  BY <1>1, <1>3, <1>5, <1>6
<1> QED
  BY <1>1, <1>2, <1>4, <1>8, <1>10, <1>11

(* Rests of small numbers, and of words. *)
LEMMA ModSmall ==
  ASSUME NEW n \in Nat, NEW v \in Nat, v < Pow(n)
  PROVE  v % Pow(n) = v
<1>1. PICK d \in Nat \ {0} : d = Pow(n)
  BY PowIs
<1>2. PICK q \in Nat, r \in 0..(d - 1) : q = 0 /\ r = v
  BY <1>1
<1>3. v = d * q + r
  BY <1>2
<1>4. v % d = r
  BY <1>3, DivIs
<1> QED
  BY <1>1, <1>2, <1>4

LEMMA ModLess ==
  ASSUME NEW n \in Nat, NEW v \in Nat
  PROVE  v % Pow(n) \in Nat /\ v % Pow(n) <= v
<1>1. PICK d \in Nat \ {0} : d = Pow(n)
  BY PowIs
<1>2. PICK q, r : q = v \div d /\ r = v % d
  OBVIOUS
<1>3. q \in Nat /\ r \in 0..(d - 1) /\ v = d * q + r
  BY <1>2, DivTells
<1>4. d * q \in Nat
  BY <1>3
<1> QED
  BY <1>1, <1>2, <1>3, <1>4

LEMMA WrapSmall ==
  ASSUME NEW v \in Nat, v < Pow(WordBits)
  PROVE  Wrap(v) = v
<1>1. WordBits \in Nat
  BY Sizes
<1>2. v % Pow(WordBits) = v
  BY <1>1, ModSmall
<1> QED
  BY <1>2 DEF Wrap, Pow

(* The groups of a word are enough for it. *)
LEMMA GroupsEnough ==
  ASSUME NEW v \in Nat, v < Pow(WordBits)
  PROVE  v < Pow(GroupBits * MaxGroups)
<1>1. PICK g \in Nat \ {0} : g = GroupBits
  BY Groups
<1>2. WordBits \in Nat
  BY Sizes
<1>3. PICK q, r : q = WordBits \div g /\ r = WordBits % g
  OBVIOUS
<1>4. q \in Nat /\ r \in 0..(g - 1) /\ WordBits = g * q + r
  BY <1>2, <1>3, DivTells
<1>5. MaxGroups = q + 1
  BY <1>1, <1>3 DEF MaxGroups
<1>6. PICK Q \in Nat : Q = g * q /\ g * (q + 1) = Q + g
  <2>1. g * q \in Nat /\ g * (q + 1) = g * q + g
    BY <1>4
  <2> QED
    BY <2>1
<1>7. PICK n \in Nat : n = GroupBits * MaxGroups /\ WordBits <= n
  <2>1. g * (q + 1) \in Nat /\ WordBits <= g * (q + 1)
    BY <1>4, <1>6
  <2> QED
    BY <1>1, <1>5, <2>1
<1>8. Pow(WordBits) <= Pow(n) /\ Pow(WordBits) \in Nat /\ Pow(n) \in Nat
  BY <1>2, <1>7, PowGrows, PowIs
<1> QED
  BY <1>7, <1>8

(* A byte that has the bits of another is it. *)
LEMMA ByteTells ==
  ASSUME NEW x \in Byte, NEW y \in Byte, \A p \in 0..(ByteBits - 1) : Bit(x, p) = Bit(y, p)
  PROVE  x = y
BY Sizes, BitsTell DEF Byte

(* One byte. *)
LEMMA GetByte ==
  ASSUME NEW size \in Nat, NEW s \in Streams(size), NEW r, r = readBytes(s, 1, 1)
  PROVE  /\ Moved(s, r.stream, ByteBits, size)
         /\ ok(r.stream) =>
              /\ r.out[1] \in Byte
              /\ \A p \in 0..(ByteBits - 1) : Bit(r.out[1], p) = At(s.data, s.bitPos + p)
<1>1. PICK one \in Nat : one = 1
  OBVIOUS
<1>2. one * ByteBits = ByteBits
  BY <1>1, Span
<1>3. r = readBytes(s, one, one)
  BY <1>1
<1>4. /\ Moved(s, r.stream, one * ByteBits, size)
      /\ ok(r.stream) => Taken(s.data, s.bitPos, r.out, one)
  BY <1>3, GetBytes
<1>5. ASSUME ok(r.stream)
      PROVE  /\ r.out[1] \in Byte
             /\ \A p \in 0..(ByteBits - 1) : Bit(r.out[1], p) = At(s.data, s.bitPos + p)
  <2>1. /\ r.out \in [1..1 -> Byte]
        /\ \A p \in 0..(1 * ByteBits - 1) : At(r.out, p) = At(s.data, s.bitPos + p)
    BY Zenon, <1>1, <1>4, <1>5 DEF Taken
  <2>2. ASSUME NEW p \in 0..(ByteBits - 1)
        PROVE  Bit(r.out[1], p) = At(s.data, s.bitPos + p)
    <3>1. At(r.out, 0 * ByteBits + p) = Bit(r.out[0 + 1], p)
      BY AtPlace
    <3>2. 0 * ByteBits + p = p /\ 1 * ByteBits = ByteBits /\ 0 + 1 = 1
      BY Span, Sizes
    <3> QED
      BY <2>1, <3>1, <3>2
  <2> QED
    BY <2>1, <2>2
<1> QED
  BY <1>2, <1>4, <1>5

(* What is known of a varint that is being read, and one group more. *)
Varints(size) == [stream : Streams(size), out : Nat, groups : Nat, more : BOOLEAN]
GroupRead(w) ==
  LET read == readBytes(w.stream, 1, 1)
      byte == read.out[1]
      bits == (byte % 2^GroupBits) * 2^(GroupBits * w.groups)
  IN  IF ~ w.more THEN w
      ELSE IF ~ ok(read.stream) THEN [w EXCEPT !.stream = read.stream, !.more = FALSE]
      ELSE [stream |-> read.stream, out |-> Wrap(w.out + bits), groups |-> w.groups + 1,
            more |-> byte >= 2^GroupBits]
GroupsRead(w, k) == Repeat(GroupRead, w, k)

LEMMA VarintStateIs ==
  ASSUME NEW size \in Nat, NEW w \in Varints(size)
  PROVE  /\ w = [stream |-> w.stream, out |-> w.out, groups |-> w.groups, more |-> w.more]
         /\ w.stream \in Streams(size) /\ w.out \in Nat /\ w.groups \in Nat /\ w.more \in BOOLEAN
BY DEF Varints

(* One step, by its three cases. *)
LEMMA GroupReadIs ==
  ASSUME NEW size \in Nat, NEW w \in Varints(size), NEW read, read = readBytes(w.stream, 1, 1),
         NEW y, y = GroupRead(w)
  PROVE  /\ ~ w.more => y = w
         /\ w.more /\ ~ ok(read.stream) =>
              y = [stream |-> read.stream, out |-> w.out, groups |-> w.groups, more |-> FALSE]
         /\ w.more /\ ok(read.stream) =>
              y = [stream |-> read.stream,
                   out |-> Wrap(w.out + (read.out[1] % Pow(GroupBits)) * Pow(GroupBits * w.groups)),
                   groups |-> w.groups + 1, more |-> read.out[1] >= Pow(GroupBits)]
         /\ y \in Varints(size)
<1>1. PICK b, bits : b = read.out[1] /\ bits = (b % Pow(GroupBits)) * Pow(GroupBits * w.groups)
  OBVIOUS
<1>2. y = IF ~ w.more THEN w
          ELSE IF ~ ok(read.stream) THEN [w EXCEPT !.stream = read.stream, !.more = FALSE]
          ELSE [stream |-> read.stream, out |-> Wrap(w.out + bits), groups |-> w.groups + 1,
                more |-> b >= Pow(GroupBits)]
  BY Zenon, <1>1 DEF GroupRead, Pow
<1>3. /\ w = [stream |-> w.stream, out |-> w.out, groups |-> w.groups, more |-> w.more]
      /\ w.stream \in Streams(size) /\ w.out \in Nat /\ w.groups \in Nat /\ w.more \in BOOLEAN
  BY VarintStateIs
<1>4. read.stream \in Streams(size) /\ (ok(read.stream) => b \in Byte)
  BY <1>1, <1>3, GetByte DEF Moved
<1>5. CASE ~ w.more
  BY <1>2, <1>5
<1>6. CASE w.more /\ ~ ok(read.stream)
  <2>1. y = [stream |-> read.stream, out |-> w.out, groups |-> w.groups, more |-> FALSE]
    BY <1>2, <1>3, <1>6
  <2>2. y \in Varints(size)
    BY <1>3, <1>4, <2>1 DEF Varints
  <2> QED
    BY <1>6, <2>1, <2>2
<1>7. CASE w.more /\ ok(read.stream)
  <2>1. PICK new : new = Wrap(w.out + bits)
    OBVIOUS
  <2>2. PICK n \in Nat : n = GroupBits * w.groups
    BY <1>3, Groups
  <2>3. PICK P \in Nat, Q \in Nat \ {0} : P = Pow(n) /\ Q = Pow(GroupBits)
    BY Groups, PowIs
  <2>4. b \in Nat
    BY <1>4, <1>7, Sizes
  <2>5. bits \in Nat
    <3>1. b % Q \in Nat
      BY <2>3, <2>4
    <3>2. bits = (b % Q) * P
      BY <1>1, <2>2, <2>3
    <3> QED
      BY <3>1, <3>2
  <2>6. w.out + bits \in Nat
    BY <1>3, <2>5
  <2>7. new \in Nat
    BY <2>1, <2>6, WrapBits
  <2>8. y = [stream |-> read.stream, out |-> new, groups |-> w.groups + 1, more |-> b >= Pow(GroupBits)]
    BY <1>2, <1>7, <2>1
  <2>9. y \in Varints(size)
    <3>1. w.groups + 1 \in Nat /\ (b >= Pow(GroupBits)) \in BOOLEAN
      BY <1>3
    <3> QED
      BY <1>4, <2>7, <2>8, <3>1 DEF Varints
  <2> QED
    BY <1>1, <1>7, <2>1, <2>8, <2>9
<1> QED
  BY <1>3, <1>5, <1>6, <1>7

(* The first i groups of v, which has n of them, were read from s, or all  *)
(* of them, or there are not so many.                                      *)
Decoding(s, w, i, v, n, size) ==
  /\ w \in Varints(size)
  /\ w.more => /\ i < n /\ w.groups = i
               /\ Moved(s, w.stream, i * ByteBits, size)
               /\ w.out = v % Pow(GroupBits * i)
  /\ ~ w.more => /\ Moved(s, w.stream, n * ByteBits, size)
                 /\ ok(w.stream) => w.out = v /\ w.groups = n

(* One group more. *)
LEMMA DecodingOn ==
  ASSUME NEW size \in Nat, NEW s \in Streams(size), NEW i \in Nat, NEW w,
         NEW v \in Nat, v < Pow(WordBits),
         NEW n \in 1..MaxGroups, v < Pow(GroupBits * n),
         NEW bytes, \A j \in 1..n : bytes[j] = GroupOf(v, j, n),
         ok(s) => \A p \in 0..(n * ByteBits - 1) :
           s.bitPos + p < size * ByteBits => At(s.data, s.bitPos + p) = At(bytes, p),
         Decoding(s, w, i, v, n, size)
  PROVE  Decoding(s, GroupRead(w), i + 1, v, n, size)
<1>1. PICK y : y = GroupRead(w)
  OBVIOUS
<1>2. /\ w \in Varints(size) /\ w.stream \in Streams(size)
      /\ w.out \in Nat /\ w.groups \in Nat /\ w.more \in BOOLEAN
  BY VarintStateIs DEF Decoding
<1>3. PICK read, u, t : read = readBytes(w.stream, 1, 1) /\ u = w.stream /\ t = read.stream
  OBVIOUS
<1>4. /\ ~ w.more => y = w
      /\ w.more /\ ~ ok(t) => y = [stream |-> t, out |-> w.out, groups |-> w.groups, more |-> FALSE]
      /\ w.more /\ ok(t) =>
           y = [stream |-> t,
                out |-> Wrap(w.out + (read.out[1] % Pow(GroupBits)) * Pow(GroupBits * w.groups)),
                groups |-> w.groups + 1, more |-> read.out[1] >= Pow(GroupBits)]
      /\ y \in Varints(size)
  BY <1>1, <1>2, <1>3, GroupReadIs
<1>5. n \in Nat
  BY Groups
<1>6. CASE ~ w.more
  <2>1. y = w
    BY <1>4, <1>6
  <2> QED
    BY <1>1, <1>6, <2>1 DEF Decoding
<1>7. ASSUME w.more
      PROVE  /\ i < n /\ w.groups = i /\ Moved(s, u, i * ByteBits, size)
             /\ w.out = v % Pow(GroupBits * i)
  BY <1>3, <1>7 DEF Decoding
<1>8. Moved(u, t, ByteBits, size)
  BY <1>2, <1>3, GetByte
<1>9. PICK I \in Nat, N \in Nat, S \in Nat, End \in Nat :
        /\ I = i * ByteBits /\ N = n * ByteBits /\ S = s.bitPos /\ End = size * ByteBits
        /\ (i + 1) * ByteBits = I + ByteBits
  BY <1>5, StreamIs, Span
<1>10. ASSUME w.more
       PROVE  Moved(s, t, I + ByteBits, size) /\ I + ByteBits <= N
  <2>1. Moved(s, t, I + ByteBits, size)
    BY <1>7, <1>8, <1>9, <1>10, Sizes, MovedOn
  <2>2. PICK c \in Nat : n = (i + 1) + c
    <3>1. n - (i + 1) \in Nat /\ n = (i + 1) + (n - (i + 1))
      BY <1>5, <1>7, <1>10
    <3> QED
      BY <3>1
  <2>3. PICK C \in Nat : C = c * ByteBits
    BY Span
  <2>4. n * ByteBits = (i + 1) * ByteBits + C
    <3>1. i + 1 \in Nat
      OBVIOUS
    <3> QED
      BY <2>2, <2>3, <3>1, SpanSum
  <2> QED
    BY <1>9, <2>1, <2>3, <2>4, Sizes
<1>11. CASE w.more /\ ~ ok(t)
  <2>1. y.stream = t /\ y.more = FALSE
    BY <1>4, <1>11
  <2>2. Moved(s, t, N, size)
    <3>1. Moved(s, t, I + ByteBits, size) /\ I + ByteBits <= N
      BY <1>10, <1>11
    <3>2. S + (I + ByteBits) <= End \/ ~ (S + N <= End)
      BY <1>9, <3>1, <1>11, Sizes
    <3>3. ok(s) => t.streamErr = "Eof" /\ ~ (S + (I + ByteBits) <= End)
      BY <1>9, <1>11, <3>1 DEF Moved
    <3> QED
      BY <1>9, <3>1, <3>2, <3>3 DEF Moved
  <2> QED
    BY <1>1, <1>4, <1>9, <1>11, <2>1, <2>2 DEF Decoding
<1>12. CASE w.more /\ ok(t)
  <2>1. i < n /\ w.groups = i /\ Moved(s, u, I, size) /\ w.out = v % Pow(GroupBits * i)
    BY <1>7, <1>9, <1>12
  <2>2. ok(u) /\ ok(s)
    BY <1>8, <1>12, <2>1 DEF Moved
  <2>3. u.data = s.data /\ u.bitPos = S + I /\ S + (I + ByteBits) <= End
    <3>1. Moved(s, t, I + ByteBits, size)
      BY <1>10, <1>12
    <3>2. S + (I + ByteBits) <= End
      BY <1>9, <1>12, <2>2, <3>1 DEF Moved, ok
    <3>3. S + I <= End
      BY <1>9, <3>2, Sizes
    <3> QED
      BY <1>9, <2>1, <2>2, <3>2, <3>3 DEF Moved
  <2>4. PICK b \in Byte : b = read.out[1] /\ \A p \in 0..(ByteBits - 1) : Bit(b, p) = At(u.data, u.bitPos + p)
    BY <1>2, <1>3, <1>12, GetByte
  <2>5. PICK c \in Byte : /\ c = bytes[i + 1]
                          /\ i + 1 < n <=> c >= Pow(GroupBits)
                          /\ c % Pow(GroupBits) = (v \div Pow(GroupBits * i)) % Pow(GroupBits)
    <3>1. PICK j \in Nat \ {0} : j = i + 1 /\ j \in 1..n /\ j - 1 = i
      BY <1>5, <2>1
    <3>2. PICK c : c = bytes[j] /\ c = GroupOf(v, j, n)
      BY <3>1
    <3>3. /\ c \in Byte
          /\ j < n <=> c >= Pow(GroupBits)
          /\ c % Pow(GroupBits) = (v \div Pow(GroupBits * (j - 1))) % Pow(GroupBits)
      BY <1>5, <3>2, GroupIs
    <3> QED
      BY <3>1, <3>2, <3>3
  <2>6. b = c
    <3>1. ASSUME NEW p \in 0..(ByteBits - 1)
          PROVE  Bit(b, p) = Bit(c, p)
      <4>1. At(bytes, i * ByteBits + p) = Bit(bytes[i + 1], p)
        BY AtPlace
      <4>2. p \in Nat /\ p < ByteBits
        BY Sizes
      <4>3. I + p \in 0..(N - 1) /\ S + (I + p) < End /\ (S + I) + p = S + (I + p)
        BY <1>9, <1>10, <1>12, <2>3, <4>2, Sizes
      <4>4. At(s.data, S + (I + p)) = At(bytes, I + p)
        BY <1>9, <2>2, <4>3
      <4>5. Bit(b, p) = At(s.data, (S + I) + p)
        BY <2>3, <2>4
      <4> QED
        BY <1>9, <2>5, <4>1, <4>3, <4>4, <4>5
    <3> QED
      BY <3>1, ByteTells
  <2>7. PICK m \in Nat : m = GroupBits * i /\ GroupBits * (i + 1) = m + GroupBits
    <3>1. GroupBits * i \in Nat /\ GroupBits * (i + 1) = GroupBits * i + GroupBits
      BY Groups
    <3> QED
      BY <3>1
  <2>8. y.out = v % Pow(m + GroupBits)
    <3>1. w.out + (b % Pow(GroupBits)) * Pow(GroupBits * w.groups) = v % Pow(m + GroupBits)
      <4>1. v % Pow(m + GroupBits) = (v % Pow(m)) + ((v \div Pow(m)) % Pow(GroupBits)) * Pow(m)
        <5>1. GroupBits \in Nat
          BY Groups
        <5> QED
          BY <5>1, ModSum
      <4> QED
        BY <2>1, <2>5, <2>6, <2>7, <4>1
    <3>2. PICK x \in Nat : x = v % Pow(m + GroupBits) /\ x <= v
      <4>1. m + GroupBits \in Nat
        BY Groups
      <4>2. v % Pow(m + GroupBits) \in Nat /\ v % Pow(m + GroupBits) <= v
        BY <4>1, ModLess
      <4> QED
        BY <4>2
    <3>3. x < Pow(WordBits)
      <4>1. Pow(WordBits) \in Nat
        BY Sizes, PowIs
      <4> QED
        BY <3>2, <4>1
    <3>4. Wrap(x) = x
      BY <3>3, WrapSmall
    <3>5. y.out = Wrap(w.out + (b % Pow(GroupBits)) * Pow(GroupBits * w.groups))
      BY <1>4, <1>12, <2>4
    <3> QED
      BY <3>1, <3>2, <3>4, <3>5
  <2>9. y.stream = t /\ y.groups = i + 1 /\ y.more = (c >= Pow(GroupBits))
    BY <1>4, <1>12, <2>1, <2>4, <2>6
  <2>10. Moved(s, t, I + ByteBits, size)
    BY <1>10, <1>12
  <2>11. CASE i + 1 < n
    <3>1. y.more
      BY <2>5, <2>9, <2>11
    <3> QED
      BY <1>1, <1>4, <1>9, <2>7, <2>8, <2>9, <2>10, <2>11, <3>1 DEF Decoding
  <2>12. CASE ~ (i + 1 < n)
    <3>5. n = i + 1
      BY <1>5, <2>1, <2>12
    <3>6. ~ (c >= Pow(GroupBits))
      BY Zenon, <2>5, <2>12
    <3>1. ~ y.more /\ n = i + 1
      BY <2>9, <3>5, <3>6
    <3>2. PICK k \in Nat : k = GroupBits * n
      BY <1>5, Groups
    <3>3. v % Pow(k) = v
      BY <3>2, ModSmall
    <3>4. y.out = v
      BY <2>7, <2>8, <3>1, <3>2, <3>3
    <3> QED
      BY <1>1, <1>4, <1>9, <2>9, <2>10, <3>1, <3>4 DEF Decoding
  <2> QED
    BY <2>11, <2>12
<1> QED
  BY <1>2, <1>6, <1>11, <1>12

(* A loop over groups is a chain of them. *)
LEMMA GroupsRepeat ==
  ASSUME NEW size \in Nat, NEW w \in Varints(size), NEW k \in Nat
  PROVE  \E f : f[0] = w /\ f[k] = GroupsRead(w, k) /\ \A i \in 0..(k - 1) : f[i + 1] = GroupRead(f[i])
<1> DEFINE Step(f) == [i \in 0..k |-> IF i = 0 THEN w ELSE GroupRead(f[i - 1])]
           D == Varints(size)
<1>1. GroupsRead(w, k) = LET after == CHOOSE f : f = Step(f) IN after[k]
  BY Zenon DEF GroupsRead, Repeat
<1>2. PICK G : G = [x \in D |-> GroupRead(x)]
  OBVIOUS
<1>12. \A x \in D : GroupRead(x) \in D
  <2> SUFFICES ASSUME NEW x \in Varints(size) PROVE GroupRead(x) \in Varints(size)
    OBVIOUS
  <2>1. PICK read, y : read = readBytes(x.stream, 1, 1) /\ y = GroupRead(x)
    OBVIOUS
  <2> QED
    BY <2>1, GroupReadIs
<1>3. G \in [D -> D]
  BY <1>2, <1>12
<1>10. w \in D
  OBVIOUS
<1> HIDE DEF D
<1>11. PICK g \in [0..k -> D] : Chain(g, G, k, w)
  BY Zenon, <1>3, <1>10, Repeats
<1>4. g[0] = w /\ \A i \in 1..k : g[i] = G[g[i - 1]]
  BY Zenon, <1>11 DEF Chain
<1>5. ASSUME NEW i \in 0..k
      PROVE  g[i] = IF i = 0 THEN w ELSE GroupRead(g[i - 1])
  <2>1. CASE i = 0
    BY <1>4, <2>1
  <2>2. CASE i # 0
    <3>1. i \in 1..k /\ i - 1 \in 0..k
      BY <2>2
    <3>2. g[i] = G[g[i - 1]] /\ g[i - 1] \in D
      BY <1>4, <3>1, <1>11
    <3> QED
      BY <1>2, <2>2, <3>2
  <2> QED
    BY <2>1, <2>2
<1>6. g = Step(g)
  BY <1>5
<1>7. PICK f : f = Step(f) /\ f[k] = GroupsRead(w, k)
  <2>1. PICK r : r = CHOOSE f : f = Step(f)
    OBVIOUS
  <2>2. r = Step(r)
    BY Zenon, <1>6, <2>1
  <2>3. GroupsRead(w, k) = r[k]
    BY Zenon, <1>1, <2>1
  <2> QED
    BY <2>2, <2>3
<1>8. f[0] = w
  <2>1. 0 \in 0..k
    OBVIOUS
  <2> QED
    BY <1>7, <2>1
<1>9. ASSUME NEW i \in 0..(k - 1)
      PROVE  f[i + 1] = GroupRead(f[i])
  <2>1. PICK j : j = i + 1
    OBVIOUS
  <2>2. j \in 0..k /\ j # 0 /\ j - 1 = i
    BY <2>1
  <2>3. f[j] = GroupRead(f[j - 1])
    BY <1>7, <2>2
  <2> QED
    BY <2>1, <2>2, <2>3
<1> QED
  BY <1>7, <1>8, <1>9

(* A varint comes back as it was, wherever in a byte it begins: its length *)
(* is no other one for the reader than for the writer, and if a byte of it *)
(* is missing the reader says so (Varint.h, decodeVarint).                 *)
THEOREM GetVarint ==
  ASSUME NEW size \in Nat, NEW s \in Streams(size), NEW v \in Nat, v < Pow(WordBits),
         NEW n, n = Len(varintBytes(v)),
         ok(s) => \A p \in 0..(n * ByteBits - 1) :
           s.bitPos + p < size * ByteBits => At(s.data, s.bitPos + p) = At(varintBytes(v), p),
         NEW r, r = decodeVarint(s)
  PROVE  /\ n \in Nat
         /\ Moved(s, r.stream, n * ByteBits, size)
         /\ ok(r.stream) => r.out = v
<1>1. PICK m \in 1..MaxGroups : /\ m = MaxGroups \/ v < Pow(GroupBits * m)
                                /\ Len(varintBytes(v)) = m
                                /\ \A i \in 1..m : varintBytes(v)[i] = GroupOf(v, i, m)
  BY VarintBytes
<1>2. n = m /\ n \in 1..MaxGroups /\ n \in Nat \ {0}
  BY <1>1, Groups
<1>3. v < Pow(GroupBits * n)
  BY <1>1, <1>2, GroupsEnough
<1>4. PICK bytes : bytes = varintBytes(v)
  OBVIOUS
<1>5. /\ \A i \in 1..n : bytes[i] = GroupOf(v, i, n)
      /\ ok(s) => \A p \in 0..(n * ByteBits - 1) :
           s.bitPos + p < size * ByteBits => At(s.data, s.bitPos + p) = At(bytes, p)
  BY <1>1, <1>2, <1>4
<1>6. PICK w : w = [stream |-> s, out |-> 0, groups |-> 0, more |-> TRUE]
  OBVIOUS
<1>7. w \in Varints(size)
  BY <1>6 DEF Varints
<1>8. Decoding(s, w, 0, v, n, size)
  <2>1. w.more /\ w.groups = 0 /\ w.stream = s /\ w.out = 0
    BY <1>6
  <2>2. Moved(s, s, 0, size) /\ 0 * ByteBits = 0
    BY MovedNone, Span
  <2>3. GroupBits * 0 = 0 /\ v % Pow(0) = 0
    <3>1. GroupBits * 0 = 0
      BY Groups
    <3>2. PICK z \in Nat : z = 0
      OBVIOUS
    <3>3. v % Pow(z) \in 0..(Pow(z) - 1) /\ Pow(z) = 1
      BY <3>2, BitsOfMod, PowIs
    <3> QED
      BY <3>1, <3>2, <3>3
  <2>4. 0 < n
    BY <1>2
  <2> QED
    BY <1>7, <2>1, <2>2, <2>3, <2>4 DEF Decoding
<1>9. PICK k \in Nat : k = MaxGroups + 1 /\ n < k
  <2>1. MaxGroups + 1 \in Nat /\ n < MaxGroups + 1
    BY <1>2, Groups
  <2> QED
    BY <2>1
<1>10. PICK f : f[0] = w /\ f[k] = GroupsRead(w, k) /\ \A i \in 0..(k - 1) : f[i + 1] = GroupRead(f[i])
  BY <1>7, GroupsRepeat
<1> DEFINE P == {i \in 0..k : Decoding(s, f[i], i, v, n, size)}
<1>11. 0 \in P
  BY <1>8, <1>10
<1>12. \A i \in 0..(k - 1) : i \in P => i + 1 \in P
  <2> SUFFICES ASSUME NEW i \in 0..(k - 1), i \in P PROVE i + 1 \in P
    OBVIOUS
  <2>1. i \in Nat /\ i + 1 \in 0..k
    OBVIOUS
  <2>2. Decoding(s, f[i], i, v, n, size) /\ f[i + 1] = GroupRead(f[i])
    BY <1>10
  <2>3. Decoding(s, GroupRead(f[i]), i + 1, v, n, size)
    BY <1>2, <1>3, <1>5, <2>1, <2>2, DecodingOn
  <2> QED
    BY <2>1, <2>2, <2>3
<1> HIDE DEF P
<1>13. 0..k \subseteq P
  BY <1>11, <1>12, Onward
<1>14. PICK x : x = f[k]
  OBVIOUS
<1>15. Decoding(s, x, k, v, n, size)
  <2>1. k \in P
    BY <1>13
  <2> QED
    BY <1>14, <2>1 DEF P
<1>16. ~ x.more
  BY <1>2, <1>9, <1>15 DEF Decoding
<1>17. Moved(s, x.stream, n * ByteBits, size) /\ (ok(x.stream) => x.out = v /\ x.groups = n)
  BY <1>15, <1>16 DEF Decoding
<1>18. varintGroups(s) = x
  <2>1. varintGroups(s) = GroupsRead(w, MaxGroups + 1)
    BY Zenon, <1>6 DEF varintGroups, GroupsRead, GroupRead
  <2> QED
    BY <1>9, <1>10, <1>14, <2>1
<1>19. r = Got(IF ok(x.stream) /\ TooLong(x.groups) THEN fail(x.stream, "BadData") ELSE x.stream, x.out)
  BY Zenon, <1>18 DEF decodeVarint
<1>20. ok(x.stream) => ~ TooLong(x.groups)
  BY <1>2, <1>17, Groups DEF TooLong
<1>21. r.stream = x.stream /\ r.out = x.out
  BY <1>19, <1>20 DEF Got
<1> QED
  BY <1>2, <1>17, <1>21

(* The first bytes of prefix integers are in the order of their ones. *)
LEMMA OnesGrow ==
  ASSUME NEW a \in 0..ByteBits, NEW b \in 0..ByteBits, a <= b
  PROVE  Ones(a) \in Nat /\ Ones(b) \in Nat /\ Ones(a) <= Ones(b)
<1>1. PICK x \in Nat, y \in Nat : x = ByteBits - a /\ y = ByteBits - b /\ y <= x
  <2>1. ByteBits - a \in Nat /\ ByteBits - b \in Nat /\ ByteBits - b <= ByteBits - a
    BY Sizes
  <2> QED
    BY <2>1
<1>2. PICK X \in Nat, Y \in Nat, W \in Nat : X = Pow(x) /\ Y = Pow(y) /\ W = Pow(ByteBits)
  BY <1>1, PowIs, Sizes
<1>3. Y <= X
  BY <1>1, <1>2, PowGrows
<1>4. Ones(a) = W - X /\ Ones(b) = W - Y
  BY <1>1, <1>2 DEF Ones, Pow
<1>5. Ones(a) \in Nat /\ Ones(b) \in Nat
  BY HeaderIs
<1> QED
  BY <1>3, <1>4, <1>5

(* What is below the ones of the first byte is the rest of the number. *)
LEMMA HeaderRest ==
  ASSUME NEW e \in 0..ByteBits, NEW x \in 0..(Pow(HeaderBits(e)) - 1)
  PROVE  (Ones(e) + x) % Pow(HeaderBits(e)) = x
<1>1. PICK k \in Nat, B \in Nat, d \in Nat :
        k = HeaderBits(e) /\ B = ByteBits /\ d = B - e /\ k <= d /\ d <= B
  <2>1. ByteBits \in Nat /\ e \in Nat /\ ByteBits - e \in Nat /\ ByteBits - e <= ByteBits
    BY Sizes
  <2>2. HeaderBits(e) \in Nat
    BY HeaderIs
  <2>3. HeaderBits(e) <= ByteBits - e
    BY <2>1, Groups DEF HeaderBits
  <2> QED
    BY <2>1, <2>2, <2>3
<1>2. PICK i \in Nat, j \in Nat : d = k + i /\ B = k + j /\ i <= j
  <2>1. d - k \in Nat /\ B - k \in Nat /\ d = k + (d - k) /\ B = k + (B - k) /\ d - k <= B - k
    BY <1>1
  <2> QED
    BY <2>1
<1>3. PICK K \in Nat \ {0}, I \in Nat, J \in Nat :
        /\ K = Pow(k) /\ I = Pow(i) /\ J = Pow(j) /\ I <= J
        /\ Pow(d) = K * I /\ Pow(B) = K * J
  <2>1. Pow(k) \in Nat \ {0} /\ Pow(i) \in Nat /\ Pow(j) \in Nat /\ Pow(i) <= Pow(j)
    BY <1>2, PowIs, PowGrows
  <2>2. Pow(d) = Pow(k) * Pow(i) /\ Pow(B) = Pow(k) * Pow(j)
    BY <1>2, PowSum
  <2> QED
    BY <2>1, <2>2
<1>4. PICK q \in Nat : J = I + q
  <2>1. J - I \in Nat /\ J = I + (J - I)
    BY <1>3
  <2> QED
    BY <2>1
<1>5. Ones(e) = K * q
  <2>1. K * J = K * I + K * q /\ K * I \in Nat /\ K * q \in Nat
    BY <1>3, <1>4
  <2>2. Ones(e) = Pow(B) - Pow(d)
    BY <1>1 DEF Ones, Pow
  <2> QED
    BY <1>3, <2>1, <2>2
<1>6. PICK y : y = Ones(e) + x
  OBVIOUS
<1>7. x \in 0..(K - 1) /\ y = K * q + x
  BY <1>1, <1>3, <1>5, <1>6
<1>8. y % K = x
  BY <1>3, <1>7, DivIs
<1> QED
  BY <1>1, <1>3, <1>6, <1>8

(* The first byte tells how many follow it. *)
LEMMA HeaderTells ==
  ASSUME NEW e \in 0..ByteBits, NEW x \in 0..(Pow(HeaderBits(e)) - 1),
         NEW d, d = decodePrefixIntHeader(Ones(e) + x)
  PROVE  d.extra = e /\ d.shift = HeaderBits(e) /\ d.base = x
<1> DEFINE h == Ones(e) + x
           Fits(f) == h >= Ones(f) /\ (f = ByteBits \/ h < Ones(f + 1))
           extra == CHOOSE f \in 0..ByteBits : Fits(f)
<1>1. /\ HeaderBits(e) \in Nat /\ Ones(e) \in Nat
      /\ h \in Byte /\ (e = ByteBits \/ h < Ones(e + 1))
  BY HeaderIs
<1>2. h \in Nat /\ x \in Nat
  BY <1>1, Sizes
<1>3. Fits(e)
  BY <1>1, <1>2
<1>4. \A f \in 0..ByteBits : Fits(f) => f = e
  <2> SUFFICES ASSUME NEW f \in 0..ByteBits, Fits(f) PROVE f = e
    OBVIOUS
  <2>1. Ones(f) \in Nat /\ f \in Nat /\ e \in Nat
    BY Sizes, HeaderIs
  <2>2. ~ (f < e)
    <3> SUFFICES ASSUME f < e PROVE FALSE
      OBVIOUS
    <3>1. f + 1 \in 0..ByteBits /\ f + 1 <= e /\ f # ByteBits
      BY <2>1, Sizes
    <3>2. Ones(f + 1) <= Ones(e) /\ Ones(f + 1) \in Nat
      BY <3>1, OnesGrow
    <3>3. h < Ones(f + 1) /\ h >= Ones(e)
      BY <1>3, <3>1
    <3> QED
      BY <1>1, <1>2, <3>2, <3>3
  <2>3. ~ (e < f)
    <3> SUFFICES ASSUME e < f PROVE FALSE
      OBVIOUS
    <3>1. e + 1 \in 0..ByteBits /\ e + 1 <= f /\ e # ByteBits
      BY <2>1, Sizes
    <3>2. Ones(e + 1) <= Ones(f) /\ Ones(e + 1) \in Nat
      BY <3>1, OnesGrow
    <3>3. h < Ones(e + 1) /\ h >= Ones(f)
      BY <1>3, <3>1
    <3> QED
      BY <1>1, <1>2, <2>1, <3>2, <3>3
  <2> QED
    BY <2>1, <2>2, <2>3
<1>5. d = LET a == extra
              b == ByteBits - Least(a + 1, ByteBits)
          IN  [extra |-> a, shift |-> b, base |-> h % Pow(b)]
  BY Zenon DEF decodePrefixIntHeader, Pow
<1> HIDE DEF Fits
<1>6. extra = e
  BY <1>3, <1>4
<1> HIDE DEF extra
<1>7. ByteBits - Least(e + 1, ByteBits) = HeaderBits(e)
  <2>1. e \in Nat /\ e <= ByteBits /\ ByteBits \in Nat
    BY Sizes
  <2> QED
    BY <2>1, Groups DEF Least, HeaderBits
<1>8. h % Pow(HeaderBits(e)) = x
  BY HeaderRest
<1> HIDE DEF h
<1> QED
  BY <1>5, <1>6, <1>7, <1>8

(* So does a prefix integer (decodePrefixInt), in a word that has no more  *)
(* bytes than a byte has bits.                                             *)
THEOREM GetPrefix ==
  ASSUME NEW size \in Nat, NEW s \in Streams(size), NEW v \in Nat, v < Pow(WordBits),
         WordBits <= ByteBits * ByteBits,
         NEW e \in 0..ByteBits, NEW h \in Byte,
         Holds(e, v), h = Ones(e) + (v % Pow(HeaderBits(e))),
         \A p \in 0..((e + 1) * ByteBits - 1) :
           s.bitPos + p < size * ByteBits => At(s.data, s.bitPos + p) = At(PrefixOut(h, e, v), p),
         NEW r, r = decodePrefixInt(s)
  PROVE  /\ Moved(s, r.stream, (e + 1) * ByteBits, size)
         /\ ok(r.stream) => r.out = v
<1> DEFINE prefix == readBytes(s, 1, 1)
           head   == decodePrefixIntHeader(prefix.out[1])
           rest   == readBytes(prefix.stream, head.extra, head.extra)
<1>1. r = IF ~ ok(prefix.stream) THEN Got(prefix.stream, 0)
          ELSE IF ~ ok(rest.stream) THEN Got(rest.stream, 0)
          ELSE Got(rest.stream, Wrap((Pack(rest.out) * Pow(head.shift)) + head.base))
  BY Zenon DEF decodePrefixInt, Pow
<1>2. PICK u, b : u = prefix.stream /\ b = prefix.out[1]
  OBVIOUS
<1>3. /\ Moved(s, u, ByteBits, size)
      /\ ok(u) => b \in Byte /\ \A p \in 0..(ByteBits - 1) : Bit(b, p) = At(s.data, s.bitPos + p)
  BY <1>2, GetByte
<1>4. PICK d : d = head
  OBVIOUS
<1>5. d = decodePrefixIntHeader(b)
  BY <1>2, <1>4
<1>6. PICK t, bytes : t = rest.stream /\ bytes = rest.out
  OBVIOUS
<1>7. t = readBytes(u, d.extra, d.extra).stream /\ bytes = readBytes(u, d.extra, d.extra).out
  BY <1>2, <1>4, <1>6
<1>8. r = IF ~ ok(u) THEN Got(u, 0)
          ELSE IF ~ ok(t) THEN Got(t, 0)
          ELSE Got(t, Wrap((Pack(bytes) * Pow(d.shift)) + d.base))
  BY Zenon, <1>1, <1>2, <1>4, <1>6
<1> HIDE DEF prefix, head, rest
<1>9. e \in Nat /\ e + 1 \in Nat
  BY Sizes
<1>10. PICK S \in Nat, E \in Nat, End \in Nat :
         /\ S = s.bitPos /\ E = e * ByteBits /\ End = size * ByteBits
         /\ (e + 1) * ByteBits = E + ByteBits
  BY <1>9, StreamIs, Span
<1>11. PICK k \in Nat : k = HeaderBits(e)
  BY HeaderIs
<1>12. PICK x \in Nat, y \in 0..(Pow(k) - 1) : x = v \div Pow(k) /\ y = v % Pow(k)
  <2>1. v \div Pow(k) \in Nat /\ v % Pow(k) \in 0..(Pow(k) - 1)
    BY BitsOfDiv, BitsOfMod
  <2> QED
    BY <2>1
<1>13. h = Ones(e) + y
  BY <1>11, <1>12
<1>14. PICK out : out = PrefixOut(h, e, v)
  OBVIOUS
<1>15. /\ out[1] = h
       /\ \A i \in 1..e : out[i + 1] = ByteOf(x, i - 1)
  <2>1. /\ PrefixOut(h, e, v)[1] = h
        /\ \A i \in 1..e : PrefixOut(h, e, v)[i + 1] = ByteOf(v \div Pow(HeaderBits(e)), i - 1)
    BY PrefixOutIs
  <2> QED
    BY Zenon, <1>11, <1>12, <1>14, <2>1
<1>16. \A p \in 0..((E + ByteBits) - 1) : S + p < End => At(s.data, S + p) = At(out, p)
  BY <1>10, <1>14
<1>17. CASE ~ ok(u)
  <2>1. r.stream = u
    BY <1>8, <1>17 DEF Got
  <2>2. Moved(s, u, E + ByteBits, size)
    <3>1. ok(s) => u.streamErr = "Eof" /\ ~ (S + ByteBits <= End)
      BY <1>3, <1>10, <1>17 DEF Moved
    <3>2. ~ (S + ByteBits <= End) => ~ (S + (E + ByteBits) <= End)
      BY <1>10, Sizes
    <3> QED
      BY <1>3, <1>10, <3>1, <3>2 DEF Moved
  <2> QED
    BY <1>10, <1>17, <2>1, <2>2
<1>18. CASE ok(u)
  <2>1. ok(s) /\ u.data = s.data /\ u.bitPos = S + ByteBits /\ S + ByteBits <= End /\ u \in Streams(size)
    <3>1. ok(s) /\ u \in Streams(size) /\ u.data = s.data
      BY <1>3, <1>18 DEF Moved
    <3>2. S + ByteBits <= End /\ u.bitPos = S + ByteBits
      BY <1>3, <1>10, <1>18, <3>1 DEF Moved, ok
    <3> QED
      BY <3>1, <3>2
  <2>2. b = h
    <3>1. ASSUME NEW p \in 0..(ByteBits - 1)
          PROVE  Bit(b, p) = Bit(h, p)
      <4>1. At(out, 0 * ByteBits + p) = Bit(out[0 + 1], p)
        BY AtPlace
      <4>2. 0 * ByteBits + p = p /\ 0 + 1 = 1
        BY Span, Sizes
      <4>3. p \in 0..((E + ByteBits) - 1) /\ S + p < End
        BY <1>10, <2>1, Sizes
      <4>4. At(s.data, S + p) = At(out, p)
        BY <1>16, <4>3
      <4>5. Bit(b, p) = At(s.data, S + p)
        BY <1>3, <1>10, <1>18
      <4> QED
        BY <1>15, <4>1, <4>2, <4>4, <4>5
    <3> QED
      BY <1>3, <1>18, <3>1, ByteTells
  <2>3. d.extra = e /\ d.shift = k /\ d.base = y
    BY <1>5, <1>11, <1>13, <2>2, HeaderTells
  <2>4. PICK q : q = readBytes(u, e, e)
    OBVIOUS
  <2>5. t = q.stream /\ bytes = q.out
    BY <1>7, <2>3, <2>4
  <2>6. /\ Moved(u, t, E, size)
        /\ ok(t) => Taken(s.data, S + ByteBits, bytes, e)
    <3>1. /\ Moved(u, q.stream, e * ByteBits, size)
          /\ ok(q.stream) => Taken(u.data, u.bitPos, q.out, e)
      BY <1>9, <2>1, <2>4, GetBytes
    <3> QED
      BY <1>10, <2>1, <2>5, <3>1
  <2>7. Moved(s, t, E + ByteBits, size)
    <3>1. Moved(s, t, ByteBits + E, size)
      BY <1>3, <1>10, <2>6, Sizes, MovedOn
    <3>2. ByteBits + E = E + ByteBits
      BY <1>10, Sizes
    <3> QED
      BY <3>1, <3>2
  <2>8. CASE ~ ok(t)
    <3>1. r.stream = t
      BY <1>8, <1>18, <2>8 DEF Got
    <3> QED
      BY <1>10, <2>7, <2>8, <3>1
  <2>9. CASE ok(t)
    <3>1. /\ bytes \in [1..e -> Byte]
          /\ \A p \in 0..(e * ByteBits - 1) : At(bytes, p) = At(s.data, (S + ByteBits) + p)
      BY Zenon, <2>6, <2>9 DEF Taken
    <3>2. S + (E + ByteBits) <= End
      BY <1>10, <2>1, <2>7, <2>9 DEF Moved, ok
    <3>3. PICK w : w = Pack(bytes)
      OBVIOUS
    <3>4. w \in 0..(Pow(E) - 1) /\ \A p \in 0..(E - 1) : Bit(w, p) = At(bytes, p)
      BY <1>9, <1>10, <3>1, <3>3, PackIs
    <3>5. x \in 0..(Pow(E) - 1)
      <4>1. v < Pow(k + E)
        <5>1. CASE e = ByteBits
          <6>1. k + E \in Nat /\ WordBits \in Nat /\ WordBits <= k + E
            BY <1>10, <5>1, Sizes
          <6>2. Pow(WordBits) <= Pow(k + E) /\ Pow(WordBits) \in Nat /\ Pow(k + E) \in Nat
            BY <6>1, PowGrows, PowIs
          <6> QED
            BY <6>2
        <5>2. CASE e # ByteBits
          <6>1. v < Pow(HeaderBits(e) + ByteBits * e)
            BY <5>2 DEF Holds, Pow
          <6>2. ByteBits * e = E
            BY <1>9, <1>10, Sizes
          <6> QED
            BY <1>11, <6>1, <6>2
        <5> QED
          BY <5>1, <5>2
      <4>2. Pow(k + E) \in Nat
        BY PowIs
      <4>3. v \in 0..(Pow(k + E) - 1)
        BY <4>1, <4>2
      <4> QED
        BY <1>12, <4>3, HighPart
    <3>6. ASSUME NEW p \in 0..(E - 1)
          PROVE  Bit(w, p) = Bit(x, p)
      <4>1. p \in 0..(e * ByteBits - 1)
        BY <1>10
      <4>2. PICK c \in Nat, j \in Nat : c \in 0..(e - 1) /\ j \in 0..(ByteBits - 1) /\ p = c * ByteBits + j
        BY <1>9, <4>1, InPlace
      <4>3. PICK C \in Nat : C = c * ByteBits /\ (c + 1) * ByteBits = C + ByteBits
        BY Span
      <4>4. At(out, (c + 1) * ByteBits + j) = Bit(out[(c + 1) + 1], j)
        <5>1. c + 1 \in Nat
          OBVIOUS
        <5> QED
          BY <4>2, <5>1, AtPlace
      <4>5. out[(c + 1) + 1] = ByteOf(x, c)
        <5>1. c + 1 \in 1..e /\ (c + 1) - 1 = c
          BY <1>9, <4>2
        <5> QED
          BY <1>15, <5>1
      <4>6. Bit(ByteOf(x, c), j) = Bit(x, c * ByteBits + j)
        BY <4>2, ByteOfBits
      <4>7. /\ p + ByteBits \in 0..((E + ByteBits) - 1) /\ S + (p + ByteBits) < End
            /\ (S + ByteBits) + p = S + (p + ByteBits) /\ (C + ByteBits) + j = (C + j) + ByteBits
        BY <1>10, <3>2, <4>2, Sizes
      <4>8. At(s.data, S + (p + ByteBits)) = At(out, p + ByteBits)
        BY <1>16, <4>7
      <4>9. At(bytes, p) = At(s.data, (S + ByteBits) + p)
        BY <3>1, <4>1
      <4>10. At(out, p + ByteBits) = Bit(x, p)
        BY <4>2, <4>3, <4>4, <4>5, <4>6, <4>7
      <4> QED
        BY <3>4, <4>7, <4>8, <4>9, <4>10
    <3>7. w = x
      BY <1>10, <3>4, <3>5, <3>6, BitsTell
    <3>8. r.stream = t /\ r.out = Wrap((x * Pow(k)) + y)
      BY <1>8, <1>18, <2>3, <2>9, <3>3, <3>7 DEF Got
    <3>9. (x * Pow(k)) + y = v
      <4>1. PICK K \in Nat \ {0} : K = Pow(k)
        BY PowIs
      <4>2. v = K * x + y
        BY <1>12, <4>1, DivTells
      <4>3. K * x = x * K
        OBVIOUS
      <4> QED
        BY <4>1, <4>2, <4>3
    <3>10. r.out = v
      BY <3>8, <3>9, WrapSmall
    <3> QED
      BY <1>10, <2>7, <3>8, <3>10
  <2> QED
    BY <2>8, <2>9
<1> QED
  BY <1>17, <1>18
=============================================================================
