--------------------------- MODULE AssemblerProofs ---------------------------
(***************************************************************************)
(* Theorems about AssemblerPasses, for every list of entries and every     *)
(* range of a short jump.                                                  *)
(*                                                                         *)
(* The argument: the list of a pass lies over the list that was emitted    *)
(* (Layout), an instruction taking one place, or two if it was widened, so *)
(* that every label stays with its instruction. A pass that widens nothing *)
(* leaves the list as it is and has seen every distance fit; any other     *)
(* pass lengthens the list, which never has more than two places for an    *)
(* entry, so that there are not more passes than entries.                  *)
(*                                                                         *)
(* What the recursive functions of Assembler are is not given: that they   *)
(* exist, and what follows along them, is proved with least elements.      *)
(***************************************************************************)
EXTENDS AssemblerPasses, SequenceTheorems, WellFoundedInduction, TLAPS

-----------------------------------------------------------------------------
(* Numbers have a least one. *)
LEMMA LeastNat ==
  ASSUME NEW T \in SUBSET Nat, T # {}
  PROVE  \E x \in T : \A y \in T : x <= y
<1> DEFINE R == OpToRel(<, Nat)
<1>1. IsWellFoundedOn(R, Nat)
  BY NatLessThanWellFounded
<1>2. \A x, y \in Nat : y < x => <<y, x>> \in R
  BY DEF OpToRel
<1> HIDE DEF R
<1>3. PICK x \in T : \A y \in T : <<y, x>> \notin R
  BY <1>1, WFMin
<1>4. \A y \in T : ~ (y < x)
  BY <1>2, <1>3
<1> QED
  BY <1>4

(* What holds at the beginning of an interval, and from each to the next,  *)
(* holds on all of it.                                                     *)
LEMMA Onward ==
  ASSUME NEW n \in Nat, NEW P, 0 \in P, \A i \in 0..(n - 1) : i \in P => i + 1 \in P
  PROVE  0..n \subseteq P
<1> DEFINE Bad == (0..n) \ P
<1> SUFFICES ASSUME Bad # {} PROVE FALSE
  OBVIOUS
<1>1. Bad \subseteq Nat
  OBVIOUS
<1>2. PICK least \in Bad : \A i \in Bad : least <= i
  BY <1>1, LeastNat
<1>3. least - 1 \in 0..(n - 1) /\ least - 1 \in P
  BY <1>2
<1>4. (least - 1) + 1 \in P
  BY <1>3
<1> QED
  BY <1>2, <1>4

(* A recursive function over an interval has its values. *)
LEMMA Recursion ==
  ASSUME NEW S, NEW a \in S, NEW n \in Nat, NEW G \in [1..n -> [S -> S]]
  PROVE  \E f \in [0..n -> S] : f[0] = a /\ \A i \in 1..n : f[i] = G[i][f[i - 1]]
<1> DEFINE P == {m \in 0..n : \E f \in [0..m -> S] :
                    f[0] = a /\ \A i \in 1..m : f[i] = G[i][f[i - 1]]}
<1>1. 0 \in P
  <2> DEFINE f == [j \in 0..0 |-> a]
  <2>1. f \in [0..0 -> S] /\ f[0] = a
    OBVIOUS
  <2> HIDE DEF f
  <2>2. \A i \in 1..0 : f[i] = G[i][f[i - 1]]
    OBVIOUS
  <2> QED
    BY <2>1, <2>2
<1>2. ASSUME NEW m \in 0..(n - 1), m \in P
      PROVE  m + 1 \in P
  <2>1. PICK f \in [0..m -> S] : f[0] = a /\ \A i \in 1..m : f[i] = G[i][f[i - 1]]
    BY <1>2
  <2> DEFINE x == G[m + 1][f[m]]
             g == [i \in 0..(m + 1) |-> IF i = m + 1 THEN x ELSE f[i]]
  <2>2. x \in S
    BY <2>1
  <2>3. g \in [0..(m + 1) -> S]
    BY <2>1, <2>2
  <2>4. g[0] = a
    BY <2>1
  <2>5. ASSUME NEW i \in 1..(m + 1)
        PROVE  g[i] = G[i][g[i - 1]]
    <3>1. g[i - 1] = f[i - 1]
      BY <2>1
    <3>2. CASE i = m + 1
      BY <3>1, <3>2
    <3>3. CASE i # m + 1
      BY <2>1, <3>1, <3>3
    <3> QED
      BY <3>2, <3>3
  <2>6. m + 1 \in 0..n
    OBVIOUS
  <2> HIDE DEF g
  <2> QED
    BY <2>3, <2>4, <2>5, <2>6
<1>3. n \in P
  <2> HIDE DEF P
  <2>1. \A i \in 0..(n - 1) : i \in P => i + 1 \in P
    BY <1>2
  <2>2. 0..n \subseteq P
    BY <1>1, <2>1, Onward
  <2> QED
    BY <2>2
<1> QED
  BY <1>3

-----------------------------------------------------------------------------
(* What a list is made of, after any number of passes. *)
Pieces == Emitted \cup {Wide(e)[1] : e \in Emitted} \cup {Wide(e)[2] : e \in Emitted}

(* The two entries of a widened jump. *)
LEMMA WideIs ==
  ASSUME NEW e
  PROVE  /\ Wide(e) = <<Wide(e)[1], Wide(e)[2]>>
         /\ Wide(e)[1].is = "instr" /\ Wide(e)[1].label = e.label
         /\ Wide(e)[1].instr.op = "EXT32"
         /\ Wide(e)[2].is = "word" /\ Wide(e)[2].label = NoLabel
         /\ Wide(e)[2].dest = e.dest /\ Wide(e)[2].offset = 1
         /\ Wide(e)[2].instr = [op |-> "WORD", mode |-> "", imm |-> 0]
BY DEF Wide, Plain, FixUp32, Instr, Word

(* A jump that is in the list was never widened. *)
LEMMA FixUpsEmitted ==
  ASSUME NEW e \in Pieces, e.is = "fixup"
  PROVE  e \in Emitted
BY WideIs DEF Pieces

(* An entry takes one place or two. *)
LEMMA PlacedIs ==
  ASSUME NEW entries, NEW next \in Seq(Pieces), NEW e \in Pieces
  PROVE  /\ Placed(entries, next, e) \in Seq(Pieces)
         /\ \A i \in 1..Len(next) : Placed(entries, next, e)[i] = next[i]
         /\ \/ /\ ~ (e.is = "fixup" /\ ~ FitsInt16(PlaceOf(entries, e.dest) - Len(next)))
               /\ Len(Placed(entries, next, e)) = Len(next) + 1
               /\ Placed(entries, next, e)[Len(next) + 1] = e
            \/ /\ e.is = "fixup"
               /\ Len(Placed(entries, next, e)) = Len(next) + 2
               /\ Placed(entries, next, e)[Len(next) + 1] = Wide(e)[1]
               /\ Placed(entries, next, e)[Len(next) + 2] = Wide(e)[2]
<1> DEFINE far == e.is = "fixup" /\ ~ FitsInt16(PlaceOf(entries, e.dest) - Len(next))
<1>1. Placed(entries, next, e) = IF far THEN next \o Wide(e) ELSE Append(next, e)
  BY DEF Placed
<1>2. CASE far
  <2> DEFINE x == Wide(e)[1]
             y == Wide(e)[2]
  <2>1. x \in Pieces /\ y \in Pieces
    BY <1>2, FixUpsEmitted DEF Pieces
  <2>2. Placed(entries, next, e) = next \o <<x, y>>
    BY <1>1, <1>2, WideIs
  <2> HIDE DEF x, y
  <2>3. <<x, y>> \in Seq(Pieces)
    BY <2>1
  <2>4. /\ next \o <<x, y>> \in Seq(Pieces)
        /\ Len(next \o <<x, y>>) = Len(next) + 2
        /\ \A i \in 1..Len(next) : (next \o <<x, y>>)[i] = next[i]
        /\ (next \o <<x, y>>)[Len(next) + 1] = x
        /\ (next \o <<x, y>>)[Len(next) + 2] = y
    BY <2>3
  <2> QED
    BY <1>2, <2>2, <2>4 DEF x, y
<1>3. CASE ~ far
  <2>1. /\ Append(next, e) \in Seq(Pieces)
        /\ Len(Append(next, e)) = Len(next) + 1
        /\ \A i \in 1..Len(next) : Append(next, e)[i] = next[i]
        /\ Append(next, e)[Len(next) + 1] = e
    OBVIOUS
  <2> HIDE DEF far
  <2>2. Placed(entries, next, e) = Append(next, e)
    BY <1>1, <1>3
  <2> QED
    BY <1>3, <2>1, <2>2 DEF far
<1> QED
  BY <1>2, <1>3

-----------------------------------------------------------------------------
(* A pass, entry by entry: next[i] is what it has made of the first i. *)
Makes(entries, next) ==
  /\ next \in [0..Len(entries) -> Seq(Pieces)]
  /\ next[0] = <<>>
  /\ \A i \in 1..Len(entries) : next[i] = Placed(entries, next[i - 1], entries[i])

(* A pass makes what its steps make. *)
LEMMA WidenMakes ==
  ASSUME NEW entries \in Seq(Pieces)
  PROVE  \E next : Makes(entries, next) /\ Widen(entries) = next[Len(entries)]
<1> DEFINE n == Len(entries)
           Step(f) == [i \in 0..n |-> IF i = 0 THEN <<>> ELSE Placed(entries, f[i - 1], entries[i])]
           next == CHOOSE f : f = Step(f)
           G == [i \in 1..n |-> [s \in Seq(Pieces) |-> Placed(entries, s, entries[i])]]
<1>1. n \in Nat /\ <<>> \in Seq(Pieces) /\ \A i \in 1..n : entries[i] \in Pieces
  OBVIOUS
<1>2. \A i \in 1..n : \A s \in Seq(Pieces) : Placed(entries, s, entries[i]) \in Seq(Pieces)
  BY <1>1, PlacedIs
<1>3. G \in [1..n -> [Seq(Pieces) -> Seq(Pieces)]]
  <2> HIDE DEF n
  <2> QED
    BY <1>1, <1>2
<1>4. \A i \in 1..n : \A s \in Seq(Pieces) : G[i][s] = Placed(entries, s, entries[i])
  <2> HIDE DEF n
  <2> QED
    OBVIOUS
<1> HIDE DEF n, G
<1>5. \E f \in [0..n -> Seq(Pieces)] : f[0] = <<>> /\ \A i \in 1..n : f[i] = G[i][f[i - 1]]
  <2>1. PICK S, a : S = Seq(Pieces) /\ a = <<>>
    OBVIOUS
  <2>2. a \in S /\ n \in Nat /\ G \in [1..n -> [S -> S]]
    BY <1>1, <1>3, <2>1
  <2>3. \E f \in [0..n -> S] : f[0] = a /\ \A i \in 1..n : f[i] = G[i][f[i - 1]]
    BY <2>2, Recursion
  <2> QED
    BY <2>1, <2>3
<1>6. PICK f \in [0..n -> Seq(Pieces)] : f[0] = <<>> /\ \A i \in 1..n : f[i] = G[i][f[i - 1]]
  BY <1>5
<1>7. \A i \in 1..n : i - 1 \in 0..n /\ f[i - 1] \in Seq(Pieces)
  BY <1>1, <1>6
<1>8. \A i \in 1..n : f[i] = Placed(entries, f[i - 1], entries[i])
  BY <1>4, <1>6, <1>7
<1>9. f = Step(f)
  BY <1>1, <1>6, <1>8
<1>10. next = Step(next)
  <2> HIDE DEF Step
  <2> QED
    BY <1>9
<1>11. next = [i \in 0..n |-> next[i]]
  <2> HIDE DEF next
  <2> QED
    BY <1>10
<1>12. Widen(entries) = next[n]
  BY DEF Widen, n
<1>13. /\ next[0] = <<>>
       /\ \A i \in 1..n : next[i] = Placed(entries, next[i - 1], entries[i])
  <2> HIDE DEF next
  <2> QED
    BY <1>1, <1>10
<1>14. \A i \in 0..n : next[i] \in Seq(Pieces)
  <2> HIDE DEF next
  <2> DEFINE P == {i \in 0..n : next[i] \in Seq(Pieces)}
  <2>1. 0 \in P
    <3>1. next[0] \in Seq(Pieces)
      BY <1>13
    <3> QED
      BY <1>1, <3>1
  <2>2. ASSUME NEW i \in 0..(n - 1), i \in P PROVE i + 1 \in P
    <3>1. i + 1 \in 1..n /\ (i + 1) - 1 = i
      BY <1>1
    <3>2. next[i + 1] = Placed(entries, next[i], entries[i + 1])
      BY <1>13, <3>1
    <3> QED
      BY <1>2, <2>2, <3>1, <3>2
  <2>3. 0..n \subseteq P
    <3> HIDE DEF P
    <3> QED
      BY <1>1, <2>1, <2>2, Onward
  <2> QED
    BY <2>3
<1> HIDE DEF next
<1>15. Makes(entries, next)
  BY <1>11, <1>13, <1>14 DEF Makes, n
<1> QED
  BY <1>12, <1>15 DEF n
-----------------------------------------------------------------------------
(* A pass only adds, at least one entry for each. *)
LEMMA Adds ==
  ASSUME NEW entries \in Seq(Pieces), NEW next, Makes(entries, next), NEW i \in 1..Len(entries)
  PROVE  /\ next[i - 1] \in Seq(Pieces) /\ next[i] \in Seq(Pieces) /\ entries[i] \in Pieces
         /\ \A x \in 1..Len(next[i - 1]) : next[i][x] = next[i - 1][x]
         /\ \/ /\ ~ (/\ entries[i].is = "fixup"
                     /\ ~ FitsInt16(PlaceOf(entries, entries[i].dest) - Len(next[i - 1])))
               /\ Len(next[i]) = Len(next[i - 1]) + 1
               /\ next[i][Len(next[i - 1]) + 1] = entries[i]
            \/ /\ entries[i].is = "fixup"
               /\ Len(next[i]) = Len(next[i - 1]) + 2
               /\ next[i][Len(next[i - 1]) + 1] = Wide(entries[i])[1]
               /\ next[i][Len(next[i - 1]) + 2] = Wide(entries[i])[2]
<1>1. i - 1 \in 0..Len(entries) /\ i \in 0..Len(entries) /\ entries[i] \in Pieces
  OBVIOUS
<1>2. next[i - 1] \in Seq(Pieces) /\ next[i] = Placed(entries, next[i - 1], entries[i])
  BY <1>1 DEF Makes
<1>3. PICK s, e : s = next[i - 1] /\ e = entries[i]
  OBVIOUS
<1>4. s \in Seq(Pieces) /\ e \in Pieces /\ next[i] = Placed(entries, s, e)
  BY <1>1, <1>2, <1>3
<1>5. /\ Placed(entries, s, e) \in Seq(Pieces)
      /\ \A x \in 1..Len(s) : Placed(entries, s, e)[x] = s[x]
  BY <1>4, PlacedIs
<1>6. \/ /\ ~ (e.is = "fixup" /\ ~ FitsInt16(PlaceOf(entries, e.dest) - Len(s)))
         /\ Len(Placed(entries, s, e)) = Len(s) + 1
         /\ Placed(entries, s, e)[Len(s) + 1] = e
      \/ /\ e.is = "fixup"
         /\ Len(Placed(entries, s, e)) = Len(s) + 2
         /\ Placed(entries, s, e)[Len(s) + 1] = Wide(e)[1]
         /\ Placed(entries, s, e)[Len(s) + 2] = Wide(e)[2]
  BY <1>4, PlacedIs
<1> QED
  BY <1>3, <1>4, <1>5, <1>6

(* So do several of its steps. *)
LEMMA AddsOn ==
  ASSUME NEW entries \in Seq(Pieces), NEW next, Makes(entries, next),
         NEW i \in 0..Len(entries), NEW j \in i..Len(entries)
  PROVE  /\ next[i] \in Seq(Pieces) /\ next[j] \in Seq(Pieces)
         /\ Len(next[i]) + (j - i) <= Len(next[j])
         /\ \A x \in 1..Len(next[i]) : next[j][x] = next[i][x]
<1> DEFINE n == Len(entries)
           Good(k) == /\ next[k] \in Seq(Pieces)
                      /\ Len(next[i]) + (k - i) <= Len(next[k])
                      /\ \A x \in 1..Len(next[i]) : next[k][x] = next[i][x]
           P == {d \in 0..(n - i) : Good(i + d)}
<1>1. n \in Nat /\ i \in 0..n /\ j \in i..n /\ n - i \in Nat
  OBVIOUS
<1>2. next[i] \in Seq(Pieces)
  BY DEF Makes
<1>3. 0 \in P
  <2>1. Len(next[i]) + (i - i) <= Len(next[i])
    BY <1>1, <1>2
  <2>2. Good(i)
    BY <1>2, <2>1
  <2>3. i + 0 = i
    BY <1>1
  <2> HIDE DEF Good
  <2> QED
    BY <1>1, <2>2, <2>3
<1>4. ASSUME NEW d \in 0..((n - i) - 1), d \in P PROVE d + 1 \in P
  <2> DEFINE k == i + d
  <2>1. k + 1 \in 1..n /\ (k + 1) - 1 = k /\ i + (d + 1) = k + 1 /\ k \in Nat
    BY <1>1
  <2>2. Good(k)
    BY <1>4
  <2> HIDE DEF k
  <2>3. /\ next[k] \in Seq(Pieces) /\ next[k + 1] \in Seq(Pieces)
        /\ \A x \in 1..Len(next[k]) : next[k + 1][x] = next[k][x]
        /\ Len(next[k + 1]) = Len(next[k]) + 1 \/ Len(next[k + 1]) = Len(next[k]) + 2
    BY <2>1, Adds
  <2>4. Len(next[i]) \in Nat /\ Len(next[k]) \in Nat /\ Len(next[k + 1]) \in Nat
    BY <1>2, <2>3
  <2>5. Len(next[i]) + (k - i) <= Len(next[k])
    BY <2>2
  <2>6. Len(next[i]) + ((k + 1) - i) <= Len(next[k + 1])
    <3>1. \A a, b, c \in Nat :
             a + (k - i) <= b /\ (c = b + 1 \/ c = b + 2) => a + ((k + 1) - i) <= c
      BY <2>1
    <3> QED
      BY <2>3, <2>4, <2>5, <3>1
  <2>7. Len(next[i]) <= Len(next[k])
    <3>1. k - i \in Nat
      BY <1>1 DEF k
    <3> QED
      BY <2>4, <2>5, <3>1
  <2>8. ASSUME NEW x \in 1..Len(next[i])
        PROVE  next[k + 1][x] = next[i][x]
    <3>1. x \in 1..Len(next[k])
      BY <2>4, <2>7
    <3> QED
      BY <2>2, <2>3, <3>1
  <2>9. Good(k + 1)
    BY <2>3, <2>6, <2>8
  <2> HIDE DEF Good
  <2> QED
    BY <1>1, <2>1, <2>9
<1>5. j - i \in 0..(n - i) /\ i + (j - i) = j
  BY <1>1
<1>6. j - i \in P
  <2> HIDE DEF P, n
  <2>1. 0..(n - i) \subseteq P
    BY <1>1, <1>3, <1>4, Onward
  <2> QED
    BY <1>5, <2>1
<1>7. Good(j)
  <2> HIDE DEF Good
  <2> QED
    BY <1>5, <1>6
<1> QED
  BY <1>2, <1>7

(* A pass that does not lengthen the list leaves it alone: every distance  *)
(* fits.                                                                   *)
LEMMA WidenKeeps ==
  ASSUME NEW entries \in Seq(Pieces)
  PROVE  /\ Widen(entries) \in Seq(Pieces)
         /\ Len(Widen(entries)) >= Len(entries)
         /\ Len(Widen(entries)) = Len(entries) =>
              /\ Widen(entries) = entries
              /\ \A i \in 1..Len(entries) :
                   entries[i].is = "fixup" =>
                     FitsInt16(PlaceOf(entries, entries[i].dest) - (i - 1))
<1> DEFINE n == Len(entries)
<1>1. PICK next : Makes(entries, next) /\ Widen(entries) = next[n]
  BY WidenMakes
<1>2. n \in Nat /\ 0 \in 0..n /\ n \in 0..n /\ next[0] = <<>> /\ Len(next[0]) = 0
  BY <1>1 DEF Makes
<1>3. next[n] \in Seq(Pieces) /\ 0 + (n - 0) <= Len(next[n])
  BY <1>1, <1>2, AddsOn
<1>4. ASSUME Len(next[n]) = n, NEW i \in 1..n
      PROVE  /\ next[n][i] = entries[i]
             /\ entries[i].is = "fixup" =>
                  FitsInt16(PlaceOf(entries, entries[i].dest) - (i - 1))
  <2>1. /\ i - 1 \in 0..n /\ i \in 0..n /\ i \in i..n /\ n \in i..n
        /\ (i - 1) \in 0..n /\ i - 1 \in 0..n /\ n \in (i - 1)..n
    BY <1>2
  <2>2. /\ next[i - 1] \in Seq(Pieces) /\ next[i] \in Seq(Pieces)
        /\ Len(next[i - 1]) \in Nat /\ Len(next[i]) \in Nat
    BY <1>1, Adds
  <2>3. Len(next[0]) + ((i - 1) - 0) <= Len(next[i - 1])
    BY <1>1, <1>2, <2>1, AddsOn
  <2>4. Len(next[i]) + (n - i) <= n /\ Len(next[i - 1]) + (n - (i - 1)) <= n
    <3>1. Len(next[i]) + (n - i) <= Len(next[n])
      BY <1>1, <2>1, AddsOn
    <3>2. Len(next[i - 1]) + (n - (i - 1)) <= Len(next[n])
      BY <1>1, <2>1, AddsOn
    <3> QED
      BY <1>4, <3>1, <3>2
  <2>5. Len(next[i - 1]) = i - 1 /\ Len(next[i]) <= i
    <3>1. \A a, b \in Nat :
             0 + ((i - 1) - 0) <= a /\ a + (n - (i - 1)) <= n /\ b + (n - i) <= n
               => a = i - 1 /\ b <= i
      BY <1>2
    <3> QED
      BY <1>2, <2>2, <2>3, <2>4, <3>1
  <2>6. /\ next[i][i] = entries[i]
        /\ entries[i].is = "fixup" =>
             FitsInt16(PlaceOf(entries, entries[i].dest) - (i - 1))
        /\ Len(next[i]) = i
    <3>1. ~ (Len(next[i]) = Len(next[i - 1]) + 2) /\ Len(next[i - 1]) + 1 = i
      BY <1>2, <2>1, <2>2, <2>5
    <3> HIDE DEF n
    <3>2. /\ next[i][Len(next[i - 1]) + 1] = entries[i]
          /\ ~ (/\ entries[i].is = "fixup"
                /\ ~ FitsInt16(PlaceOf(entries, entries[i].dest) - Len(next[i - 1])))
          /\ Len(next[i]) = Len(next[i - 1]) + 1
      BY <1>1, <3>1, Adds DEF n
    <3> QED
      BY <2>5, <3>1, <3>2
  <2>7. next[n][i] = next[i][i]
    <3>1. \A x \in 1..Len(next[i]) : next[n][x] = next[i][x]
      BY <1>1, <2>1, AddsOn
    <3>2. i \in 1..Len(next[i])
      BY <1>2, <2>6
    <3> QED
      BY <3>1, <3>2
  <2> QED
    BY <2>6, <2>7
<1>5. Len(next[n]) = n => next[n] = entries
  <2> SUFFICES ASSUME Len(next[n]) = n PROVE next[n] = entries
    OBVIOUS
  <2> QED
    BY <1>3, <1>4, SeqEqual
<1> QED
  BY <1>1, <1>2, <1>3, <1>4, <1>5
-----------------------------------------------------------------------------
(* How a list that passes have made lies over the one that was emitted:    *)
(* an instruction takes a place, or two if it was widened.                 *)
Lies(list, from, to, e) ==
  \/ to = from + 1 /\ list[from + 1] = e
  \/ /\ to = from + 2 /\ e.is = "fixup"
     /\ list[from + 1] = Wide(e)[1] /\ list[from + 2] = Wide(e)[2]

Layout(list, pos) ==
  /\ pos \in [1..(Len(source) + 1) -> Nat]
  /\ pos[1] = 0 /\ pos[Len(source) + 1] = Len(list)
  /\ \A k \in 1..Len(source) : Lies(list, pos[k], pos[k + 1], source[k])

(* The positions grow. *)
LEMMA PositionsGrow ==
  ASSUME source \in Seq(Emitted), NEW list, NEW pos, Layout(list, pos),
         NEW k \in 1..(Len(source) + 1), NEW j \in 1..k
  PROVE  pos[j] \in Nat /\ pos[k] \in Nat /\ pos[j] + (k - j) <= pos[k] /\ pos[k] <= pos[j] + 2 * (k - j)
<1> DEFINE n == Len(source) + 1
           Good(i) == pos[j] + (i - j) <= pos[i] /\ pos[i] <= pos[j] + 2 * (i - j)
           P == {d \in 0..(n - j) : Good(j + d)}
<1>1. n \in Nat /\ j \in 1..n /\ k \in 1..n /\ j \in Nat /\ k \in Nat /\ n - j \in Nat
  OBVIOUS
<1>2. \A i \in 1..n : pos[i] \in Nat
  BY DEF Layout
<1>3. \A i \in 1..(n - 1) : pos[i + 1] = pos[i] + 1 \/ pos[i + 1] = pos[i] + 2
  BY DEF Layout, Lies
<1> HIDE DEF n
<1>4. 0 \in P
  <2>1. Good(j) /\ j + 0 = j
    BY <1>1, <1>2
  <2> HIDE DEF Good
  <2> QED
    BY <1>1, <2>1
<1>5. ASSUME NEW d \in 0..((n - j) - 1), d \in P PROVE d + 1 \in P
  <2>1. Good(j + d) /\ j + d \in 1..(n - 1) /\ j + (d + 1) = (j + d) + 1 /\ (j + d) + 1 \in 1..n
    BY <1>1, <1>5
  <2>2. Good((j + d) + 1)
    <3> DEFINE i == j + d
    <3>1. i \in 1..(n - 1) /\ i \in Nat /\ i + 1 \in 1..n /\ i \in 1..n
      BY <1>1, <2>1
    <3>2. pos[j] + (i - j) <= pos[i] /\ pos[i] <= pos[j] + 2 * (i - j)
      BY <2>1
    <3> HIDE DEF i
    <3>3. pos[j] + ((i + 1) - j) <= pos[i + 1] /\ pos[i + 1] <= pos[j] + 2 * ((i + 1) - j)
      <4>1. \A a, b, c \in Nat :
              a + (i - j) <= b /\ b <= a + 2 * (i - j) /\ (c = b + 1 \/ c = b + 2)
                => a + ((i + 1) - j) <= c /\ c <= a + 2 * ((i + 1) - j)
        BY <1>1, <3>1
      <4> QED
        BY <1>1, <1>2, <1>3, <3>1, <3>2, <4>1
    <3> QED
      BY <3>3 DEF i
  <2> HIDE DEF Good
  <2> QED
    BY <1>1, <2>1, <2>2
<1>6. k - j \in 0..(n - j) /\ j + (k - j) = k
  BY <1>1
<1>7. k - j \in P
  <2> HIDE DEF P
  <2>1. 0..(n - j) \subseteq P
    BY <1>1, <1>4, <1>5, Onward
  <2> QED
    BY <1>6, <2>1
<1>8. Good(k)
  <2> HIDE DEF Good
  <2> QED
    BY <1>6, <1>7
<1> QED
  BY <1>1, <1>2, <1>8

(* And leave nothing out. *)
LEMMA PositionsCover ==
  ASSUME source \in Seq(Emitted), NEW list \in Seq(Pieces), NEW pos, Layout(list, pos),
         NEW i \in 1..Len(list)
  PROVE  \E k \in 1..Len(source) : pos[k] < i /\ i <= pos[k + 1]
<1> DEFINE n == Len(source)
           T == {k \in 1..(n + 1) : i <= pos[k]}
<1>1. n \in Nat /\ i \in Nat /\ i # 0
  OBVIOUS
<1>2. \A k \in 1..(n + 1) : pos[k] \in Nat
  BY DEF Layout
<1>3. pos[1] = 0 /\ pos[n + 1] = Len(list) /\ i <= Len(list)
  BY DEF Layout
<1> HIDE DEF n
<1>4. n + 1 \in T
  BY <1>1, <1>3
<1>5. PICK k \in T : \A j \in T : k <= j
  <2>1. T \in SUBSET Nat /\ T # {}
    BY <1>1, <1>4
  <2> HIDE DEF T
  <2> QED
    BY <2>1, LeastNat
<1>6. k # 1
  BY <1>1, <1>3
<1>7. k - 1 \in 1..n /\ k - 1 \notin T /\ (k - 1) + 1 = k /\ i <= pos[k]
  BY <1>1, <1>5, <1>6
<1>8. pos[k - 1] < i
  BY <1>1, <1>2, <1>7
<1> QED
  BY <1>7, <1>8 DEF n

(* Where an instruction lies is within the list. *)
LEMMA PositionsIn ==
  ASSUME source \in Seq(Emitted), NEW list \in Seq(Pieces), NEW pos, Layout(list, pos),
         NEW k \in 1..Len(source)
  PROVE  /\ pos[k] \in 0..Len(list) /\ pos[k + 1] \in 0..Len(list)
         /\ pos[k] + 1 \in 1..Len(list)
         /\ source[k] \in Emitted
         /\ \/ pos[k + 1] = pos[k] + 1 /\ list[pos[k] + 1] = source[k]
            \/ /\ pos[k + 1] = pos[k] + 2 /\ source[k].is = "fixup"
               /\ pos[k] + 2 \in 1..Len(list)
               /\ list[pos[k] + 1] = Wide(source[k])[1] /\ list[pos[k] + 2] = Wide(source[k])[2]
<1> DEFINE n == Len(source)
<1>1. /\ n + 1 \in 1..(n + 1) /\ k \in 1..(n + 1) /\ k + 1 \in 1..(n + 1) /\ k + 1 \in 1..(n + 1)
      /\ k + 1 \in Nat /\ n + 1 \in Nat /\ n - k \in Nat
  OBVIOUS
<1>2. pos[k] \in Nat /\ pos[k + 1] \in Nat /\ pos[n + 1] = Len(list)
  BY <1>1 DEF Layout
<1>3. Lies(list, pos[k], pos[k + 1], source[k])
  BY DEF Layout
<1>4. pos[k + 1] + ((n + 1) - (k + 1)) <= pos[n + 1]
  BY <1>1, PositionsGrow
<1>5. pos[k + 1] <= Len(list)
  <2>1. \A a, b \in Nat : a + ((n + 1) - (k + 1)) <= b => a <= b
    BY <1>1
  <2> QED
    BY <1>2, <1>4, <2>1
<1>6. Len(list) \in Nat /\ source[k] \in Emitted
  OBVIOUS
<1> HIDE DEF n
<1> QED
  BY <1>2, <1>3, <1>5, <1>6 DEF Lies

(* A pass keeps to the layout. *)
LEMMA WidenLaysOut ==
  ASSUME source \in Seq(Emitted), NEW list \in Seq(Pieces), NEW pos, Layout(list, pos)
  PROVE  \E pos2 : Layout(Widen(list), pos2)
<1> DEFINE n == Len(source)
           size == Len(list)
<1>1. PICK next : Makes(list, next) /\ Widen(list) = next[size]
  BY WidenMakes
<1> DEFINE pos2 == [k \in 1..(n + 1) |-> Len(next[pos[k]])]
<1>2. n \in Nat /\ size \in Nat
  OBVIOUS
<1>3. \A i \in 0..size : next[i] \in Seq(Pieces) /\ Len(next[i]) \in Nat
  <2>1. next \in [0..size -> Seq(Pieces)]
    BY <1>1 DEF Makes
  <2>2. \A s \in Seq(Pieces) : Len(s) \in Nat
    OBVIOUS
  <2> HIDE DEF size
  <2> QED
    BY <2>1, <2>2
<1>4. /\ \A k \in 1..(n + 1) : pos[k] \in 0..size
      /\ pos[1] = 0 /\ pos[n + 1] = size
  <2>1. /\ \A k \in 1..(n + 1) : pos[k] \in Nat
        /\ pos[1] = 0 /\ pos[n + 1] = size
    BY DEF Layout
  <2>2. \A k \in 1..n : pos[k] \in 0..size
    BY PositionsIn
  <2> QED
    BY <1>2, <2>1, <2>2
<1>5. pos2 \in [1..(n + 1) -> Nat]
  BY <1>3, <1>4
<1>6. pos2[1] = 0 /\ pos2[n + 1] = Len(Widen(list))
  <2>1. next[0] = <<>> /\ 1 \in 1..(n + 1) /\ n + 1 \in 1..(n + 1)
    BY <1>1, <1>2 DEF Makes
  <2>2. Len(next[0]) = 0
    BY <2>1
  <2> HIDE DEF n, size
  <2> QED
    BY <1>1, <1>4, <2>1, <2>2
<1>7. ASSUME NEW k \in 1..n
      PROVE  Lies(next[size], pos2[k], pos2[k + 1], source[k])
  <2> DEFINE at == pos[k]
             e  == source[k]
  <2>1. /\ at \in 0..size /\ at \in Nat /\ at + 1 \in 1..size
        /\ (at + 1) - 1 = at /\ (at + 2) - 1 = at + 1
        /\ \/ pos[k + 1] = at + 1 /\ list[at + 1] = e
           \/ /\ pos[k + 1] = at + 2 /\ e.is = "fixup" /\ at + 2 \in 1..size
              /\ list[at + 1] = Wide(e)[1] /\ list[at + 2] = Wide(e)[2]
    BY PositionsIn
  <2>2. pos2[k] = Len(next[at]) /\ pos2[k + 1] = Len(next[pos[k + 1]])
    BY <1>2
  <2>3. \A i \in 0..size : \A x \in 1..Len(next[i]) : next[size][x] = next[i][x]
    BY <1>1, <1>2, AddsOn
  <2> DEFINE len == Len(next[at])
  <2> HIDE DEF n, size, at, e, pos2
  <2>4. /\ \/ /\ Len(next[at + 1]) = len + 1
              /\ next[at + 1][len + 1] = list[at + 1]
           \/ /\ list[at + 1].is = "fixup"
              /\ Len(next[at + 1]) = len + 2
              /\ next[at + 1][len + 1] = Wide(list[at + 1])[1]
              /\ next[at + 1][len + 2] = Wide(list[at + 1])[2]
        /\ \A x \in 1..len : next[at + 1][x] = next[at][x]
    BY <1>1, <2>1, Adds DEF size
  <2>5. len \in Nat
    BY <1>3, <2>1
  <2>6. CASE pos[k + 1] = at + 1 /\ list[at + 1] = e
    <3>1. at + 1 \in 0..size
      BY <1>2, <2>1 DEF size
    <3>2. CASE Len(next[at + 1]) = len + 1 /\ next[at + 1][len + 1] = e
      <4>1. next[size][len + 1] = e
        BY <2>3, <2>5, <3>1, <3>2
      <4>2. pos2[k] = len /\ pos2[k + 1] = len + 1
        BY <2>2, <2>6, <3>2
      <4> HIDE DEF len
      <4> QED
        BY <4>1, <4>2 DEF Lies, e
    <3>3. CASE /\ e.is = "fixup" /\ Len(next[at + 1]) = len + 2
               /\ next[at + 1][len + 1] = Wide(e)[1] /\ next[at + 1][len + 2] = Wide(e)[2]
      <4>1. pos2[k] = len /\ pos2[k + 1] = len + 2
        BY <2>2, <2>6, <3>3
      <4> HIDE DEF len
      <4>2. len + 1 \in 1..Len(next[at + 1]) /\ len + 2 \in 1..Len(next[at + 1])
        BY <2>5, <3>3
      <4>3. next[size][len + 1] = Wide(e)[1] /\ next[size][len + 2] = Wide(e)[2]
        BY <2>3, <3>1, <3>3, <4>2
      <4> QED
        BY <3>3, <4>1, <4>3 DEF Lies, e
    <3> QED
      BY <2>4, <2>6, <3>2, <3>3
  <2>7. CASE /\ pos[k + 1] = at + 2 /\ e.is = "fixup" /\ at + 2 \in 1..size
             /\ list[at + 1] = Wide(e)[1] /\ list[at + 2] = Wide(e)[2]
    <3>1. at + 2 \in 0..size /\ at + 1 \in 0..size
      BY <1>2, <2>1, <2>7 DEF size
    <3>2. list[at + 1].is # "fixup" /\ list[at + 2].is # "fixup"
      BY <2>7, WideIs
    <3>3. Len(next[at + 1]) = len + 1 /\ next[at + 1][len + 1] = Wide(e)[1]
      BY <2>4, <2>7, <3>2
    <3>4. /\ Len(next[at + 2]) = Len(next[at + 1]) + 1
          /\ next[at + 2][Len(next[at + 1]) + 1] = list[at + 2]
      BY <1>1, <2>1, <2>7, <3>2, Adds DEF size
    <3>5. Len(next[at + 2]) = len + 2 /\ next[at + 2][len + 2] = Wide(e)[2]
      <4>1. (len + 1) + 1 = len + 2
        BY <2>5
      <4> QED
        BY <2>7, <3>3, <3>4, <4>1
    <3>6. pos2[k] = len /\ pos2[k + 1] = len + 2
      BY <2>2, <2>7, <3>5
    <3> HIDE DEF len
    <3>7. len + 1 \in 1..Len(next[at + 1]) /\ len + 2 \in 1..Len(next[at + 2])
      BY <2>5, <3>3, <3>5
    <3>8. next[size][len + 1] = Wide(e)[1] /\ next[size][len + 2] = Wide(e)[2]
      BY <2>3, <3>1, <3>3, <3>5, <3>7
    <3> QED
      BY <2>7, <3>6, <3>8 DEF Lies, e
  <2> QED
    BY <2>1, <2>6, <2>7 DEF e
<1> HIDE DEF pos2
<1> QED
  BY <1>1, <1>5, <1>6, <1>7 DEF Layout

(* A label moves with its instruction. *)
LEMMA LabelsMove ==
  ASSUME source \in Seq(Emitted), LabelsOk(source),
         NEW list \in Seq(Pieces), NEW pos, Layout(list, pos),
         NEW l, Defined(source, l) # {}
  PROVE  /\ PlaceOf(source, l) + 1 \in 1..Len(source)
         /\ PlaceOf(list, l) = pos[PlaceOf(source, l) + 1]
<1> DEFINE j == CHOOSE i \in DOMAIN source : source[i].label = l
<1>1. DOMAIN source = 1..Len(source) /\ DOMAIN list = 1..Len(list) /\ Len(source) \in Nat
  OBVIOUS
<1>2. j \in 1..Len(source) /\ source[j].label = l /\ l # NoLabel
  BY <1>1 DEF Defined
<1>3. \A k \in 1..Len(source) : source[k].label = l => k = j
  BY <1>1, <1>2 DEF LabelsOk
<1>4. PlaceOf(source, l) + 1 = j
  <2>1. PlaceOf(source, l) = j - 1
    BY DEF PlaceOf
  <2> HIDE DEF j
  <2> QED
    BY <1>2, <2>1
<1> HIDE DEF j
<1>5. pos[j] \in Nat /\ pos[j] + 1 \in DOMAIN list /\ list[pos[j] + 1].label = l
  <2>1. /\ pos[j] + 1 \in 1..Len(list) /\ pos[j] \in 0..Len(list)
        /\ list[pos[j] + 1] = source[j] \/ list[pos[j] + 1] = Wide(source[j])[1]
    BY <1>2, PositionsIn
  <2>2. Wide(source[j])[1].label = source[j].label
    BY WideIs
  <2> QED
    BY <1>1, <1>2, <2>1, <2>2
<1>6. ASSUME NEW i \in DOMAIN list, list[i].label = l
      PROVE  i = pos[j] + 1
  <2>1. PICK k \in 1..Len(source) : pos[k] < i /\ i <= pos[k + 1]
    BY <1>1, PositionsCover
  <2>2. /\ pos[k] \in Nat /\ i \in Nat
        /\ \/ pos[k + 1] = pos[k] + 1 /\ list[pos[k] + 1] = source[k]
           \/ /\ pos[k + 1] = pos[k] + 2
              /\ list[pos[k] + 1] = Wide(source[k])[1] /\ list[pos[k] + 2] = Wide(source[k])[2]
    BY <1>1, PositionsIn
  <2>3. CASE i = pos[k] + 1
    <3>0. Wide(source[k])[1].label = source[k].label
      BY WideIs
    <3>1. source[k].label = l
      BY <1>6, <2>2, <2>3, <3>0
    <3> QED
      BY <1>3, <2>3, <3>1
  <2>4. CASE i # pos[k] + 1
    <3>1. i = pos[k] + 2 /\ list[pos[k] + 2] = Wide(source[k])[2]
      BY <2>1, <2>2, <2>4
    <3> QED
      BY <1>2, <1>6, <3>1, WideIs
  <2> QED
    BY <2>3, <2>4
<1>7. (CHOOSE i \in DOMAIN list : list[i].label = l) = pos[j] + 1
  BY <1>5, <1>6
<1>8. PlaceOf(list, l) = pos[j]
  <2>1. (pos[j] + 1) - 1 = pos[j]
    BY <1>5
  <2> QED
    BY <1>7, <2>1 DEF PlaceOf
<1> QED
  BY <1>2, <1>4, <1>8
-----------------------------------------------------------------------------
(* What the code says where an instruction lies: how far away its label is. *)
LEMMA CodeThere ==
  ASSUME source \in Seq(Emitted), LabelsOk(source), current \in Seq(Pieces),
         NEW pos, Layout(current, pos), NEW k \in 1..Len(source)
  PROVE  /\ pos[k] \in Nat
         /\ source[k].is \in {"instr", "fixup", "word"} /\ source[k].offset \in Int
         /\ source[k].is = "instr" => pos[k + 1] = pos[k] + 1
         /\ source[k].is # "instr" =>
              /\ Defined(source, source[k].dest) # {}
              /\ PlaceOf(current, source[k].dest) \in Nat
         /\ source[k].is = "word" =>
              /\ pos[k + 1] = pos[k] + 1
              /\ ops[pos[k] + 1].op # "EXT32"
              /\ ops[pos[k] + 1].imm = PlaceOf(current, source[k].dest) - pos[k] + source[k].offset
         /\ source[k].is = "fixup" =>
              \/ /\ pos[k + 1] = pos[k] + 1 /\ pos[k] + 1 \in 1..Len(current)
                 /\ current[pos[k] + 1] = source[k] /\ ops[pos[k] + 1].op # "EXT32"
                 /\ ops[pos[k] + 1].imm = PlaceOf(current, source[k].dest) - pos[k]
              \/ /\ pos[k + 1] = pos[k] + 2 /\ ops[pos[k] + 1].op = "EXT32"
                 /\ ops[pos[k] + 2].imm = PlaceOf(current, source[k].dest) - pos[k]
<1> DEFINE e    == source[k]
           at   == pos[k]
           dest == PlaceOf(current, e.dest)
<1>1. /\ at \in 0..Len(current) /\ at \in Nat /\ at + 1 \in 1..Len(current) /\ e \in Emitted
      /\ \/ pos[k + 1] = at + 1 /\ current[at + 1] = e
         \/ /\ pos[k + 1] = at + 2 /\ e.is = "fixup" /\ at + 2 \in 1..Len(current)
            /\ current[at + 1] = Wide(e)[1] /\ current[at + 2] = Wide(e)[2]
  BY PositionsIn
<1>2. /\ e.is \in {"instr", "fixup", "word"} /\ e.offset \in Int
      /\ e.instr \in [op : STRING, mode : STRING, imm : Int]
      /\ e.is = "fixup" => e.offset = 0 /\ e.instr.op # "EXT32"
      /\ e.is = "word" => e.instr.op # "EXT32"
  <2>1. Word(0).op # "EXT32"
    BY DEF Word, Instr
  <2> HIDE DEF e
  <2> QED
    BY <1>1, <2>1 DEF Emitted
<1>3. e.is # "instr" => Defined(source, e.dest) # {}
  BY DEF LabelsOk
<1>4. e.is # "instr" => dest \in Nat
  <2> SUFFICES ASSUME e.is # "instr" PROVE dest \in Nat
    OBVIOUS
  <2>1. /\ PlaceOf(source, e.dest) + 1 \in 1..Len(source)
        /\ dest = pos[PlaceOf(source, e.dest) + 1]
    BY <1>3, LabelsMove
  <2>2. \A j \in 1..Len(source) : pos[j] \in Nat
    BY PositionsIn
  <2> QED
    BY <2>1, <2>2
<1>5. \A i \in 1..Len(current) : ops[i] = Patched(current, i)
  BY DEF ops
<1>6. ASSUME current[at + 1] = e, e.is # "instr"
      PROVE  /\ ops[at + 1].imm = dest - at + e.offset
             /\ ops[at + 1].op = e.instr.op
  <2>1. ops[at + 1] = [e.instr EXCEPT !.imm = dest - ((at + 1) - 1) + e.offset]
    BY <1>1, <1>5, <1>6 DEF Patched
  <2>2. (at + 1) - 1 = at
    BY <1>1
  <2> HIDE DEF e, at, dest
  <2> QED
    BY <1>2, <2>1, <2>2
<1>7. CASE pos[k + 1] = at + 1 /\ current[at + 1] = e
  <2>1. CASE e.is = "fixup"
    <3>1. /\ ops[at + 1].imm = dest - at + 0
          /\ ops[at + 1].op # "EXT32"
      BY <1>2, <1>6, <1>7, <2>1
    <3>2. dest - at + 0 = dest - at
      <4> HIDE DEF dest, at
      <4> QED
        BY <1>1, <1>4, <2>1
    <3> QED
      BY <1>1, <1>2, <1>3, <1>4, <1>7, <2>1, <3>1, <3>2
  <2>2. CASE e.is = "word"
    BY <1>1, <1>2, <1>3, <1>4, <1>6, <1>7, <2>2
  <2>3. CASE e.is = "instr"
    BY <1>1, <1>2, <1>7, <2>3
  <2> QED
    BY <1>2, <2>1, <2>2, <2>3
<1>8. CASE /\ pos[k + 1] = at + 2 /\ e.is = "fixup" /\ at + 2 \in 1..Len(current)
           /\ current[at + 1] = Wide(e)[1] /\ current[at + 2] = Wide(e)[2]
  <2>1. /\ Wide(e)[1].is = "instr" /\ Wide(e)[1].instr.op = "EXT32"
        /\ Wide(e)[2].is = "word" /\ Wide(e)[2].dest = e.dest /\ Wide(e)[2].offset = 1
        /\ Wide(e)[2].instr = [op |-> "WORD", mode |-> "", imm |-> 0]
    BY WideIs
  <2>2. ops[at + 1].op = "EXT32"
    BY <1>1, <1>5, <1>8, <2>1 DEF Patched
  <2>3. ops[at + 2] = [[op |-> "WORD", mode |-> "", imm |-> 0] EXCEPT
                         !.imm = dest - ((at + 2) - 1) + 1]
    <3> DEFINE w == current[at + 2]
    <3>1. /\ w.is # "instr" /\ w.dest = e.dest /\ w.offset = 1
          /\ w.instr = [op |-> "WORD", mode |-> "", imm |-> 0]
      BY <1>8, <2>1
    <3>2. ops[at + 2] = Patched(current, at + 2)
      BY <1>5, <1>8
    <3>3. Patched(current, at + 2) =
            [w.instr EXCEPT !.imm = PlaceOf(current, w.dest) - ((at + 2) - 1) + w.offset]
      BY <3>1 DEF Patched
    <3> QED
      BY <3>1, <3>2, <3>3
  <2>4. dest - ((at + 2) - 1) + 1 = dest - at
    <3> HIDE DEF dest, at
    <3> QED
      BY <1>1, <1>4, <1>8
  <2>5. ops[at + 2].imm = dest - at
    <3> HIDE DEF dest, at
    <3> QED
      BY <2>3, <2>4
  <2> QED
    BY <1>1, <1>2, <1>3, <1>4, <1>8, <2>2, <2>5
<1> QED
  BY <1>1, <1>7, <1>8

(* The reader's account of the places, from the code, is the layout. *)
LEMMA PlacesAre ==
  ASSUME source \in Seq(Emitted), LabelsOk(source), current \in Seq(Pieces),
         NEW pos, Layout(current, pos)
  PROVE  \A k \in 1..(Len(source) + 1) : Places[k] = pos[k]
<1> DEFINE n == Len(source)
           Step(f) == [k \in 1..(n + 1) |-> IF k = 1 THEN 0 ELSE Beyond(f[k - 1], source[k - 1])]
           places == CHOOSE f : f = Step(f)
<1>1. n \in Nat
  OBVIOUS
<1>2. pos \in [1..(n + 1) -> Nat] /\ pos[1] = 0
  BY DEF Layout
<1>3. ASSUME NEW k \in 1..n
      PROVE  Beyond(pos[k], source[k]) = pos[k + 1]
  BY CodeThere DEF Beyond
<1>4. pos = Step(pos)
  <2>1. ASSUME NEW k \in 1..(n + 1), k # 1
        PROVE  Beyond(pos[k - 1], source[k - 1]) = pos[k]
    <3>1. k - 1 \in 1..n /\ (k - 1) + 1 = k
      BY <1>1, <2>1
    <3> HIDE DEF n
    <3> QED
      BY <1>3, <3>1
  <2> HIDE DEF n
  <2> QED
    BY <1>2, <2>1
<1>5. places = Step(places)
  <2> HIDE DEF Step
  <2> QED
    BY <1>4
<1>6. Places = places
  BY DEF Places
<1> HIDE DEF places
<1> DEFINE P == {d \in 0..n : places[1 + d] = pos[1 + d]}
<1> HIDE DEF n
<1>7. 0 \in P
  BY <1>1, <1>2, <1>5
<1>8. ASSUME NEW d \in 0..(n - 1), d \in P PROVE d + 1 \in P
  <2>1. /\ 1 + d \in 1..n /\ 1 + (d + 1) \in 1..(n + 1) /\ 1 + (d + 1) # 1
        /\ (1 + (d + 1)) - 1 = 1 + d /\ (1 + d) + 1 = 1 + (d + 1)
    BY <1>1
  <2>2. places[1 + (d + 1)] = Beyond(places[1 + d], source[1 + d])
    BY <1>5, <2>1
  <2>3. places[1 + d] = pos[1 + d]
    BY <1>8
  <2>4. Beyond(pos[1 + d], source[1 + d]) = pos[1 + (d + 1)]
    BY <1>3, <2>1
  <2> QED
    BY <1>1, <2>1, <2>2, <2>3, <2>4
<1>9. 0..n \subseteq P
  <2> HIDE DEF P
  <2> QED
    BY <1>1, <1>7, <1>8, Onward
<1>10. ASSUME NEW k \in 1..(n + 1) PROVE places[k] = pos[k]
  <2>1. k - 1 \in 0..n /\ 1 + (k - 1) = k
    BY <1>1
  <2>2. k - 1 \in P
    BY <1>9, <2>1
  <2> QED
    BY <2>1, <2>2
<1> QED
  BY <1>6, <1>10 DEF n
-----------------------------------------------------------------------------
(* The passes that assemble goes through: as many as there are entries. *)
Goes(entries, pass) ==
  /\ pass \in [0..Len(entries) -> Seq(Pieces)]
  /\ pass[0] = entries
  /\ \A i \in 1..Len(entries) : pass[i] = Widen(pass[i - 1])

(* They exist, and assemble takes the last. *)
LEMMA StableGoes ==
  ASSUME NEW entries \in Seq(Pieces)
  PROVE  \E pass : Goes(entries, pass) /\ Stable(entries) = pass[Len(entries)]
<1> DEFINE n == Len(entries)
           S == Seq(Pieces)
           Step(f) == [i \in 0..n |-> IF i = 0 THEN entries ELSE Widen(f[i - 1])]
           pass == CHOOSE f : f = Step(f)
           G == [i \in 1..n |-> [s \in S |-> Widen(s)]]
<1>1. n \in Nat /\ entries \in S
  OBVIOUS
<1>2. \A s \in S : Widen(s) \in S
  BY WidenKeeps
<1>3. Stable(entries) = pass[n]
  BY DEF Stable
<1> HIDE DEF n, S
<1>4. G \in [1..n -> [S -> S]] /\ \A i \in 1..n : \A s \in S : G[i][s] = Widen(s)
  BY <1>2
<1> HIDE DEF G
<1>5. PICK f \in [0..n -> S] : f[0] = entries /\ \A i \in 1..n : f[i] = G[i][f[i - 1]]
  <2>1. PICK T, a, H : T = S /\ a = entries /\ H = G
    OBVIOUS
  <2>2. a \in T /\ n \in Nat /\ H \in [1..n -> [T -> T]]
    BY <1>1, <1>4, <2>1
  <2>3. \E f \in [0..n -> T] : f[0] = a /\ \A i \in 1..n : f[i] = H[i][f[i - 1]]
    BY <2>2, Recursion
  <2> QED
    BY <2>1, <2>3
<1>6. \A i \in 1..n : i - 1 \in 0..n /\ f[i - 1] \in S
  BY <1>1, <1>5
<1>7. f = Step(f)
  BY <1>1, <1>4, <1>5, <1>6
<1>8. pass = Step(pass)
  <2> HIDE DEF Step
  <2> QED
    BY <1>7
<1> HIDE DEF pass
<1>9. /\ pass = [i \in 0..n |-> pass[i]] /\ pass[0] = entries
      /\ \A i \in 1..n : pass[i] = Widen(pass[i - 1])
  BY <1>1, <1>8
<1> DEFINE P == {i \in 0..n : pass[i] \in S}
<1>10. 0 \in P
  BY <1>1, <1>9
<1>11. ASSUME NEW i \in 0..(n - 1), i \in P PROVE i + 1 \in P
  <2>1. i + 1 \in 1..n /\ (i + 1) - 1 = i /\ i + 1 \in 0..n
    BY <1>1
  <2>2. pass[i + 1] = Widen(pass[i])
    BY <1>9, <2>1
  <2> QED
    BY <1>2, <1>11, <2>1, <2>2
<1>12. 0..n \subseteq P
  <2> HIDE DEF P
  <2> QED
    BY <1>1, <1>10, <1>11, Onward
<1>13. pass \in [0..n -> S]
  BY <1>9, <1>12
<1>14. Goes(entries, pass)
  BY <1>9, <1>13 DEF Goes, n, S
<1> QED
  BY <1>3, <1>14 DEF n

(* A list that a pass leaves alone is the end of it. *)
LEMMA StaysStable ==
  ASSUME NEW entries \in Seq(Pieces), NEW pass, Goes(entries, pass),
         NEW m \in 0..Len(entries), Widen(pass[m]) = pass[m]
  PROVE  pass[Len(entries)] = pass[m]
<1> DEFINE n == Len(entries)
           P == {d \in 0..(n - m) : pass[m + d] = pass[m]}
<1>1. n \in Nat /\ m \in 0..n /\ n - m \in Nat /\ m \in Nat
  OBVIOUS
<1>2. \A i \in 1..n : pass[i] = Widen(pass[i - 1])
  BY DEF Goes
<1> HIDE DEF n
<1>3. 0 \in P
  BY <1>1
<1>4. ASSUME NEW d \in 0..((n - m) - 1), d \in P PROVE d + 1 \in P
  <2>1. m + (d + 1) \in 1..n /\ (m + (d + 1)) - 1 = m + d /\ d + 1 \in 0..(n - m)
    BY <1>1
  <2>2. pass[m + (d + 1)] = Widen(pass[m + d])
    BY <1>2, <2>1
  <2> QED
    BY <1>4, <2>1, <2>2
<1>5. n - m \in P
  <2> HIDE DEF P
  <2>1. 0..(n - m) \subseteq P
    BY <1>1, <1>3, <1>4, Onward
  <2> QED
    BY <1>1, <2>1
<1>6. m + (n - m) = n
  BY <1>1
<1> QED
  BY <1>5, <1>6 DEF n

-----------------------------------------------------------------------------
(* The loop is at one of the passes of assemble, and every pass so far has *)
(* widened a jump: there cannot be more of them than entries.              *)
InTime ==
  \E pass, m :
    /\ Goes(source, pass) /\ Stable(source) = pass[Len(source)]
    /\ m \in 0..Len(source) /\ current = pass[m]
    /\ ~ done => Len(source) + m <= Len(current)

IInv ==
  /\ source \in Seq(Emitted) /\ LabelsOk(source)
  /\ current \in Seq(Pieces) /\ done \in BOOLEAN
  /\ \E pos : Layout(current, pos)
  /\ InTime
  /\ done => Widen(current) = current

(* At the beginning nothing is widened. *)
LEMMA EmittedPieces == Seq(Emitted) \subseteq Seq(Pieces)
<1>1. Emitted \subseteq Pieces
  BY DEF Pieces
<1> QED
  BY <1>1

LEMMA InitIInv == Init => IInv
<1> SUFFICES ASSUME Init PROVE IInv
  OBVIOUS
<1> DEFINE n == Len(source)
           pos == [k \in 1..(n + 1) |-> k - 1]
<1>1. source \in Seq(Emitted) /\ LabelsOk(source) /\ current = source /\ done = FALSE
  BY SourcesAssumption DEF Init
<1>2. source \in Seq(Pieces) /\ n \in Nat
  BY <1>1, EmittedPieces
<1>3. Layout(current, pos)
  <2>1. pos \in [1..(n + 1) -> Nat] /\ pos[1] = 0 /\ pos[n + 1] = n
    BY <1>2
  <2>2. ASSUME NEW k \in 1..n
        PROVE  Lies(current, pos[k], pos[k + 1], source[k])
    <3>1. pos[k] + 1 = k /\ pos[k + 1] = pos[k] + 1
      BY <1>2
    <3> QED
      BY <1>1, <3>1 DEF Lies
  <2> HIDE DEF pos
  <2> QED
    BY <1>1, <2>1, <2>2 DEF Layout
<1>4. InTime
  <2>1. PICK pass : Goes(source, pass) /\ Stable(source) = pass[n]
    BY <1>2, StableGoes
  <2>2. 0 \in 0..n /\ current = pass[0] /\ n + 0 <= Len(current)
    BY <1>1, <1>2, <2>1 DEF Goes
  <2> QED
    BY <2>1, <2>2 DEF InTime
<1> QED
  BY <1>1, <1>2, <1>3, <1>4 DEF IInv

LEMMA PassKeeps == ASSUME IInv, Pass PROVE IInv'
<1> DEFINE n == Len(source)
<1>1. /\ ~ done /\ current' = Widen(current) /\ done' = (current' = current) /\ source' = source
  BY DEF Pass
<1>2. /\ source \in Seq(Emitted) /\ LabelsOk(source) /\ current \in Seq(Pieces) /\ InTime
      /\ n \in Nat
  BY DEF IInv
<1>3. PICK pos : Layout(current, pos)
  BY DEF IInv
<1>4. /\ current' \in Seq(Pieces) /\ Len(current') >= Len(current)
      /\ Len(current') = Len(current) => current' = current
  BY <1>1, <1>2, WidenKeeps
<1>5. PICK pos2 : Layout(current', pos2)
  BY <1>1, <1>2, <1>3, WidenLaysOut
<1>6. Len(current') <= n + n
  <2>1. n + 1 \in 1..(n + 1) /\ 1 \in 1..(n + 1) /\ n + 1 \in Nat
    BY <1>2
  <2>2. pos2[1] = 0 /\ pos2[n + 1] = Len(current')
    BY <1>5 DEF Layout
  <2>3. pos2[n + 1] <= pos2[1] + 2 * ((n + 1) - 1)
    BY <1>2, <1>5, <2>1, PositionsGrow
  <2> HIDE DEF n
  <2> QED
    BY <1>2, <2>2, <2>3
<1>7. InTime'
  <2>1. PICK pass, m :
          /\ Goes(source, pass) /\ Stable(source) = pass[n]
          /\ m \in 0..n /\ current = pass[m] /\ n + m <= Len(current)
    BY <1>1, <1>2 DEF InTime
  <2>2. CASE done'
    <3>1. current' = pass[m]
      BY <1>1, <2>1, <2>2
    <3> QED
      BY <1>1, <2>1, <2>2, <3>1 DEF InTime
  <2>3. CASE ~ done'
    <3>1. Len(current) \in Nat /\ Len(current') \in Nat /\ Len(current') # Len(current)
      <4>1. current' # current
        BY <1>1, <2>3
      <4>2. Len(current) \in Nat /\ Len(current') \in Nat
        BY <1>2, <1>4
      <4> QED
        BY <1>4, <4>1, <4>2
    <3> HIDE DEF n
    <3>2. n + (m + 1) <= Len(current')
      BY <1>2, <1>4, <2>1, <3>1
    <3>3. m + 1 \in 1..n /\ m + 1 \in 0..n /\ (m + 1) - 1 = m
      BY <1>2, <1>6, <2>1, <3>1, <3>2
    <3>4. current' = pass[m + 1]
      <4>1. pass[m + 1] = Widen(pass[m])
        BY <2>1, <3>3 DEF Goes, n
      <4> QED
        BY <1>1, <2>1, <4>1
    <3> QED
      BY <1>1, <2>1, <3>2, <3>3, <3>4 DEF InTime, n
  <2> QED
    BY <2>2, <2>3
<1>8. done' => Widen(current') = current'
  BY <1>1
<1>9. (\E p : Layout(current, p))'
  BY <1>1, <1>5 DEF Layout
<1>10. LabelsOk(source)' /\ (source \in Seq(Emitted))' /\ (current \in Seq(Pieces))'
       /\ done' \in BOOLEAN
  BY <1>1, <1>2, <1>4
<1> QED
  BY <1>7, <1>8, <1>9, <1>10 DEF IInv

(* Whatever is emitted, the invariant holds after every pass. *)
THEOREM Invariance == Spec => []IInv
<1>1. IInv /\ [Next]_vars => IInv'
  <2> SUFFICES ASSUME IInv, [Next]_vars PROVE IInv'
    OBVIOUS
  <2>1. CASE Pass
    BY <2>1, PassKeeps
  <2>2. CASE UNCHANGED vars
    BY <2>2 DEF IInv, InTime, Layout, vars
  <2> QED
    BY <2>1, <2>2 DEF Next
<1> QED
  BY <1>1, InitIInv, PTL DEF Spec
(* Every jump and every word of a jump table leads to the instruction that *)
(* carries its label, and a short jump fits its 16 bits, for every list    *)
(* and every size of a short jump (Assembler.cpp:104-228).                 *)
THEOREM EveryJumpLands == Spec => []JumpsLand
<1>1. IInv => JumpsLand
  <2> SUFFICES ASSUME IInv, done PROVE
          /\ Places[Len(source) + 1] = Len(current)
          /\ \A k \in DOMAIN source :
               source[k].is # "instr" =>
                 /\ Target(k) = Places[PlaceOf(source, source[k].dest) + 1]
                 /\ source[k].is = "fixup" /\ ops[Places[k] + 1].op # "EXT32"
                      => FitsInt16(ops[Places[k] + 1].imm)
    BY DEF JumpsLand
  <2>1. /\ source \in Seq(Emitted) /\ LabelsOk(source) /\ current \in Seq(Pieces)
        /\ Widen(current) = current
    BY DEF IInv
  <2>2. PICK pos : Layout(current, pos)
    BY DEF IInv
  <2>3. \A k \in 1..(Len(source) + 1) : Places[k] = pos[k]
    BY <2>1, <2>2, PlacesAre
  <2>4. Places[Len(source) + 1] = Len(current)
    <3>1. Len(source) + 1 \in 1..(Len(source) + 1)
      BY <2>1
    <3> QED
      BY <2>2, <2>3, <3>1 DEF Layout
  <2>5. ASSUME NEW k \in DOMAIN source, source[k].is # "instr"
        PROVE  /\ Target(k) = Places[PlaceOf(source, source[k].dest) + 1]
               /\ source[k].is = "fixup" /\ ops[Places[k] + 1].op # "EXT32"
                    => FitsInt16(ops[Places[k] + 1].imm)
    <3> DEFINE at   == pos[k]
               dest == PlaceOf(current, source[k].dest)
    <3>1. k \in 1..Len(source) /\ Places[k] = at
      BY <2>1, <2>3
    <3>2. /\ at \in Nat /\ source[k].is \in {"instr", "fixup", "word"}
          /\ source[k].offset \in Int /\ dest \in Nat
          /\ Defined(source, source[k].dest) # {}
          /\ source[k].is = "word" =>
               /\ ops[at + 1].op # "EXT32"
               /\ ops[at + 1].imm = dest - at + source[k].offset
          /\ source[k].is = "fixup" =>
               \/ /\ at + 1 \in 1..Len(current) /\ current[at + 1] = source[k]
                  /\ ops[at + 1].op # "EXT32" /\ ops[at + 1].imm = dest - at
               \/ ops[at + 1].op = "EXT32" /\ ops[at + 2].imm = dest - at
      BY <2>1, <2>2, <2>5, <3>1, CodeThere
    <3>3. Places[PlaceOf(source, source[k].dest) + 1] = dest
      <4>1. /\ PlaceOf(source, source[k].dest) + 1 \in 1..Len(source)
            /\ dest = pos[PlaceOf(source, source[k].dest) + 1]
        BY <2>1, <2>2, <3>2, LabelsMove
      <4> QED
        BY <2>1, <2>3, <4>1
    <3>4. Target(k) = dest
      <4>1. CASE source[k].is = "word"
        <5>1. Target(k) = at - source[k].offset + ops[at + 1].imm
          BY <3>1, <3>2, <4>1 DEF Target
        <5>2. at - source[k].offset + (dest - at + source[k].offset) = dest
          <6> HIDE DEF at, dest
          <6> QED
            BY <3>2
        <5> QED
          BY <3>2, <4>1, <5>1, <5>2
      <4>2. CASE source[k].is = "fixup" /\ ops[at + 1].op = "EXT32"
        <5>1. Target(k) = at + ops[at + 2].imm
          BY <3>1, <4>2 DEF Target
        <5>2. at + (dest - at) = dest
          <6> HIDE DEF at, dest
          <6> QED
            BY <3>2
        <5> QED
          BY <3>2, <4>2, <5>1, <5>2
      <4>3. CASE source[k].is = "fixup" /\ ops[at + 1].op # "EXT32"
        <5>1. Target(k) = at + ops[at + 1].imm
          BY <3>1, <4>3 DEF Target
        <5>2. at + (dest - at) = dest
          <6> HIDE DEF at, dest
          <6> QED
            BY <3>2
        <5> QED
          BY <3>2, <4>3, <5>1, <5>2
      <4> QED
        BY <2>5, <3>2, <4>1, <4>2, <4>3
    <3>5. ASSUME source[k].is = "fixup", ops[at + 1].op # "EXT32"
          PROVE  FitsInt16(ops[at + 1].imm)
      <4>1. /\ at + 1 \in 1..Len(current) /\ current[at + 1] = source[k]
            /\ ops[at + 1].imm = dest - at
        BY <3>2, <3>5
      <4>2. FitsInt16(PlaceOf(current, current[at + 1].dest) - ((at + 1) - 1))
        BY <2>1, <3>5, <4>1, WidenKeeps
      <4>3. (at + 1) - 1 = at
        BY <3>2
      <4> QED
        BY <4>1, <4>2, <4>3
    <3> QED
      BY <3>1, <3>3, <3>4, <3>5
  <2> QED
    BY <2>4, <2>5
<1> QED
  BY <1>1, Invariance, PTL

(* The loop ends with what assemble says, which goes through as many       *)
(* passes as there are entries: they are always enough.                    *)
THEOREM LoopAssembles == Spec => []AgreesWithAssemble
<1>1. IInv => AgreesWithAssemble
  <2> SUFFICES ASSUME IInv, done PROVE ops = assemble(source)
    BY DEF AgreesWithAssemble
  <2>1. /\ source \in Seq(Pieces) /\ LabelsOk(source) /\ InTime /\ Widen(current) = current
    BY EmittedPieces DEF IInv
  <2>2. PICK pass, m : /\ Goes(source, pass) /\ Stable(source) = pass[Len(source)]
                       /\ m \in 0..Len(source) /\ current = pass[m]
    BY <2>1 DEF InTime
  <2>3. pass[Len(source)] = pass[m]
    BY <2>1, <2>2, StaysStable
  <2>4. Stable(source) = current
    BY <2>2, <2>3
  <2> QED
    BY <2>1, <2>4 DEF ops, assemble
<1> QED
  BY <1>1, Invariance, PTL
=============================================================================
