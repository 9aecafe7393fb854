------------------------------ MODULE VMProofs ------------------------------
(***************************************************************************)
(* Theorems about VM, for every set of nested programs, every width of the *)
(* registers, every answer of the adapters, and any number of runs on one  *)
(* machine, of whatever program and in whichever direction.                *)
(*                                                                         *)
(* The argument: what the adapters have open is a pile of parts, one for   *)
(* each routine on the call stack and one for the routine that runs        *)
(* (Nests, with the depths where the parts begin). In the part on top is   *)
(* open what the text of the routine says (Around), which is what the      *)
(* instruction at the program counter relies on.                           *)
(***************************************************************************)
EXTENDS VMNesting, FiniteSetTheorems, SequenceTheorems, TLAPS

-----------------------------------------------------------------------------
(* How many of what is open ends with it. *)
Count(s, end) == Cardinality({i \in DOMAIN s : s[i] = end})

(* One more, when it is that one that begins. *)
LEMMA CountAppend ==
  ASSUME NEW s \in Seq(Ends), NEW e \in Ends, NEW end
  PROVE  /\ Count(s, end) \in Nat
         /\ Count(Append(s, e), end) = Count(s, end) + (IF e = end THEN 1 ELSE 0)
<1> DEFINE old == {i \in DOMAIN s : s[i] = end}
           t   == Append(s, e)
           new == {i \in DOMAIN t : t[i] = end}
<1>1. IsFiniteSet(1..Len(s)) /\ old \subseteq 1..Len(s)
  BY FS_Interval
<1>2. IsFiniteSet(old)
  BY <1>1, FS_Subset
<1>3. Cardinality(old) \in Nat
  BY <1>2, FS_CardinalityType
<1>4. /\ Len(t) = Len(s) + 1
      /\ DOMAIN t = 1..Len(s) + 1
      /\ \A i \in 1..Len(s) : t[i] = s[i]
      /\ t[Len(s) + 1] = e
  OBVIOUS
<1>c. Count(s, end) = Cardinality(old) /\ Count(t, end) = Cardinality(new)
  BY DEF Count
<1>5. CASE e = end
  <2>1. new = old \cup {Len(s) + 1} /\ Len(s) + 1 \notin old
    BY <1>4, <1>5
  <2> QED
    <3> HIDE DEF old, new
    <3>1. Cardinality(new) = Cardinality(old) + 1
      BY <2>1, <1>2, FS_AddElement
    <3> QED
      BY <3>1, <1>c, <1>3, <1>5
<1>6. CASE e # end
  <2>1. new = old
    BY <1>4, <1>6
  <2> QED
    <3> HIDE DEF old, new
    <3> QED
      BY <1>c, <2>1, <1>3, <1>6
<1> QED
  BY <1>5, <1>6

LEMMA PopType ==
  ASSUME NEW S, NEW s \in Seq(S), s # <<>>
  PROVE  /\ Pop(s) \in Seq(S) /\ Len(s) = Len(Pop(s)) + 1 /\ Len(Pop(s)) = Len(s) - 1
         /\ \A i \in 1..(Len(s) - 1) : Pop(s)[i] = s[i]
<1>1. Len(s) \in Nat \ {0} /\ \A i \in 1..Len(s) : s[i] \in S
  OBVIOUS
<1> DEFINE n == Len(s) - 1
<1>2. n \in Nat /\ Len(s) = n + 1 /\ \A i \in 1..n : s[i] \in S
  BY <1>1
<1> HIDE DEF n
<1>3. SubSeq(s, 1, n) \in Seq(S)
  BY <1>2, SubSeqProperties
<1>4. Len(SubSeq(s, 1, n)) = n
  BY <1>2, SubSeqProperties
<1>5. \A i \in 1..n : SubSeq(s, 1, n)[i] = s[i]
  BY <1>2, SubSeqProperties
<1> QED
  BY <1>2, <1>3, <1>4, <1>5 DEF n, Pop

(* One less, when it is that one that ends, and there was one. *)
LEMMA CountPop ==
  ASSUME NEW s \in Seq(Ends), s # <<>>, NEW end
  PROVE  /\ Pop(s) \in Seq(Ends) /\ Len(Pop(s)) = Len(s) - 1
         /\ \A i \in 1..(Len(s) - 1) : Pop(s)[i] = s[i]
         /\ Count(Pop(s), end) \in Nat
         /\ Count(s, end) = Count(Pop(s), end) + (IF Top(s) = end THEN 1 ELSE 0)
<1>1. Len(s) \in Nat \ {0} /\ \A i \in 1..Len(s) : s[i] \in Ends
  OBVIOUS
<1>2. Pop(s) \in Seq(Ends) /\ Len(Pop(s)) = Len(s) - 1
  BY PopType
<1>3. \A i \in 1..(Len(s) - 1) : Pop(s)[i] = s[i]
  BY PopType
<1>4. Top(s) \in Ends
  BY <1>1 DEF Top
<1>5. s = Append(Pop(s), Top(s))
  <2>1. /\ Append(Pop(s), Top(s)) \in Seq(Ends)
        /\ Len(Append(Pop(s), Top(s))) = Len(s)
    BY <1>1, <1>2, <1>4
  <2>2. \A i \in 1..Len(s) : Append(Pop(s), Top(s))[i] = s[i]
    BY <1>1, <1>2, <1>3, <1>4 DEF Top
  <2> QED
    BY <2>1, <2>2, SeqEqual
<1>6. /\ Count(Pop(s), end) \in Nat
      /\ Count(Append(Pop(s), Top(s)), end) =
           Count(Pop(s), end) + (IF Top(s) = end THEN 1 ELSE 0)
  BY <1>2, <1>4, CountAppend
<1> QED
  BY <1>2, <1>3, <1>5, <1>6

-----------------------------------------------------------------------------
(* The depths of the calls exist. *)
Nests ==
  \E base \in [0..stackDepth -> Nat] :
    /\ \A j \in 0..stackDepth : \A i \in 0..j : base[i] <= base[j]
    /\ CallsNest(base)

(* What is open at a place is a sequence. *)
LEMMA PlacesKnown ==
  ASSUME NEW p, WellNested(p), Code(p) # <<>>
  PROVE  \A at \in Places(p) : at \in Nat /\ Around(p, at) \in Seq(Ends)
<1> TAKE at \in Places(p)
<1>1. at \in Nat
  BY DEF Places
<1>2. CASE at \in Main
  <2>1. MainNested(p)
    BY DEF WellNested
  <2>2. Around(p, at) = <<>>
    BY <1>2, <2>1 DEF MainNested
  <2> QED
    BY <1>1, <2>2, EmptySeq
<1>3. CASE at \notin Main
  <2>1. InPlace(p, at)
    BY <1>3 DEF WellNested
  <2> QED
    BY <1>1, <2>1 DEF InPlace
<1> QED
  BY <1>2, <1>3

(* What is appended to a sequence is appended to its last part, and what   *)
(* is taken from its last part is taken from it.                           *)
LEMMA LastPartAppend ==
  ASSUME NEW o \in Seq(Ends), NEW s \in Seq(Ends), NEW e \in Ends, NEW b \in Nat,
         Len(o) = b + Len(s), \A i \in 1..Len(s) : o[b + i] = s[i]
  PROVE  /\ Len(Append(o, e)) = b + Len(Append(s, e))
         /\ \A i \in DOMAIN Append(s, e) : Append(o, e)[b + i] = Append(s, e)[i]
         /\ \A i \in 1..b : Append(o, e)[i] = o[i]
<1>1. /\ Len(Append(s, e)) = Len(s) + 1 /\ DOMAIN Append(s, e) = 1..(Len(s) + 1)
      /\ \A i \in 1..Len(s) : Append(s, e)[i] = s[i]
      /\ Append(s, e)[Len(s) + 1] = e
  OBVIOUS
<1>2. /\ Len(Append(o, e)) = Len(o) + 1
      /\ \A i \in 1..Len(o) : Append(o, e)[i] = o[i]
      /\ Append(o, e)[Len(o) + 1] = e
  OBVIOUS
<1>3. Len(s) \in Nat /\ Len(o) \in Nat
  OBVIOUS
<1> QED
  BY <1>1, <1>2, <1>3

LEMMA LastPartPop ==
  ASSUME NEW o \in Seq(Ends), NEW s \in Seq(Ends), s # <<>>, NEW b \in Nat,
         Len(o) = b + Len(s), \A i \in 1..Len(s) : o[b + i] = s[i]
  PROVE  /\ o # <<>> /\ Top(o) = Top(s)
         /\ Len(Pop(o)) = b + Len(Pop(s))
         /\ \A i \in DOMAIN Pop(s) : Pop(o)[b + i] = Pop(s)[i]
         /\ \A i \in 1..b : Pop(o)[i] = o[i]
<1>1. Len(s) \in Nat \ {0} /\ Len(o) \in Nat /\ b < Len(o)
  OBVIOUS
<1>2. o # <<>> /\ Top(o) = Top(s)
  BY <1>1 DEF Top
<1>3. /\ Pop(s) \in Seq(Ends) /\ Len(Pop(s)) = Len(s) - 1
      /\ \A i \in 1..(Len(s) - 1) : Pop(s)[i] = s[i]
  BY CountPop
<1>4. /\ Pop(o) \in Seq(Ends) /\ Len(Pop(o)) = Len(o) - 1
      /\ \A i \in 1..(Len(o) - 1) : Pop(o)[i] = o[i]
  BY <1>2, CountPop
<1>5. DOMAIN Pop(s) = 1..(Len(s) - 1)
  BY <1>3
<1>6. ASSUME NEW i \in 1..(Len(s) - 1) PROVE Pop(o)[b + i] = Pop(s)[i]
  <2>1. b + i \in 1..(Len(o) - 1) /\ i \in 1..Len(s)
    BY <1>1
  <2> QED
    BY <2>1, <1>3, <1>4
<1>7. ASSUME NEW i \in 1..b PROVE Pop(o)[i] = o[i]
  BY <1>1, <1>4
<1>8. Len(Pop(o)) = b + Len(Pop(s))
  BY <1>1, <1>3, <1>4
<1> QED
  BY <1>2, <1>5, <1>6, <1>7, <1>8

(* What the routines that called have open lies below what is open here. *)
LEMMA Below ==
  ASSUME WellNested(prog), code # <<>>, stackDepth \in Nat, pc \in Places(prog),
         NEW base \in [0..stackDepth -> Nat],
         \A j \in 0..stackDepth : \A i \in 0..j : base[i] <= base[j],
         CallsNest(base)
  PROVE  /\ base[stackDepth] \in Nat
         /\ Len(open) = base[stackDepth] + Len(Around(prog, pc))
         /\ \A i \in 1..Len(Around(prog, pc)) :
              open[base[stackDepth] + i] = Around(prog, pc)[i]
<1>1. Around(prog, pc) \in Seq(Ends)
  BY PlacesKnown DEF code, Code
<1>2. Spans(base[stackDepth], Len(open), Around(prog, pc))
  BY DEF CallsNest
<1>3. base[stackDepth] \in Nat
  OBVIOUS
<1> QED
  BY <1>1, <1>2, <1>3 DEF Spans

(* A step that leaves alone what lies below, and has open what the text    *)
(* says of the place it leads to.                                          *)
LEMMA NestsMove ==
  ASSUME WellNested(prog), code # <<>>, stackDepth \in Nat,
         NEW base \in [0..stackDepth -> Nat],
         \A j \in 0..stackDepth : \A i \in 0..j : base[i] <= base[j],
         CallsNest(base),
         UNCHANGED <<prog, callStack, leftover, stackDepth>>,
         \A i \in 1..base[stackDepth] : open'[i] = open[i],
         Spans(base[stackDepth], Len(open), Around(prog, pc))'
  PROVE  Nests'
<1>1. \A at \in Places(prog) : Around(prog, at) \in Seq(Ends)
  BY PlacesKnown DEF code, Code
<1>2. ASSUME NEW k \in 1..stackDepth
      PROVE  Spans(base[k - 1], base[k], Around(prog, ReturnOf(k)))'
  <2> DEFINE s == Around(prog, ReturnOf(k))
  <2>1. k \in 0..stackDepth /\ k - 1 \in 0..stackDepth /\ stackDepth \in 0..stackDepth
    OBVIOUS
  <2>2. base[k] \in Nat /\ base[k - 1] \in Nat /\ base[stackDepth] \in Nat
        /\ base[k] <= base[stackDepth]
    BY <2>1
  <2>3. ReturnOf(k) \in Places(prog) /\ Spans(base[k - 1], base[k], s)
    BY DEF CallsNest
  <2>4. s \in Seq(Ends)
    BY <2>3, <1>1
  <2>5. s' = s
    BY DEF ReturnOf, Around
  <2> HIDE DEF s
  <2>6. base[k] = base[k - 1] + Len(s) /\ \A i \in 1..Len(s) : open[base[k - 1] + i] = s[i]
    BY <2>3, <2>4 DEF Spans
  <2>7. DOMAIN s = 1..Len(s) /\ Len(s) \in Nat
    BY <2>4
  <2>8. \A i \in DOMAIN s : open'[base[k - 1] + i] = s[i]
    <3> TAKE i \in DOMAIN s
    <3>1. base[k - 1] + i \in 1..base[stackDepth]
      BY <2>2, <2>6, <2>7
    <3> QED
      BY <3>1, <2>6, <2>7
  <2>9. Spans(base[k - 1], base[k], s)'
    BY <2>5, <2>6, <2>8 DEF Spans
  <2> QED
    BY <2>9 DEF s
<1>3. CallsNest(base)'
  BY <1>2 DEF CallsNest, ReturnOf, LoopTest, Op, Code, Places, Within, Around
<1> QED
  BY <1>3 DEF Nests

(* The machine is at a place of a nested program. *)
AtPlace ==
  /\ WellNested(prog) /\ code # <<>>
  /\ stackDepth \in Nat /\ open \in Seq(Ends)
  /\ pc \in Places(prog)
  /\ Nests

LEMMA AroundHere ==
  ASSUME AtPlace
  PROVE  Around(prog, pc) \in Seq(Ends)
BY PlacesKnown DEF AtPlace, code, Code

(* Neither a BEGIN nor an END. *)
LEMMA NestsStay ==
  ASSUME AtPlace, UNCHANGED <<prog, callStack, leftover, stackDepth, open>>,
         Around(prog, pc') = Around(prog, pc)
  PROVE  Nests'
<1>1. PICK base \in [0..stackDepth -> Nat] :
        /\ \A j \in 0..stackDepth : \A i \in 0..j : base[i] <= base[j]
        /\ CallsNest(base)
  BY DEF AtPlace, Nests
<1>2. Spans(base[stackDepth], Len(open), Around(prog, pc))'
  BY <1>1 DEF CallsNest, Spans, Around
<1> QED
  BY <1>1, <1>2, NestsMove DEF AtPlace

LEMMA NestsBegin ==
  ASSUME AtPlace, UNCHANGED <<prog, callStack, leftover, stackDepth>>,
         NEW e \in Ends, open' = Append(open, e),
         Around(prog, pc') = Append(Around(prog, pc), e)
  PROVE  Nests'
<1>1. PICK base \in [0..stackDepth -> Nat] :
        /\ \A j \in 0..stackDepth : \A i \in 0..j : base[i] <= base[j]
        /\ CallsNest(base)
  BY DEF AtPlace, Nests
<1> DEFINE s == Around(prog, pc)
           b == base[stackDepth]
<1>2. b \in Nat /\ Len(open) = b + Len(s) /\ \A i \in 1..Len(s) : open[b + i] = s[i]
  BY <1>1, Below DEF AtPlace
<1>3. s \in Seq(Ends) /\ open \in Seq(Ends)
  BY AroundHere DEF AtPlace
<1>4. /\ Len(Append(open, e)) = b + Len(Append(s, e))
      /\ \A i \in DOMAIN Append(s, e) : Append(open, e)[b + i] = Append(s, e)[i]
      /\ \A i \in 1..b : Append(open, e)[i] = open[i]
  <2> HIDE DEF s, b
  <2> QED
    BY <1>2, <1>3, LastPartAppend
<1>5. Spans(base[stackDepth], Len(open), Around(prog, pc))'
  <2>1. Around(prog, pc)' = Append(s, e)
    BY DEF Around
  <2> QED
    BY <2>1, <1>4 DEF Spans
<1> QED
  BY <1>1, <1>4, <1>5, NestsMove DEF AtPlace

(* What ends is what began last. *)
LEMMA TopHere ==
  ASSUME AtPlace, Around(prog, pc) # <<>>
  PROVE  open # <<>> /\ Top(open) = Top(Around(prog, pc))
<1>1. PICK base \in [0..stackDepth -> Nat] :
        /\ \A j \in 0..stackDepth : \A i \in 0..j : base[i] <= base[j]
        /\ CallsNest(base)
  BY DEF AtPlace, Nests
<1> DEFINE s == Around(prog, pc)
           b == base[stackDepth]
<1>2. b \in Nat /\ Len(open) = b + Len(s) /\ \A i \in 1..Len(s) : open[b + i] = s[i]
  BY <1>1, Below DEF AtPlace
<1>3. s \in Seq(Ends) /\ open \in Seq(Ends)
  BY AroundHere DEF AtPlace
<1> HIDE DEF b
<1> QED
  BY <1>2, <1>3, LastPartPop

LEMMA NestsEnd ==
  ASSUME AtPlace, UNCHANGED <<prog, callStack, leftover, stackDepth>>,
         Around(prog, pc) # <<>>, open' = Pop(open),
         Around(prog, pc') = Pop(Around(prog, pc))
  PROVE  Nests'
<1>1. PICK base \in [0..stackDepth -> Nat] :
        /\ \A j \in 0..stackDepth : \A i \in 0..j : base[i] <= base[j]
        /\ CallsNest(base)
  BY DEF AtPlace, Nests
<1> DEFINE s == Around(prog, pc)
           b == base[stackDepth]
<1>2. b \in Nat /\ Len(open) = b + Len(s) /\ \A i \in 1..Len(s) : open[b + i] = s[i]
  BY <1>1, Below DEF AtPlace
<1>3. s \in Seq(Ends) /\ open \in Seq(Ends) /\ s # <<>>
  BY AroundHere DEF AtPlace
<1>4. /\ Len(Pop(open)) = b + Len(Pop(s))
      /\ \A i \in DOMAIN Pop(s) : Pop(open)[b + i] = Pop(s)[i]
      /\ \A i \in 1..b : Pop(open)[i] = open[i]
  <2> HIDE DEF s, b
  <2> QED
    BY <1>2, <1>3, LastPartPop
<1>5. Spans(base[stackDepth], Len(open), Around(prog, pc))'
  <2>1. Around(prog, pc)' = Pop(s)
    BY DEF Around
  <2> QED
    BY <2>1, <1>4 DEF Spans
<1> QED
  BY <1>1, <1>4, <1>5, NestsMove DEF AtPlace

(* A call remembers how much is open now. *)
LEMMA NestsCall ==
  ASSUME AtPlace, UNCHANGED <<prog, leftover, open>>,
         leftover.calls \in Nat, callStack \in Seq(Nat),
         Len(callStack) = leftover.calls + stackDepth,
         NEW back \in Places(prog), back \in Nat,
         callStack' = Append(callStack, back), stackDepth' = stackDepth + 1,
         back \in Main <=> stackDepth = 0,
         Op(prog, back) \notin ArmKnown \cup {"ARRAY_ELEM_BEGIN"}, ~ LoopTest(prog, back),
         Around(prog, back) = Around(prog, pc), Around(prog, pc') = <<>>
  PROVE  Nests'
<1>1. PICK base \in [0..stackDepth -> Nat] :
        /\ \A j \in 0..stackDepth : \A i \in 0..j : base[i] <= base[j]
        /\ CallsNest(base)
  BY DEF AtPlace, Nests
<1>d. PICK deeper : deeper = [k \in 0..(stackDepth + 1) |->
                               IF k <= stackDepth THEN base[k] ELSE Len(open)]
  OBVIOUS
<1>s. PICK s : s = Around(prog, pc)
  OBVIOUS
<1>2. /\ stackDepth \in Nat /\ open \in Seq(Ends) /\ Len(open) \in Nat /\ s \in Seq(Ends)
      /\ Len(s) \in Nat /\ DOMAIN s = 1..Len(s)
  BY <1>s, AroundHere DEF AtPlace
<1>3. /\ base[stackDepth] \in Nat
      /\ Len(open) = base[stackDepth] + Len(s)
      /\ \A i \in 1..Len(s) : open[base[stackDepth] + i] = s[i]
  BY <1>1, <1>s, Below DEF AtPlace
<1>4. /\ deeper \in [0..(stackDepth + 1) -> Nat]
      /\ \A k \in 0..stackDepth : deeper[k] = base[k]
      /\ deeper[stackDepth + 1] = Len(open)
  BY <1>2, <1>d
<1>5. ASSUME NEW j \in 0..(stackDepth + 1), NEW i \in 0..j
      PROVE  deeper[i] <= deeper[j]
  <2>1. \A k \in 0..stackDepth : base[k] \in Nat /\ base[k] <= base[stackDepth]
    BY <1>1, <1>2
  <2>2. CASE j \in 0..stackDepth
    <3>1. i \in 0..stackDepth
      BY <1>2, <2>2
    <3>2. base[i] <= base[j]
      BY <1>1, <2>2
    <3> QED
      BY <1>4, <2>2, <3>1, <3>2
  <2>3. CASE j = stackDepth + 1 /\ i \in 0..stackDepth
    BY <1>2, <1>3, <1>4, <2>1, <2>3
  <2>4. CASE j = stackDepth + 1 /\ i = stackDepth + 1
    BY <1>2, <1>4, <2>4
  <2> QED
    BY <1>2, <2>2, <2>3, <2>4
<1>6. /\ \A k \in 1..stackDepth : ReturnOf(k)' = ReturnOf(k)
      /\ \A k : k = stackDepth + 1 => ReturnOf(k)' = back
  <2>1. /\ \A n \in 1..Len(callStack) : Append(callStack, back)[n] = callStack[n]
        /\ Append(callStack, back)[Len(callStack) + 1] = back
    OBVIOUS
  <2>2. /\ \A k \in 1..stackDepth : leftover.calls + k \in 1..Len(callStack)
        /\ leftover.calls + (stackDepth + 1) = Len(callStack) + 1
    <3>1. \A c, d \in Nat : /\ \A k \in 1..d : c + k \in 1..(c + d)
                            /\ c + (d + 1) = (c + d) + 1
      OBVIOUS
    <3> QED
      BY <1>2, <3>1
  <2>3. \A k : ReturnOf(k)' = Append(callStack, back)[leftover.calls + k]
    BY DEF ReturnOf
  <2> QED
    BY <2>1, <2>2, <2>3 DEF ReturnOf
<1>7. ASSUME NEW k \in 1..(stackDepth + 1)
      PROVE  /\ ReturnOf(k)' \in Places(prog)
             /\ ReturnOf(k)' \in Main <=> k = 1
             /\ Op(prog, ReturnOf(k)') \notin ArmKnown \cup {"ARRAY_ELEM_BEGIN"}
             /\ ~ LoopTest(prog, ReturnOf(k)')
             /\ Spans(deeper[k - 1], deeper[k], Around(prog, ReturnOf(k)'))
  <2>1. CASE k \in 1..stackDepth
    <3>1. deeper[k] = base[k] /\ deeper[k - 1] = base[k - 1]
      BY <1>2, <1>4, <2>1
    <3> QED
      BY <1>1, <1>6, <2>1, <3>1 DEF CallsNest
  <2>2. CASE k = stackDepth + 1
    <3>1. deeper[k] = Len(open) /\ deeper[k - 1] = base[stackDepth]
      BY <1>2, <1>4, <2>2
    <3>2. Spans(deeper[k - 1], deeper[k], s)
      BY <1>2, <1>3, <3>1 DEF Spans
    <3>3. ReturnOf(k)' = back /\ Around(prog, back) = s
      BY <1>6, <1>s, <2>2
    <3>4. k = 1 <=> stackDepth = 0
      BY <1>2, <2>2
    <3> QED
      BY <3>2, <3>3, <3>4
  <2> QED
    BY <1>2, <2>1, <2>2
<1>8. \A from, to, t : Spans(from, to, t)' <=> Spans(from, to, t)
  BY DEF Spans
<1>9. Spans(deeper[stackDepth + 1], Len(open), <<>>)
  BY <1>2, <1>4 DEF Spans
<1>10. deeper[0] = 0
  BY <1>1, <1>2, <1>4 DEF CallsNest
<1>11. CallsNest(deeper)'
  <2>1. Spans(deeper[stackDepth], Len(open), Around(prog, pc))'
    BY <1>8, <1>9 DEF Around
  <2> QED
    BY <1>7, <1>8, <1>10, <2>1 DEF CallsNest, LoopTest, Op, Code, Places, Within, Around
<1> QED
  BY <1>4, <1>5, <1>11 DEF Nests

(* A return has nothing open, and goes on where the caller left off. *)
LEMMA NestsReturn ==
  ASSUME AtPlace, UNCHANGED <<prog, leftover, open>>,
         leftover.calls \in Nat, callStack \in Seq(Nat), stackDepth # 0,
         Len(callStack) = leftover.calls + stackDepth,
         callStack' = Pop(callStack), stackDepth' = stackDepth - 1,
         Around(prog, pc) = <<>>, pc' = Top(callStack)
  PROVE  /\ Nests'
         /\ pc' \in Places(prog)
         /\ pc' \in Main <=> stackDepth = 1
         /\ Op(prog, pc') \notin ArmKnown \cup {"ARRAY_ELEM_BEGIN"}
         /\ ~ LoopTest(prog, pc')
<1>1. PICK base \in [0..stackDepth -> Nat] :
        /\ \A j \in 0..stackDepth : \A i \in 0..j : base[i] <= base[j]
        /\ CallsNest(base)
  BY DEF AtPlace, Nests
<1>d. PICK above : above = [k \in 0..(stackDepth - 1) |-> base[k]]
  OBVIOUS
<1>2. stackDepth \in Nat \ {0} /\ open \in Seq(Ends) /\ Len(open) \in Nat
  BY DEF AtPlace
<1>3. Len(open) = base[stackDepth]
  <2>1. /\ base[stackDepth] \in Nat
        /\ Len(open) = base[stackDepth] + Len(Around(prog, pc))
    BY <1>1, Below DEF AtPlace
  <2>2. Len(Around(prog, pc)) = 0
    OBVIOUS
  <2> QED
    BY <2>1, <2>2
<1>4. /\ above \in [0..(stackDepth - 1) -> Nat]
      /\ \A k \in 0..(stackDepth - 1) : above[k] = base[k]
  BY <1>2, <1>d
<1>5. \A j \in 0..(stackDepth - 1) : \A i \in 0..j : above[i] <= above[j]
  BY <1>1, <1>2, <1>4
<1>6. /\ \A k \in 1..(stackDepth - 1) : ReturnOf(k)' = ReturnOf(k)
      /\ pc' = ReturnOf(stackDepth)
  <2>1. Len(callStack) \in Nat /\ Len(callStack) = leftover.calls + stackDepth
    OBVIOUS
  <2>2. \A n \in 1..(Len(callStack) - 1) : Pop(callStack)[n] = callStack[n]
    BY <2>1 DEF Pop
  <2>3. \A k \in 1..(stackDepth - 1) : leftover.calls + k \in 1..(Len(callStack) - 1)
    <3>1. \A c, d \in Nat : \A k \in 1..(d - 1) : c + k \in 1..((c + d) - 1)
      OBVIOUS
    <3> QED
      BY <1>2, <3>1
  <2>4. \A k : ReturnOf(k)' = Pop(callStack)[leftover.calls + k]
    BY DEF ReturnOf
  <2> QED
    BY <2>1, <2>2, <2>3, <2>4 DEF ReturnOf, Top
<1>7. /\ pc' \in Places(prog)
      /\ pc' \in Main <=> stackDepth = 1
      /\ Op(prog, pc') \notin ArmKnown \cup {"ARRAY_ELEM_BEGIN"} /\ ~ LoopTest(prog, pc')
      /\ Spans(base[stackDepth - 1], base[stackDepth], Around(prog, pc'))
  <2>1. stackDepth \in 1..stackDepth
    BY <1>2
  <2> QED
    BY <1>1, <1>6, <2>1 DEF CallsNest
<1>8. \A from, to, t : Spans(from, to, t)' <=> Spans(from, to, t)
  BY DEF Spans
<1>9. ASSUME NEW k \in 1..(stackDepth - 1)
      PROVE  /\ ReturnOf(k)' \in Places(prog)
             /\ ReturnOf(k)' \in Main <=> k = 1
             /\ Op(prog, ReturnOf(k)') \notin ArmKnown \cup {"ARRAY_ELEM_BEGIN"}
             /\ ~ LoopTest(prog, ReturnOf(k)')
             /\ Spans(above[k - 1], above[k], Around(prog, ReturnOf(k)'))
  <2>1. k \in 1..stackDepth /\ above[k] = base[k] /\ above[k - 1] = base[k - 1]
    BY <1>2, <1>4
  <2> QED
    BY <1>1, <1>6, <2>1 DEF CallsNest
<1>10. above[0] = 0 /\ above[stackDepth - 1] = base[stackDepth - 1]
  BY <1>1, <1>2, <1>4 DEF CallsNest
<1>11. Spans(above[stackDepth - 1], Len(open), Around(prog, pc'))
  BY <1>3, <1>7, <1>10
<1>12. CallsNest(above)'
  <2>1. Spans(above[stackDepth], Len(open), Around(prog, pc))'
    BY <1>8, <1>11 DEF Around
  <2> QED
    BY <1>8, <1>9, <1>10, <2>1 DEF CallsNest, LoopTest, Op, Code, Places, Within, Around
<1> QED
  BY <1>4, <1>5, <1>7, <1>12 DEF Nests

-----------------------------------------------------------------------------
(* The inductive invariant. *)
IInv ==
  /\ WellNested(prog)
  /\ TypeOK
  /\ FramesMatch
  /\ EndsClean
  /\ ProgramsRun
  /\ (running /\ code # <<>>) => error = "Ok" /\ InStep /\ Nests

(* What it says of the place of an instruction. *)
LEMMA Fetched ==
  ASSUME IInv, Fetches
  PROVE  /\ AtPlace /\ InStep /\ running /\ code # <<>> /\ error = "Ok" /\ TypeOK
         /\ instr.op = Op(prog, pc) /\ instr.imm = Imm(prog, pc)
         /\ MainNested(prog) /\ EntriesNested(prog)
         /\ pc \notin Main => InPlace(prog, pc) /\ LeadsOn(prog, pc) /\ stackDepth # 0
         /\ Direction[prog] \in BOOLEAN /\ Len(entries) < U32
<1>1. running /\ pc < Len(code) /\ TypeOK /\ WellNested(prog)
  BY DEF IInv, Fetches
<1>2. pc \in Nat /\ stackDepth \in Nat /\ open \in Seq(Ends)
  BY <1>1 DEF TypeOK
<1>3. code # <<>>
  BY <1>1, <1>2
<1>4. error = "Ok" /\ InStep /\ Nests
  BY <1>1, <1>3 DEF IInv
<1>5. AtPlace
  BY <1>1, <1>2, <1>3, <1>4 DEF AtPlace, InStep
<1>6. MainNested(prog) /\ EntriesNested(prog) /\ Direction[prog] \in BOOLEAN /\ Len(entries) < U32
  BY <1>1, <1>3 DEF WellNested, code, Code, entries
<1>7. pc \notin Main => InPlace(prog, pc) /\ LeadsOn(prog, pc) /\ stackDepth # 0
  BY <1>1, <1>4 DEF WellNested, InStep
<1>8. instr.op = Op(prog, pc) /\ instr.imm = Imm(prog, pc)
  BY DEF instr, code, Code, Op, Imm
<1> QED
  BY <1>1, <1>3, <1>4, <1>5, <1>6, <1>7, <1>8

(* The adapters are asked. *)
LEMMA Proceeds ==
  ASSUME IInv, Fetches, NEW next \in Nat, NEW status \in Statuses, Proceed(next, status),
         UNCHANGED <<prog, encodeMode, runs>>
  PROVE  /\ pc' \in Nat /\ running' \in BOOLEAN /\ error' \in Errors
         /\ EndsClean' /\ ProgramsRun'
         /\ running' => pc' = next /\ error' = "Ok"
<1>1. running /\ error = "Ok" /\ pc \in Nat
  BY Fetched DEF TypeOK
<1>2. CASE status = "Ok"
  <2>1. pc' = next /\ error' = "Ok" /\ running'
    BY <1>1, <1>2 DEF Proceed
  <2> QED
    BY <2>1, <1>1 DEF EndsClean, ProgramsRun, Errors
<1>3. CASE status # "Ok"
  <2>1. pc' = pc /\ error' = status /\ running' = FALSE
    BY <1>3 DEF Proceed
  <2>2. status \in {"ObjectError", "CodecError"}
    BY <1>3 DEF Statuses
  <2> QED
    BY <2>1, <2>2, <1>1 DEF EndsClean, ProgramsRun, Errors, Statuses
<1> QED
  BY <1>2, <1>3

(* A step within a routine: the program and the machine stay in step, if   *)
(* the step does to the registers what the place it leads to relies on.    *)
LEMMA Moves ==
  ASSUME IInv, Fetches, pc \notin Main, NEW next \in Successors(prog, pc),
         NEW status \in Statuses, Proceed(next, status),
         UNCHANGED <<prog, encodeMode, callStack, stackDepth, leftover, runs>>,
         \/ reg' = reg /\ ~ (encodeMode = Direction[prog] /\ instr.op \in Readers(encodeMode))
         \/ reg' \in 0..(U32 - 1)
         \/ encodeMode = Direction[prog] /\ instr.op \in {"O_READ_SCALAR", "C_READ_SCALAR"},
         instr.op = "ARRAY_NEXT" /\ flag' = 1 => AtElement',
         instr.op = "JZ" => UNCHANGED arrayStack /\ (next # pc + instr.imm => flag = 1),
         \/ instr.op \in Begins /\ open' = Append(open, Ending[instr.op])
         \/ instr.op \in Ends /\ open' = Pop(open)
         \/ instr.op \notin Begins \cup Ends /\ open' = open
  PROVE  /\ pc' \in Nat /\ running' \in BOOLEAN /\ error' \in Errors
         /\ EndsClean' /\ ProgramsRun'
         /\ running' /\ code' # <<>> => error' = "Ok" /\ InStep' /\ Nests'
<1> DEFINE op == Op(prog, pc)
<1>1. /\ AtPlace /\ InStep /\ InPlace(prog, pc) /\ LeadsOn(prog, pc) /\ stackDepth # 0
      /\ instr.op = op /\ instr.imm = Imm(prog, pc) /\ TypeOK /\ Direction[prog] \in BOOLEAN
  BY Fetched
<1>2. /\ next \in Places(prog) \ Main
      /\ Around(prog, next) = After(prog, pc)
      /\ Op(prog, next) \in ArmKnown =>
           \/ op \in Readers(Direction[prog]) \ {"O_READ_SCALAR", "C_READ_SCALAR"}
           \/ op \in ArmKnown \ {"DISPATCH"}
      /\ Op(prog, next) = "ARRAY_ELEM_BEGIN" => LoopTest(prog, pc) /\ next # pc + Imm(prog, pc)
      /\ LoopTest(prog, next) => op = "ARRAY_NEXT"
  BY <1>1 DEF LeadsOn
<1>3. next \in Nat
  BY <1>2 DEF Places
<1>4. /\ pc' \in Nat /\ running' \in BOOLEAN /\ error' \in Errors
      /\ EndsClean' /\ ProgramsRun'
      /\ running' => pc' = next /\ error' = "Ok"
  BY <1>3, Proceeds
<1> SUFFICES ASSUME running' PROVE InStep' /\ Nests'
  BY <1>4
<1>5. pc' = next
  BY <1>4
<1>6. Nests'
  <2>1. CASE op \in Begins
    <3>1. open' = Append(open, Ending[op]) /\ Ending[op] \in Ends /\ op \notin Ends
      BY <1>1, <2>1 DEF Begins, Ends, Ending
    <3>2. Around(prog, pc') = Append(Around(prog, pc), Ending[op])
      BY <1>2, <1>5, <2>1, <3>1 DEF After
    <3> HIDE DEF op
    <3> QED
      BY <1>1, <3>1, <3>2, NestsBegin
  <2>2. CASE op \in Ends
    <3>1. open' = Pop(open) /\ op \notin Begins
      BY <1>1, <2>2 DEF Begins, Ends, Ending
    <3>2. Around(prog, pc') = Pop(Around(prog, pc)) /\ Around(prog, pc) # <<>>
      BY <1>1, <1>2, <1>5, <2>2, <3>1 DEF After, InPlace, Within
    <3> QED
      BY <1>1, <3>1, <3>2, NestsEnd
  <2>3. CASE op \notin Begins \cup Ends
    <3>1. open' = open
      BY <1>1, <2>3
    <3>2. Around(prog, pc') = Around(prog, pc)
      BY <1>2, <1>5, <2>3 DEF After
    <3> QED
      BY <1>1, <3>1, <3>2, NestsStay
  <2> QED
    BY <2>1, <2>2, <2>3
<1>7. ASSUME Op(prog, next) \in ArmKnown \/ encodeMode # Direction[prog]
      PROVE  reg' < U32
  <2>1. CASE reg' \in 0..(U32 - 1)
    BY <2>1, VMAssumption
  <2>2. CASE reg' = reg /\ ~ (encodeMode = Direction[prog] /\ instr.op \in Readers(encodeMode))
    <3>1. op \in ArmKnown \/ encodeMode # Direction[prog]
      BY <1>1, <1>2, <1>7, <2>2
    <3> QED
      BY <1>1, <2>2, <3>1 DEF InStep
  <2>3. CASE encodeMode = Direction[prog] /\ instr.op \in {"O_READ_SCALAR", "C_READ_SCALAR"}
    BY <1>1, <1>2, <1>7, <2>3 DEF ArmKnown
  <2> QED
    BY <2>1, <2>2, <2>3
<1>8. ASSUME LoopTest(prog, next), flag' = 1
      PROVE  AtElement'
  BY <1>1, <1>2, <1>8
<1>9. ASSUME Op(prog, next) = "ARRAY_ELEM_BEGIN"
      PROVE  AtElement'
  <2>1. LoopTest(prog, pc) /\ next # pc + Imm(prog, pc) /\ op = "JZ"
    BY <1>2, <1>9 DEF LoopTest
  <2>2. UNCHANGED arrayStack /\ flag = 1
    BY <1>1, <2>1
  <2> QED
    BY <1>1, <2>1, <2>2 DEF InStep, AtElement
<1>10. InStep'
  BY <1>1, <1>2, <1>5, <1>7, <1>8, <1>9 DEF InStep, LoopTest, Op, Code, Places, Within, Around
<1> QED
  BY <1>6, <1>10

(* Main has two instructions only, and most instructions go on behind.     *)
LEMMA InRoutine ==
  ASSUME IInv, Fetches, instr.op \notin {"CALL_TYPE_INDIRECT", "HALT"}
  PROVE  /\ pc \notin Main
         /\ instr.op \notin {"JMP", "JZ", "DISPATCH", "RET"} => pc + 1 \in Successors(prog, pc)
<1>1. MainNested(prog) /\ instr.op = Op(prog, pc)
  BY Fetched
<1>2. pc \notin Main
  BY <1>1 DEF MainNested, Main
<1>3. instr.op \notin {"JMP", "JZ", "DISPATCH", "RET"} => pc + 1 \in Successors(prog, pc)
  BY <1>1 DEF Successors
<1> QED
  BY <1>2, <1>3

(* How frames follow what is open. *)
LEMMA FramesOpen ==
  /\ FramesMatch <=>
       /\ Len(arrayStack)    = leftover.arrays    + Count(open, "ARRAY_END")
       /\ Len(optionalStack) = leftover.optionals + Count(open, "OPT_END")
       /\ Len(oneofStack)    = leftover.oneofs    + Count(open, "ONEOF_END")
       /\ Len(callStack)     = leftover.calls     + stackDepth
  /\ FramesMatch' <=>
       /\ Len(arrayStack')    = leftover'.arrays    + Count(open', "ARRAY_END")
       /\ Len(optionalStack') = leftover'.optionals + Count(open', "OPT_END")
       /\ Len(oneofStack')    = leftover'.oneofs    + Count(open', "ONEOF_END")
       /\ Len(callStack')     = leftover'.calls     + stackDepth'
BY DEF FramesMatch, OpenOf, Count

LEMMA EnterKeeps ==
  ASSUME IInv, NEW status \in Statuses, Enter(status)
  PROVE  IInv'
<1> DEFINE e == Ending[instr.op]
<1>1. /\ Fetches /\ instr.op \in Begins /\ open' = Append(open, e)
      /\ Proceed(pc + 1, status)
      /\ UNCHANGED <<prog, encodeMode, runs, reg, flag, leftover, callStack, stackDepth>>
  BY DEF Enter, At, Begin, Begins, Ending, registers, stacks
<1>2. /\ TypeOK /\ FramesMatch /\ WellNested(prog) /\ pc \notin Main /\ InPlace(prog, pc)
      /\ pc + 1 \in Successors(prog, pc) /\ instr.op = Op(prog, pc) /\ instr.imm = Imm(prog, pc)
      /\ Direction[prog] \in BOOLEAN
  BY <1>1, Fetched, InRoutine DEF IInv, Begins, Ending
<1>3. /\ instr.op \notin Readers(encodeMode)
      /\ instr.op # "ARRAY_NEXT" /\ instr.op # "JZ"
  BY <1>1 DEF Readers, Begins, Ending
<1>4. /\ pc' \in Nat /\ running' \in BOOLEAN /\ error' \in Errors
      /\ EndsClean' /\ ProgramsRun'
      /\ running' /\ code' # <<>> => error' = "Ok" /\ InStep' /\ Nests'
  BY <1>1, <1>2, <1>3, Moves
<1>5. open \in Seq(Ends) /\ e \in Ends
  BY <1>1, <1>2 DEF TypeOK, Begins, Ends
<1>6. \A end : /\ Count(open, end) \in Nat /\ Count(open', end) \in Nat
               /\ Count(open', end) = Count(open, end) + (IF e = end THEN 1 ELSE 0)
  <2> HIDE DEF e
  <2> QED
    BY <1>1, <1>5, CountAppend
<1>7. /\ arrayStack' \in Seq([len : 0..(U32 - 1), idx : 0..(U32 - 1)])
      /\ optionalStack' \in Seq({0}) /\ oneofStack' \in Seq(Nat)
      /\ Len(arrayStack')    = Len(arrayStack)    + (IF e = "ARRAY_END" THEN 1 ELSE 0)
      /\ Len(optionalStack') = Len(optionalStack) + (IF e = "OPT_END" THEN 1 ELSE 0)
      /\ Len(oneofStack')    = Len(oneofStack)    + (IF e = "ONEOF_END" THEN 1 ELSE 0)
  <2>1. CASE instr.op \in {"MSG_BEGIN", "FIELD_BEGIN", "OPT_BEGIN_VALUE", "ONEOF_ARM_BEGIN",
                           "ARRAY_ELEM_BEGIN"}
    <3>1. e \notin {"ARRAY_END", "OPT_END", "ONEOF_END"}
      BY <2>1 DEF Ending
    <3>2. UNCHANGED <<arrayStack, optionalStack, oneofStack>>
      BY <2>1 DEF Enter, At, stacks
    <3> HIDE DEF e
    <3> QED
      BY <1>2, <3>1, <3>2 DEF TypeOK
  <2>2. CASE instr.op = "OPT_BEGIN"
    <3>1. e = "OPT_END"
      BY <2>2 DEF Ending
    <3>2. UNCHANGED <<arrayStack, oneofStack>> /\ optionalStack' = Append(optionalStack, 0)
      BY <2>2 DEF Enter, At
    <3> HIDE DEF e
    <3> QED
      BY <1>2, <3>1, <3>2 DEF TypeOK
  <2>3. CASE instr.op = "ONEOF_BEGIN"
    <3>1. e = "ONEOF_END"
      BY <2>3 DEF Ending
    <3>2. UNCHANGED <<arrayStack, optionalStack>> /\ oneofStack' = Append(oneofStack, instr.imm)
      BY <2>3 DEF Enter, At
    <3>3. instr.imm \in Nat
      BY <1>2, <2>3 DEF InPlace
    <3> HIDE DEF e
    <3> QED
      BY <1>2, <3>1, <3>2, <3>3 DEF TypeOK
  <2>4. CASE instr.op = "ARRAY_BEGIN"
    <3>1. e = "ARRAY_END"
      BY <2>4 DEF Ending
    <3>2. /\ UNCHANGED <<optionalStack, oneofStack>>
          /\ arrayStack' = Append(arrayStack, [len |-> 0, idx |-> U32 - 1])
      BY <2>4 DEF Enter, At
    <3>3. [len |-> 0, idx |-> U32 - 1] \in [len : 0..(U32 - 1), idx : 0..(U32 - 1)]
      BY VMAssumption
    <3> HIDE DEF e
    <3> QED
      BY <1>2, <3>1, <3>2, <3>3 DEF TypeOK
  <2> QED
    BY <1>1, <2>1, <2>2, <2>3, <2>4 DEF Begins, Ending
<1>8. TypeOK'
  BY <1>1, <1>2, <1>4, <1>5, <1>7 DEF TypeOK
<1>9. FramesMatch'
  <2> HIDE DEF e
  <2>1. /\ Len(arrayStack) \in Nat /\ Len(optionalStack) \in Nat /\ Len(oneofStack) \in Nat
        /\ leftover.arrays \in Nat /\ leftover.optionals \in Nat /\ leftover.oneofs \in Nat
    BY <1>2 DEF TypeOK
  <2>2. /\ Len(arrayStack)    = leftover.arrays    + Count(open, "ARRAY_END")
        /\ Len(optionalStack) = leftover.optionals + Count(open, "OPT_END")
        /\ Len(oneofStack)    = leftover.oneofs    + Count(open, "ONEOF_END")
        /\ Len(callStack)     = leftover.calls     + stackDepth
    BY <1>2, FramesOpen
  <2>3. Len(arrayStack') = leftover.arrays + Count(open', "ARRAY_END")
    <3>1. PICK d \in Nat : d = (IF e = "ARRAY_END" THEN 1 ELSE 0)
      OBVIOUS
    <3>2. /\ Count(open, "ARRAY_END") \in Nat /\ Count(open', "ARRAY_END") \in Nat
          /\ Count(open', "ARRAY_END") = Count(open, "ARRAY_END") + d
      BY <1>6, <3>1
    <3>3. Len(arrayStack') \in Nat /\ Len(arrayStack') = Len(arrayStack) + d
      BY <1>7, <3>1
    <3>4. \A l, c \in Nat : (l + c) + d = l + (c + d)
      OBVIOUS
    <3> QED
      BY <2>1, <2>2, <3>2, <3>3, <3>4
  <2>4. Len(optionalStack') = leftover.optionals + Count(open', "OPT_END")
    <3>1. PICK d \in Nat : d = (IF e = "OPT_END" THEN 1 ELSE 0)
      OBVIOUS
    <3>2. /\ Count(open, "OPT_END") \in Nat /\ Count(open', "OPT_END") \in Nat
          /\ Count(open', "OPT_END") = Count(open, "OPT_END") + d
      BY <1>6, <3>1
    <3>3. Len(optionalStack') \in Nat /\ Len(optionalStack') = Len(optionalStack) + d
      BY <1>7, <3>1
    <3>4. \A l, c \in Nat : (l + c) + d = l + (c + d)
      OBVIOUS
    <3> QED
      BY <2>1, <2>2, <3>2, <3>3, <3>4
  <2>5. Len(oneofStack') = leftover.oneofs + Count(open', "ONEOF_END")
    <3>1. PICK d \in Nat : d = (IF e = "ONEOF_END" THEN 1 ELSE 0)
      OBVIOUS
    <3>2. /\ Count(open, "ONEOF_END") \in Nat /\ Count(open', "ONEOF_END") \in Nat
          /\ Count(open', "ONEOF_END") = Count(open, "ONEOF_END") + d
      BY <1>6, <3>1
    <3>3. Len(oneofStack') \in Nat /\ Len(oneofStack') = Len(oneofStack) + d
      BY <1>7, <3>1
    <3>4. \A l, c \in Nat : (l + c) + d = l + (c + d)
      OBVIOUS
    <3> QED
      BY <2>1, <2>2, <3>2, <3>3, <3>4
  <2> QED
    BY <1>1, <2>2, <2>3, <2>4, <2>5, FramesOpen
<1> QED
  BY <1>1, <1>2, <1>4, <1>8, <1>9 DEF IInv

LEMMA ExitKeeps ==
  ASSUME IInv, NEW status \in Statuses, Exit(status)
  PROVE  IInv'
<1> DEFINE e == instr.op
<1>1. /\ Fetches /\ instr.op \in Ends /\ open' = Pop(open)
      /\ Proceed(pc + 1, status)
      /\ UNCHANGED <<prog, encodeMode, runs, reg, flag, leftover, callStack, stackDepth>>
  BY DEF Exit, At, End, Ends, Begins, Ending, registers, stacks
<1>2. instr.op \notin {"CALL_TYPE_INDIRECT", "HALT", "JMP", "JZ", "DISPATCH", "RET", "ARRAY_NEXT"}
  BY <1>1 DEF Ends, Begins, Ending
<1>3. /\ TypeOK /\ FramesMatch /\ WellNested(prog) /\ pc \notin Main /\ InPlace(prog, pc)
      /\ pc + 1 \in Successors(prog, pc) /\ instr.op = Op(prog, pc) /\ AtPlace
      /\ Direction[prog] \in BOOLEAN
  BY <1>1, <1>2, Fetched, InRoutine DEF IInv
<1>4. instr.op \notin Readers(encodeMode)
  BY <1>1 DEF Readers, Ends, Begins, Ending
<1>5. /\ pc' \in Nat /\ running' \in BOOLEAN /\ error' \in Errors
      /\ EndsClean' /\ ProgramsRun'
      /\ running' /\ code' # <<>> => error' = "Ok" /\ InStep' /\ Nests'
  BY <1>1, <1>2, <1>3, <1>4, Moves
<1>6. open \in Seq(Ends) /\ open # <<>> /\ Top(open) = e
  <2>1. Within(prog, pc, e)
    BY <1>1, <1>3 DEF InPlace
  <2> QED
    BY <1>3, <2>1, TopHere DEF Within, TypeOK
<1>7. /\ open' \in Seq(Ends)
      /\ \A end : /\ Count(open, end) \in Nat /\ Count(open', end) \in Nat
                  /\ Count(open, end) = Count(open', end) + (IF e = end THEN 1 ELSE 0)
  <2> HIDE DEF e
  <2>1. \A end : Count(open', end) \in Nat
    BY <1>1, <1>6, CountPop
  <2>2. \A end : Count(open, end) = Count(open', end) + (IF e = end THEN 1 ELSE 0)
    BY <1>1, <1>6, CountPop
  <2>3. \A end : Count(open, end) \in Nat
    BY <2>1, <2>2
  <2>4. open' \in Seq(Ends)
    BY <1>1, <1>6, CountPop
  <2> QED
    BY <2>1, <2>2, <2>3, <2>4
<1>8. /\ arrayStack' \in Seq([len : 0..(U32 - 1), idx : 0..(U32 - 1)])
      /\ optionalStack' \in Seq({0}) /\ oneofStack' \in Seq(Nat)
      /\ Len(arrayStack)    = Len(arrayStack')    + (IF e = "ARRAY_END" THEN 1 ELSE 0)
      /\ Len(optionalStack) = Len(optionalStack') + (IF e = "OPT_END" THEN 1 ELSE 0)
      /\ Len(oneofStack)    = Len(oneofStack')    + (IF e = "ONEOF_END" THEN 1 ELSE 0)
  <2>0. /\ arrayStack \in Seq([len : 0..(U32 - 1), idx : 0..(U32 - 1)])
        /\ optionalStack \in Seq({0}) /\ oneofStack \in Seq(Nat)
    BY <1>3 DEF TypeOK
  <2>1. CASE e \in {"MSG_END", "FIELD_END", "OPT_END_VALUE", "ONEOF_ARM_END", "ARRAY_ELEM_END"}
    <3>1. UNCHANGED <<arrayStack, optionalStack, oneofStack>>
      BY <2>1 DEF Exit, At, stacks
    <3> QED
      BY <2>0, <2>1, <3>1
  <2>2. CASE e = "OPT_END"
    <3>1. /\ UNCHANGED <<arrayStack, oneofStack>>
          /\ optionalStack # <<>> /\ optionalStack' = Pop(optionalStack)
      BY <2>2 DEF Exit, At
    <3> QED
      BY <2>0, <2>2, <3>1, PopType
  <2>3. CASE e = "ONEOF_END"
    <3>1. /\ UNCHANGED <<arrayStack, optionalStack>>
          /\ oneofStack # <<>> /\ oneofStack' = Pop(oneofStack)
      BY <2>3 DEF Exit, At
    <3> QED
      BY <2>0, <2>3, <3>1, PopType
  <2>4. CASE e = "ARRAY_END"
    <3>1. /\ UNCHANGED <<optionalStack, oneofStack>>
          /\ arrayStack # <<>> /\ arrayStack' = Pop(arrayStack)
      BY <2>4 DEF Exit, At
    <3> QED
      BY <2>0, <2>4, <3>1, PopType
  <2> QED
    BY <1>1, <2>1, <2>2, <2>3, <2>4 DEF Ends, Begins, Ending
<1>9. TypeOK'
  BY <1>1, <1>3, <1>5, <1>7, <1>8 DEF TypeOK
<1>10. FramesMatch'
  <2> HIDE DEF e
  <2>1. /\ Len(arrayStack) \in Nat /\ Len(optionalStack) \in Nat /\ Len(oneofStack) \in Nat
        /\ leftover.arrays \in Nat /\ leftover.optionals \in Nat /\ leftover.oneofs \in Nat
    BY <1>3 DEF TypeOK
  <2>2. /\ Len(arrayStack)    = leftover.arrays    + Count(open, "ARRAY_END")
        /\ Len(optionalStack) = leftover.optionals + Count(open, "OPT_END")
        /\ Len(oneofStack)    = leftover.oneofs    + Count(open, "ONEOF_END")
        /\ Len(callStack)     = leftover.calls     + stackDepth
    BY <1>3, FramesOpen
  <2>3. Len(arrayStack') = leftover.arrays + Count(open', "ARRAY_END")
    <3>1. PICK d \in Nat : d = (IF e = "ARRAY_END" THEN 1 ELSE 0)
      OBVIOUS
    <3>2. /\ Count(open, "ARRAY_END") \in Nat /\ Count(open', "ARRAY_END") \in Nat
          /\ Count(open, "ARRAY_END") = Count(open', "ARRAY_END") + d
      BY <1>7, <3>1
    <3>3. Len(arrayStack') \in Nat /\ Len(arrayStack) = Len(arrayStack') + d
      BY <1>8, <3>1
    <3>4. \A s, l, c \in Nat : s + d = l + (c + d) => s = l + c
      OBVIOUS
    <3>5. Len(arrayStack') + d = leftover.arrays + (Count(open', "ARRAY_END") + d)
      BY <2>2, <3>2, <3>3
    <3>6. leftover.arrays \in Nat /\ Count(open', "ARRAY_END") \in Nat /\ Len(arrayStack') \in Nat
      BY <2>1, <3>2, <3>3
    <3> QED
      BY <3>4, <3>5, <3>6
  <2>4. Len(optionalStack') = leftover.optionals + Count(open', "OPT_END")
    <3>1. PICK d \in Nat : d = (IF e = "OPT_END" THEN 1 ELSE 0)
      OBVIOUS
    <3>2. /\ Count(open, "OPT_END") \in Nat /\ Count(open', "OPT_END") \in Nat
          /\ Count(open, "OPT_END") = Count(open', "OPT_END") + d
      BY <1>7, <3>1
    <3>3. Len(optionalStack') \in Nat /\ Len(optionalStack) = Len(optionalStack') + d
      BY <1>8, <3>1
    <3>4. \A s, l, c \in Nat : s + d = l + (c + d) => s = l + c
      OBVIOUS
    <3>5. Len(optionalStack') + d = leftover.optionals + (Count(open', "OPT_END") + d)
      BY <2>2, <3>2, <3>3
    <3>6. leftover.optionals \in Nat /\ Count(open', "OPT_END") \in Nat /\ Len(optionalStack') \in Nat
      BY <2>1, <3>2, <3>3
    <3> QED
      BY <3>4, <3>5, <3>6
  <2>5. Len(oneofStack') = leftover.oneofs + Count(open', "ONEOF_END")
    <3>1. PICK d \in Nat : d = (IF e = "ONEOF_END" THEN 1 ELSE 0)
      OBVIOUS
    <3>2. /\ Count(open, "ONEOF_END") \in Nat /\ Count(open', "ONEOF_END") \in Nat
          /\ Count(open, "ONEOF_END") = Count(open', "ONEOF_END") + d
      BY <1>7, <3>1
    <3>3. Len(oneofStack') \in Nat /\ Len(oneofStack) = Len(oneofStack') + d
      BY <1>8, <3>1
    <3>4. \A s, l, c \in Nat : s + d = l + (c + d) => s = l + c
      OBVIOUS
    <3>5. Len(oneofStack') + d = leftover.oneofs + (Count(open', "ONEOF_END") + d)
      BY <2>2, <3>2, <3>3
    <3>6. leftover.oneofs \in Nat /\ Count(open', "ONEOF_END") \in Nat /\ Len(oneofStack') \in Nat
      BY <2>1, <3>2, <3>3
    <3> QED
      BY <3>4, <3>5, <3>6
  <2> QED
    BY <1>1, <2>2, <2>3, <2>4, <2>5, FramesOpen
<1> QED
  BY <1>1, <1>3, <1>5, <1>9, <1>10 DEF IInv

(* An instruction that neither begins nor ends anything, and goes on       *)
(* behind: what is left to say is what it does to the registers and to the *)
(* innermost array.                                                        *)
LEMMA LocalKeeps ==
  ASSUME IInv, Fetches, NEW status \in Statuses, Proceed(pc + 1, status),
         instr.op \notin Begins \cup Ends \cup {"CALL_TYPE_INDIRECT", "HALT", "JMP", "JZ",
                                               "DISPATCH", "RET"},
         UNCHANGED <<prog, encodeMode, callStack, stackDepth, optionalStack, oneofStack, open,
                     leftover, runs>>,
         flag' \in {0, 1}, reg' \in 0..(U64 - 1),
         arrayStack' \in Seq([len : 0..(U32 - 1), idx : 0..(U32 - 1)]),
         Len(arrayStack') = Len(arrayStack),
         \/ reg' = reg /\ ~ (encodeMode = Direction[prog] /\ instr.op \in Readers(encodeMode))
         \/ reg' \in 0..(U32 - 1)
         \/ encodeMode = Direction[prog] /\ instr.op \in {"O_READ_SCALAR", "C_READ_SCALAR"},
         instr.op = "ARRAY_NEXT" /\ flag' = 1 => AtElement'
  PROVE  IInv'
<1>1. /\ TypeOK /\ FramesMatch /\ WellNested(prog) /\ pc \notin Main
      /\ pc + 1 \in Successors(prog, pc)
  BY Fetched, InRoutine DEF IInv
<1>2. /\ pc' \in Nat /\ running' \in BOOLEAN /\ error' \in Errors
      /\ EndsClean' /\ ProgramsRun'
      /\ running' /\ code' # <<>> => error' = "Ok" /\ InStep' /\ Nests'
  BY <1>1, Moves
<1>3. TypeOK'
  BY <1>1, <1>2 DEF TypeOK
<1>4. FramesMatch'
  BY <1>1 DEF FramesMatch, OpenOf
<1> QED
  BY <1>1, <1>2, <1>3, <1>4 DEF IInv

(* Division keeps within a width. *)
LEMMA Widths ==
  /\ \A n \in Int : n % U32 \in 0..(U32 - 1) /\ n % U64 \in 0..(U64 - 1)
  /\ 0..(U32 - 1) \subseteq 0..(U64 - 1)
BY VMAssumption

LEMMA TopType ==
  ASSUME NEW S, NEW s \in Seq(S), s # <<>>
  PROVE  Top(s) \in S
<1>1. Len(s) \in 1..Len(s)
  OBVIOUS
<1> QED
  BY <1>1 DEF Top

LEMMA SetTopType ==
  ASSUME NEW S, NEW s \in Seq(S), s # <<>>, NEW x \in S
  PROVE  /\ SetTop(s, x) \in Seq(S) /\ Len(SetTop(s, x)) = Len(s)
         /\ Top(SetTop(s, x)) = x /\ Top(s) \in S /\ SetTop(s, x) # <<>>
<1>1. Len(s) \in 1..Len(s)
  OBVIOUS
<1>2. /\ SetTop(s, x) \in Seq(S) /\ Len(SetTop(s, x)) = Len(s)
      /\ SetTop(s, x)[Len(s)] = x
  BY <1>1, ExceptSeq DEF SetTop
<1> QED
  BY <1>1, <1>2 DEF Top

LEMMA WriteKeeps ==
  ASSUME IInv, NEW status \in Statuses, Write(status)
  PROVE  IInv'
<1>1. /\ Fetches /\ instr.op \in (Writes \ Refused) \cup PassedOver
      /\ Proceed(pc + 1, status)
      /\ UNCHANGED <<prog, encodeMode, reg, flag, callStack, stackDepth, arrayStack,
                     optionalStack, oneofStack, open, leftover, runs>>
  BY DEF Write, At, registers, stacks
<1>2. TypeOK
  BY <1>1, Fetched
<1>3. /\ instr.op \notin Begins \cup Ends \cup {"CALL_TYPE_INDIRECT", "HALT", "JMP", "JZ",
                                               "DISPATCH", "RET"}
      /\ instr.op # "ARRAY_NEXT"
  BY <1>1 DEF Writes, PassedOver, Begins, Ends, Ending
<1>4. instr.op \notin Readers(encodeMode)
  BY <1>1, <1>2 DEF Writes, PassedOver, Readers, TypeOK
<1> QED
  BY <1>1, <1>2, <1>3, <1>4, LocalKeeps DEF TypeOK

LEMMA WriteLengthKeeps ==
  ASSUME IInv, NEW status \in Statuses, WriteLength(status)
  PROVE  IInv'
<1>1. /\ Fetches /\ instr.op = "O_WRITE_ARRAY_LEN" /\ arrayStack # <<>>
      /\ Proceed(pc + 1, status)
      /\ arrayStack' = SetTop(arrayStack, [Top(arrayStack) EXCEPT !.len = reg % U32])
      /\ UNCHANGED <<prog, encodeMode, reg, flag, callStack, stackDepth,
                     optionalStack, oneofStack, open, leftover, runs>>
  BY DEF WriteLength, Uses, At, registers
<1>2. TypeOK
  BY <1>1, Fetched
<1>3. instr.op \notin Begins \cup Ends
  BY <1>1 DEF Begins, Ends, Ending
<1>4. instr.op \notin Readers(encodeMode)
  BY <1>1 DEF Readers
<1> DEFINE F == [len : 0..(U32 - 1), idx : 0..(U32 - 1)]
           frame == [Top(arrayStack) EXCEPT !.len = reg % U32]
<1>5. arrayStack \in Seq(F) /\ reg \in 0..(U64 - 1)
  BY <1>2 DEF TypeOK
<1>6. Top(arrayStack) \in F
  BY <1>1, <1>5, TopType
<1>7. reg % U32 \in 0..(U32 - 1)
  BY <1>5, Widths
<1>8. frame \in F
  BY <1>6, <1>7
<1>9. arrayStack' \in Seq(F) /\ Len(arrayStack') = Len(arrayStack)
  <2> HIDE DEF F, frame
  <2>1. arrayStack' = SetTop(arrayStack, frame)
    BY <1>1 DEF frame
  <2> QED
    BY <1>1, <1>5, <1>8, <2>1, SetTopType
<1> QED
  BY <1>1, <1>2, <1>3, <1>4, <1>9, LocalKeeps DEF TypeOK

LEMMA ArrayNextKeeps ==
  ASSUME IInv, NEW status \in Statuses, ArrayNext(status)
  PROVE  IInv'
<1> DEFINE F == [len : 0..(U32 - 1), idx : 0..(U32 - 1)]
           frame == Top(arrayStack)
           idx   == NextIndex(frame.idx)
           stepped == [frame EXCEPT !.idx = idx]
<1>1. /\ Fetches /\ instr.op = "ARRAY_NEXT" /\ arrayStack # <<>>
      /\ Proceed(pc + 1, status)
      /\ arrayStack' = SetTop(arrayStack, stepped)
      /\ flag' = MoreElements(idx, frame.len)
      /\ UNCHANGED <<prog, encodeMode, reg, callStack, stackDepth,
                     optionalStack, oneofStack, open, leftover, runs>>
  BY DEF ArrayNext, At
<1>2. TypeOK
  BY <1>1, Fetched
<1>3. instr.op \notin Begins \cup Ends /\ instr.op \notin Readers(encodeMode)
  BY <1>1 DEF Begins, Ends, Ending, Readers
<1>4. arrayStack \in Seq(F)
  BY <1>2 DEF TypeOK
<1>5. frame \in F
  BY <1>1, <1>4, TopType
<1>6. idx \in 0..(U32 - 1)
  <2>1. frame.idx + 1 \in Nat
    BY <1>5
  <2> QED
    BY <2>1, Widths DEF NextIndex
<1>7. stepped \in F /\ stepped.idx = idx /\ stepped.len = frame.len
  <2> HIDE DEF idx, frame
  <2> QED
    BY <1>5, <1>6
<1>8. /\ arrayStack' \in Seq(F) /\ Len(arrayStack') = Len(arrayStack)
      /\ arrayStack' # <<>> /\ Top(arrayStack') = stepped
  <2> HIDE DEF F, stepped
  <2> QED
    BY <1>1, <1>4, <1>7, SetTopType
<1>9. flag' \in {0, 1} /\ (flag' = 1 => idx < frame.len)
  <2> HIDE DEF idx, frame
  <2> QED
    BY <1>1 DEF MoreElements
<1>10. flag' = 1 => AtElement'
  <2> HIDE DEF idx, frame, stepped
  <2> QED
    BY <1>7, <1>8, <1>9 DEF AtElement
<1> QED
  BY <1>1, <1>2, <1>3, <1>8, <1>9, <1>10, LocalKeeps DEF TypeOK

LEMMA ReadScalarKeeps ==
  ASSUME IInv, NEW answer \in Int, NEW status \in Statuses, ReadScalar(answer, status)
  PROVE  IInv'
<1>1. /\ Fetches /\ instr.op = IF encodeMode THEN "O_READ_SCALAR" ELSE "C_READ_SCALAR"
      /\ Proceed(pc + 1, status)
      /\ reg' = answer % U64
      /\ UNCHANGED <<prog, encodeMode, flag, callStack, stackDepth, arrayStack,
                     optionalStack, oneofStack, open, leftover, runs>>
  BY DEF ReadScalar, Reads, At, stacks
<1>2. /\ instr.op \notin Begins \cup Ends \cup {"CALL_TYPE_INDIRECT", "HALT", "JMP", "JZ",
                                               "DISPATCH", "RET"}
      /\ instr.op # "ARRAY_NEXT"
  BY <1>1 DEF Begins, Ends, Ending
<1>3. TypeOK /\ Direction[prog] \in BOOLEAN /\ InPlace(prog, pc) /\ instr.op = Op(prog, pc)
  BY <1>1, <1>2, Fetched, InRoutine
<1>4. encodeMode = Direction[prog]
  <2>1. encodeMode \in BOOLEAN
    BY <1>3 DEF TypeOK
  <2>2. instr.op \notin Readers(~ Direction[prog])
    BY <1>3 DEF InPlace
  <2> QED
    BY <1>1, <1>3, <2>1, <2>2 DEF Readers
<1>5. reg' \in 0..(U64 - 1)
  BY <1>1, Widths
<1> QED
  BY <1>1, <1>2, <1>3, <1>4, <1>5, LocalKeeps DEF TypeOK

LEMMA ReadArmKeeps ==
  ASSUME IInv, NEW answer \in Int, NEW status \in Statuses, ReadArm(answer, status)
  PROVE  IInv'
<1>1. /\ Fetches /\ instr.op \in {"O_READ_ONEOF_ARM", "C_READ_ONEOF_ARM"}
      /\ Proceed(pc + 1, status)
      /\ reg' = answer % U32
      /\ UNCHANGED <<prog, encodeMode, flag, callStack, stackDepth, arrayStack,
                     optionalStack, oneofStack, open, leftover, runs>>
  BY DEF ReadArm, Reads, At, stacks
<1>2. /\ instr.op \notin Begins \cup Ends \cup {"CALL_TYPE_INDIRECT", "HALT", "JMP", "JZ",
                                               "DISPATCH", "RET"}
      /\ instr.op # "ARRAY_NEXT"
  BY <1>1 DEF Begins, Ends, Ending
<1>3. TypeOK
  BY <1>1, Fetched
<1>4. reg' \in 0..(U32 - 1) /\ reg' \in 0..(U64 - 1)
  BY <1>1, Widths
<1> QED
  BY <1>1, <1>2, <1>3, <1>4, LocalKeeps DEF TypeOK

LEMMA ReadLengthKeeps ==
  ASSUME IInv, NEW answer \in Int, NEW status \in Statuses, ReadLength(answer, status)
  PROVE  IInv'
<1> DEFINE F == [len : 0..(U32 - 1), idx : 0..(U32 - 1)]
           frame == [Top(arrayStack) EXCEPT !.len = answer % U32]
<1>1. /\ Fetches /\ instr.op \in {"O_READ_ARRAY_LEN", "C_READ_ARRAY_LEN"} /\ arrayStack # <<>>
      /\ Proceed(pc + 1, status)
      /\ reg' = answer % U32
      /\ arrayStack' = SetTop(arrayStack, frame)
      /\ UNCHANGED <<prog, encodeMode, flag, callStack, stackDepth,
                     optionalStack, oneofStack, open, leftover, runs>>
  BY DEF ReadLength, Reads, At
<1>2. /\ instr.op \notin Begins \cup Ends \cup {"CALL_TYPE_INDIRECT", "HALT", "JMP", "JZ",
                                               "DISPATCH", "RET"}
      /\ instr.op # "ARRAY_NEXT"
  BY <1>1 DEF Begins, Ends, Ending
<1>3. TypeOK
  BY <1>1, Fetched
<1>4. reg' \in 0..(U32 - 1) /\ reg' \in 0..(U64 - 1)
  BY <1>1, Widths
<1>5. arrayStack \in Seq(F)
  BY <1>3 DEF TypeOK
<1>6. Top(arrayStack) \in F
  BY <1>1, <1>5, TopType
<1>7. frame \in F
  BY <1>1, <1>4, <1>6
<1>8. arrayStack' \in Seq(F) /\ Len(arrayStack') = Len(arrayStack)
  <2> HIDE DEF F, frame
  <2> QED
    BY <1>1, <1>5, <1>7, SetTopType
<1> QED
  BY <1>1, <1>2, <1>3, <1>4, <1>8, LocalKeeps DEF TypeOK

LEMMA ReadFlagKeeps ==
  ASSUME IInv, NEW answer, AsksFlag => answer \in {0, 1}, NEW status \in Statuses,
         ReadFlag(answer, status)
  PROVE  IInv'
<1>1. /\ Fetches
      /\ instr.op \in {"O_READ_OPT_PRESENT", "C_READ_OPT_PRESENT", "C_MATCH_FIELD_ID",
                       "C_SKIP_FIELD"}
      /\ Proceed(pc + 1, status)
      /\ flag' \in {0, 1}
      /\ UNCHANGED <<prog, encodeMode, reg, callStack, stackDepth, arrayStack,
                     optionalStack, oneofStack, open, leftover, runs>>
  BY DEF ReadFlag, AsksFlag, Reads, At, stacks
<1>2. /\ instr.op \notin Begins \cup Ends \cup {"CALL_TYPE_INDIRECT", "HALT", "JMP", "JZ",
                                               "DISPATCH", "RET"}
      /\ instr.op # "ARRAY_NEXT" /\ instr.op \notin Readers(encodeMode)
  BY <1>1 DEF Begins, Ends, Ending, Readers
<1>3. TypeOK
  BY <1>1, Fetched
<1> QED
  BY <1>1, <1>2, <1>3, LocalKeeps DEF TypeOK

(* The steps that choose where to go on. *)
LEMMA JumpKeeps ==
  ASSUME IInv, NEW status \in Statuses, Jump(status)
  PROVE  IInv'
<1>1. /\ Fetches /\ instr.op \in {"JMP", "JZ"}
      /\ UNCHANGED <<prog, encodeMode, reg, flag, callStack, stackDepth, arrayStack,
                     optionalStack, oneofStack, open, leftover, runs>>
  BY DEF Jump, At, registers, stacks
<1>2. /\ TypeOK /\ FramesMatch /\ WellNested(prog) /\ pc \notin Main /\ flag \in {0, 1}
      /\ instr.op = Op(prog, pc) /\ instr.imm = Imm(prog, pc)
  BY <1>1, Fetched, InRoutine DEF IInv, TypeOK
<1>3. instr.op \notin Begins \cup Ends /\ instr.op \notin Readers(encodeMode)
  BY <1>1 DEF Begins, Ends, Ending, Readers
<1>4. PICK next : /\ next \in Successors(prog, pc) /\ Proceed(next, status)
                  /\ instr.op = "JZ" => (next # pc + instr.imm => flag = 1)
  <2>1. CASE instr.op = "JMP"
    <3>1. Proceed(pc + instr.imm, status)
      BY <2>1 DEF Jump, At
    <3>2. pc + instr.imm \in Successors(prog, pc)
      BY <1>2, <2>1 DEF Successors
    <3> QED
      BY <2>1, <3>1, <3>2
  <2>2. CASE instr.op = "JZ"
    <3>1. Proceed(IF flag = 0 THEN pc + instr.imm ELSE pc + 1, status)
      BY <2>2 DEF Jump, At
    <3>2. /\ pc + instr.imm \in Successors(prog, pc)
          /\ pc + 1 \in Successors(prog, pc)
      BY <1>2, <2>2 DEF Successors
    <3>3. CASE flag = 0
      <4>1. Proceed(pc + instr.imm, status)
        BY <3>1, <3>3
      <4> QED
        BY <3>2, <4>1
    <3>4. CASE flag = 1
      <4>1. Proceed(pc + 1, status)
        BY <3>1, <3>4
      <4> QED
        BY <3>2, <3>4, <4>1
    <3> QED
      BY <1>2, <3>3, <3>4
  <2> QED
    BY <1>1, <2>1, <2>2
<1>5. /\ pc' \in Nat /\ running' \in BOOLEAN /\ error' \in Errors
      /\ EndsClean' /\ ProgramsRun'
      /\ running' /\ code' # <<>> => error' = "Ok" /\ InStep' /\ Nests'
  BY <1>1, <1>2, <1>3, <1>4, Moves
<1>6. TypeOK'
  BY <1>1, <1>2, <1>5 DEF TypeOK
<1>7. FramesMatch'
  BY <1>1, <1>2 DEF FramesMatch, OpenOf
<1> QED
  BY <1>1, <1>2, <1>5, <1>6, <1>7 DEF IInv

LEMMA DispatchKeeps ==
  ASSUME IInv, NEW status \in Statuses, Dispatch(status)
  PROVE  IInv'
<1>1. /\ Fetches /\ instr.op = "DISPATCH"
      /\ UNCHANGED <<prog, encodeMode, reg, flag, callStack, stackDepth, arrayStack,
                     optionalStack, oneofStack, open, leftover, runs>>
  BY DEF Dispatch, At, registers, stacks
<1>2. /\ TypeOK /\ FramesMatch /\ WellNested(prog) /\ pc \notin Main /\ InStep
      /\ instr.op = Op(prog, pc) /\ instr.imm = Imm(prog, pc) /\ InPlace(prog, pc)
  BY <1>1, Fetched, InRoutine DEF IInv
<1>3. instr.op \notin Begins \cup Ends /\ instr.op \notin Readers(encodeMode)
  BY <1>1 DEF Begins, Ends, Ending, Readers
<1>4. /\ pc \in Nat /\ reg \in Nat /\ reg < U32
      /\ instr.imm \in Nat /\ pc + instr.imm < Len(code)
  <2>1. pc \in Nat /\ reg \in Nat
    BY <1>2 DEF TypeOK
  <2>2. reg < U32
    BY <1>1, <1>2 DEF InStep, ArmKnown
  <2>3. Imm(prog, pc) \in Nat /\ pc + Imm(prog, pc) < Len(Code(prog))
    BY <1>1, <1>2 DEF InPlace
  <2> QED
    BY <1>2, <2>1, <2>2, <2>3 DEF code, Code
<1>5. TableIndex \in TableEntries(prog, pc) /\ TableIndex <= instr.imm /\ TableIndex \in Nat
  <2>1. (reg + 1) % U64 = reg + 1
    BY <1>4, VMAssumption
  <2>2. TableIndex = IF reg + 1 < instr.imm THEN reg + 1 ELSE instr.imm
    BY <2>1 DEF TableIndex
  <2>3. TableEntries(prog, pc) = IF instr.imm = 0 THEN {0} ELSE 1..instr.imm
    BY <1>2 DEF TableEntries
  <2> QED
    BY <1>4, <2>2, <2>3
<1> DEFINE next == pc + code[pc + TableIndex + 1].imm
<1>6. next \in Successors(prog, pc)
  <2>1. next = pc + Imm(prog, pc + TableIndex)
    BY DEF Imm, code, Code
  <2>2. Successors(prog, pc) = {pc + Imm(prog, pc + i) : i \in TableEntries(prog, pc)}
    BY <1>1, <1>2 DEF Successors
  <2> HIDE DEF next
  <2> QED
    BY <1>5, <2>1, <2>2
<1>7. Proceed(next, status)
  <2>1. pc + TableIndex < Len(code) /\ ~ (pc + TableIndex >= Len(code))
    <3>1. Len(code) \in Int \/ Len(code) \notin Int
      OBVIOUS
    <3> QED
      BY <1>1, <1>4, <1>5 DEF Fetches
  <2> QED
    BY <1>1, <2>1 DEF Dispatch
<1>8. /\ pc' \in Nat /\ running' \in BOOLEAN /\ error' \in Errors
      /\ EndsClean' /\ ProgramsRun'
      /\ running' /\ code' # <<>> => error' = "Ok" /\ InStep' /\ Nests'
  <2> HIDE DEF next
  <2> QED
    BY <1>1, <1>2, <1>3, <1>6, <1>7, Moves
<1>9. TypeOK'
  BY <1>1, <1>2, <1>8 DEF TypeOK
<1>10. FramesMatch'
  BY <1>1, <1>2 DEF FramesMatch, OpenOf
<1> QED
  BY <1>1, <1>2, <1>8, <1>9, <1>10 DEF IInv

(* The steps that leave main, a routine or the run. *)
LEMMA RetKeeps ==
  ASSUME IInv, NEW status \in Statuses, Ret(status)
  PROVE  IInv'
<1>1. /\ Fetches /\ instr.op = "RET"
      /\ UNCHANGED <<prog, encodeMode, reg, flag, arrayStack, optionalStack, oneofStack,
                     open, leftover, runs>>
  BY DEF Ret, At, registers, stacks
<1>2. /\ TypeOK /\ FramesMatch /\ WellNested(prog) /\ pc \notin Main /\ InStep /\ AtPlace
      /\ stackDepth # 0 /\ instr.op = Op(prog, pc) /\ InPlace(prog, pc)
  BY <1>1, Fetched, InRoutine DEF IInv
<1>3. /\ callStack \in Seq(Nat) /\ stackDepth \in Nat \ {0} /\ leftover.calls \in Nat
      /\ Len(callStack) = leftover.calls + stackDepth
  BY <1>2 DEF TypeOK, FramesMatch
<1>4. callStack # <<>>
  <2>1. Len(callStack) # 0
    BY <1>3
  <2> QED
    BY <2>1
<1>5. /\ Proceed(Top(callStack), status)
      /\ callStack' = Pop(callStack) /\ stackDepth' = stackDepth - 1
  BY <1>1, <1>4 DEF Ret
<1>6. Top(callStack) \in Nat
  BY <1>3, <1>4, TopType
<1>7. /\ pc' \in Nat /\ running' \in BOOLEAN /\ error' \in Errors
      /\ EndsClean' /\ ProgramsRun'
      /\ running' => pc' = Top(callStack) /\ error' = "Ok"
  BY <1>1, <1>5, <1>6, Proceeds
<1>8. /\ Pop(callStack) \in Seq(Nat)
      /\ Len(callStack) = Len(Pop(callStack)) + 1 /\ Len(Pop(callStack)) \in Nat
  BY <1>3, <1>4, PopType
<1>9. TypeOK'
  BY <1>1, <1>2, <1>3, <1>5, <1>7, <1>8 DEF TypeOK
<1>10. FramesMatch'
  <2>1. Len(callStack') = leftover'.calls + stackDepth'
    BY <1>1, <1>3, <1>5, <1>8
  <2> QED
    BY <1>1, <1>2, <2>1 DEF FramesMatch, OpenOf
<1>11. ASSUME running'
       PROVE  InStep' /\ Nests'
  <2>1. Around(prog, pc) = <<>>
    BY <1>1, <1>2 DEF InPlace
  <2>2. /\ Nests'
        /\ pc' \in Places(prog)
        /\ pc' \in Main <=> stackDepth = 1
        /\ Op(prog, pc') \notin ArmKnown \cup {"ARRAY_ELEM_BEGIN"}
        /\ ~ LoopTest(prog, pc')
    BY <1>1, <1>2, <1>3, <1>5, <1>7, <1>11, <2>1, NestsReturn
  <2>3. stackDepth' = 0 <=> stackDepth = 1
    BY <1>3, <1>5
  <2>4. InStep'
    BY <1>1, <1>2, <2>2, <2>3 DEF InStep, LoopTest, Op, Code, Places, Within, Around
  <2> QED
    BY <2>2, <2>4
<1> QED
  BY <1>1, <1>2, <1>7, <1>9, <1>10, <1>11 DEF IInv

(* A call into a type, from main or from a routine. *)
LEMMA Calls ==
  ASSUME IInv, Fetches, NEW status \in Statuses, NEW entry \in Entries(prog),
         Proceed(entry, status),
         callStack' = Append(callStack, pc + 1), stackDepth' = stackDepth + 1,
         UNCHANGED <<prog, encodeMode, reg, flag, arrayStack, optionalStack, oneofStack, open,
                     leftover, runs>>,
         pc + 1 \in Places(prog), pc + 1 \in Main <=> stackDepth = 0,
         Op(prog, pc + 1) \notin ArmKnown \cup {"ARRAY_ELEM_BEGIN"},
         ~ LoopTest(prog, pc + 1), Around(prog, pc + 1) = Around(prog, pc)
  PROVE  IInv'
<1>1. /\ TypeOK /\ FramesMatch /\ WellNested(prog) /\ InStep /\ AtPlace /\ EntriesNested(prog)
  BY Fetched DEF IInv
<1>2. /\ callStack \in Seq(Nat) /\ stackDepth \in Nat /\ leftover.calls \in Nat /\ pc \in Nat
      /\ Len(callStack) = leftover.calls + stackDepth
  BY <1>1 DEF TypeOK, FramesMatch
<1>3. /\ entry \in Places(prog) \ Main /\ Around(prog, entry) = <<>>
      /\ Op(prog, entry) \notin ArmKnown
  BY <1>1 DEF EntriesNested
<1>4. Op(prog, entry) # "ARRAY_ELEM_BEGIN" /\ ~ LoopTest(prog, entry)
  <2>1. InPlace(prog, entry)
    BY <1>1, <1>3 DEF WellNested
  <2> QED
    BY <1>3, <2>1 DEF InPlace, ArrayOps, Within, LoopTest
<1>5. entry \in Nat
  BY <1>3 DEF Places
<1>6. /\ pc' \in Nat /\ running' \in BOOLEAN /\ error' \in Errors
      /\ EndsClean' /\ ProgramsRun'
      /\ running' => pc' = entry /\ error' = "Ok"
  BY <1>5, Proceeds
<1>7. callStack' \in Seq(Nat) /\ Len(callStack') = Len(callStack) + 1
  BY <1>2
<1>8. TypeOK'
  BY <1>1, <1>2, <1>6, <1>7 DEF TypeOK
<1>9. FramesMatch'
  <2>1. Len(callStack') = leftover.calls + (stackDepth + 1)
    <3>1. \A c, d \in Nat : (c + d) + 1 = c + (d + 1)
      OBVIOUS
    <3> QED
      BY <1>2, <1>7, <3>1
  <2>2. leftover' = leftover /\ stackDepth' = stackDepth + 1
    OBVIOUS
  <2> QED
    BY <1>1, <2>1, <2>2 DEF FramesMatch, OpenOf
<1>10. ASSUME running'
       PROVE  InStep' /\ Nests'
  <2>1. pc' = entry /\ Around(prog, pc') = <<>>
    BY <1>3, <1>6, <1>10
  <2>2. Nests'
    BY <1>1, <1>2, <2>1, NestsCall
  <2>3. stackDepth' # 0
    BY <1>2
  <2>4. InStep'
    BY <1>1, <1>3, <1>4, <2>1, <2>3
    DEF InStep, LoopTest, Op, Code, Places, Within, Around
  <2> QED
    BY <2>2, <2>4
<1> QED
  BY <1>1, <1>6, <1>8, <1>9, <1>10 DEF IInv

LEMMA CallKeeps ==
  ASSUME IInv, NEW status \in Statuses, Call(status)
  PROVE  IInv'
<1>1. /\ Fetches /\ instr.op \in {"CALL_TYPE", "CALL_TYPE_INDIRECT"}
      /\ callStack' = Append(callStack, pc + 1) /\ stackDepth' = stackDepth + 1
      /\ UNCHANGED <<prog, encodeMode, reg, flag, arrayStack, optionalStack, oneofStack,
                     open, leftover, runs>>
  BY DEF Call, At, registers
<1>2. /\ TypeOK /\ FramesMatch /\ WellNested(prog) /\ InStep /\ MainNested(prog)
      /\ instr.op = Op(prog, pc) /\ instr.imm = Imm(prog, pc)
      /\ error = "Ok" /\ code # <<>>
      /\ pc \notin Main => InPlace(prog, pc) /\ LeadsOn(prog, pc) /\ stackDepth # 0
      /\ pc \in Main <=> stackDepth = 0
  BY <1>1, Fetched DEF IInv, InStep
<1>3. entries = Programs[prog].typeEntryPc /\ entries \in Seq(Nat) /\ reg \in Nat
  BY <1>2 DEF WellNested, entries, TypeOK
<1>4. CASE instr.op = "CALL_TYPE"
  <2>1. pc \notin Main
    BY <1>2, <1>4 DEF MainNested, Main
  <2>2. pc + 1 \in Successors(prog, pc)
    BY <1>2, <1>4 DEF Successors
  <2>3. After(prog, pc) = Around(prog, pc)
    BY <1>2, <1>4 DEF After, Ends, Begins, Ending
  <2>4. /\ pc + 1 \in Places(prog) \ Main
        /\ Around(prog, pc + 1) = Around(prog, pc)
        /\ Op(prog, pc + 1) \notin ArmKnown \cup {"ARRAY_ELEM_BEGIN"}
        /\ ~ LoopTest(prog, pc + 1)
    <3>1. Direction[prog] \in BOOLEAN
      BY <1>2 DEF WellNested
    <3>2. instr.op \notin ArmKnown /\ instr.op \notin Readers(Direction[prog])
          /\ instr.op # "ARRAY_NEXT" /\ ~ LoopTest(prog, pc)
      BY <1>2, <1>4, <3>1 DEF ArmKnown, Readers, LoopTest
    <3> QED
      BY <1>2, <2>1, <2>2, <2>3, <3>2 DEF LeadsOn
  <2>5. entries[instr.imm + 1] \in Entries(prog)
    BY <1>2, <1>3, <1>4, <2>1 DEF InPlace, Entries
  <2>6. Proceed(entries[instr.imm + 1], status)
    BY <1>4 DEF Call, At
  <2> QED
    BY <1>1, <1>2, <2>1, <2>4, <2>5, <2>6, Calls
<1>5. CASE instr.op = "CALL_TYPE_INDIRECT"
  <2>1. pc = 0 /\ stackDepth = 0
    <3>1. pc \in Main
      BY <1>2, <1>5 DEF InPlace
    <3> QED
      BY <1>2, <1>5, <3>1 DEF MainNested, Main
  <2>2. CASE reg < Len(entries)
    <3>1. reg + 1 \in DOMAIN entries
      BY <1>3, <2>2
    <3>2. entries[reg + 1] \in Entries(prog)
      BY <1>3, <3>1 DEF Entries
    <3>3. Proceed(entries[reg + 1], status)
      BY <1>1, <1>3, <1>5, <2>2 DEF Call, At
    <3>4. /\ pc + 1 = 1 /\ 1 \in Main /\ 1 \in Places(prog)
          /\ Op(prog, 1) = "HALT" /\ Around(prog, 1) = Around(prog, 0)
      BY <1>2, <2>1 DEF MainNested, Main
    <3>5. "HALT" \notin ArmKnown \cup {"ARRAY_ELEM_BEGIN"} /\ ~ LoopTest(prog, 1)
      BY <3>4 DEF ArmKnown, LoopTest
    <3> QED
      BY <1>1, <2>1, <3>2, <3>3, <3>4, <3>5, Calls
  <2>3. CASE reg >= Len(entries)
    <3>1. Fail("RuntimeError")
      BY <1>1, <1>3, <1>5, <2>3 DEF Call, At
    <3>2. pc' = 0 /\ error' = "RuntimeError" /\ running' = FALSE
      BY <2>1, <3>1 DEF Fail
    <3>3. /\ callStack \in Seq(Nat) /\ stackDepth \in Nat /\ leftover.calls \in Nat
          /\ Len(callStack) = leftover.calls + stackDepth
      BY <1>2 DEF TypeOK, FramesMatch
    <3>4. callStack' \in Seq(Nat) /\ Len(callStack') = Len(callStack) + 1
      BY <1>1, <2>1, <3>3
    <3>5. TypeOK'
      <4>1. /\ pc' \in Nat /\ running' \in BOOLEAN /\ error' \in Errors
            /\ stackDepth' \in Nat
        <5>1. "RuntimeError" \in Errors /\ FALSE \in BOOLEAN /\ 0 \in Nat
          BY DEF Errors
        <5>2. stackDepth + 1 \in Nat
          BY <3>3
        <5> QED
          BY <1>1, <3>2, <5>1, <5>2
      <4> QED
        BY <1>1, <1>2, <3>4, <4>1 DEF TypeOK
    <3>6. FramesMatch'
      <4>1. Len(callStack) + 1 = leftover.calls + (stackDepth + 1)
        BY <3>3
      <4>2. Len(callStack') = leftover.calls + (stackDepth + 1)
        BY <3>4, <4>1
      <4> QED
        BY <1>1, <1>2, <4>2 DEF FramesMatch, OpenOf
    <3>7. EndsClean' /\ ProgramsRun'
      BY <1>1, <2>3, <3>2 DEF EndsClean, ProgramsRun, entries, code
    <3> QED
      BY <1>1, <1>2, <3>2, <3>5, <3>6, <3>7 DEF IInv
  <2> QED
    <3>1. Len(entries) \in Nat
      BY <1>3
    <3> QED
      BY <1>3, <2>2, <2>3, <3>1
<1> QED
  BY <1>1, <1>4, <1>5

(* Main stops with nothing open. *)
LEMMA HaltKeeps ==
  ASSUME IInv, Halt
  PROVE  IInv'
<1>1. /\ Fetches /\ instr.op = "HALT" /\ running' = FALSE
      /\ UNCHANGED <<prog, encodeMode, pc, reg, flag, callStack, stackDepth, arrayStack,
                     optionalStack, oneofStack, error, open, leftover, runs>>
  BY DEF Halt, At, registers, stacks
<1>2. /\ TypeOK /\ FramesMatch /\ WellNested(prog) /\ InStep /\ MainNested(prog) /\ AtPlace
      /\ instr.op = Op(prog, pc) /\ ProgramsRun
      /\ pc \notin Main => InPlace(prog, pc)
      /\ pc \in Main <=> stackDepth = 0
  BY <1>1, Fetched DEF IInv, InStep
<1>3. pc \in Main /\ stackDepth = 0 /\ Around(prog, pc) = <<>>
  BY <1>1, <1>2 DEF InPlace, MainNested
<1>4. open = <<>>
  <2>1. PICK base \in [0..stackDepth -> Nat] :
          /\ \A j \in 0..stackDepth : \A i \in 0..j : base[i] <= base[j]
          /\ CallsNest(base)
    BY <1>2 DEF AtPlace, Nests
  <2>2. Len(open) = base[stackDepth] + Len(Around(prog, pc)) /\ base[stackDepth] = 0
    <3>1. base[0] = 0
      BY <2>1 DEF CallsNest
    <3> QED
      BY <1>2, <1>3, <2>1, <3>1, Below DEF AtPlace
  <2>3. Len(open) = 0 /\ open \in Seq(Ends)
    BY <1>2, <1>3, <2>2 DEF AtPlace
  <2> QED
    BY <2>3
<1>5. EndsClean' /\ ProgramsRun'
  BY <1>1, <1>2, <1>3, <1>4 DEF EndsClean, ProgramsRun, entries, code
<1>6. TypeOK' /\ FramesMatch'
  BY <1>1, <1>2 DEF TypeOK, FramesMatch, OpenOf
<1> QED
  BY <1>1, <1>2, <1>5, <1>6 DEF IInv

(* An instruction of the other direction, in a run of the other direction. *)
LEMMA InvalidKeeps ==
  ASSUME IInv, Invalid
  PROVE  IInv'
<1>1. /\ Fetches /\ instr.op \in Refused \cup Unknown
      /\ error' = "InvalidInstr" /\ running' = FALSE
      /\ UNCHANGED <<prog, encodeMode, pc, reg, flag, callStack, stackDepth, arrayStack,
                     optionalStack, oneofStack, open, leftover, runs>>
  BY DEF Invalid, Fail, At, registers, stacks
<1>2. instr.op \notin {"CALL_TYPE_INDIRECT", "HALT"}
  BY <1>1 DEF Refused, RefusedBy, Unknown
<1>3. /\ TypeOK /\ FramesMatch /\ WellNested(prog)
      /\ instr.op = Op(prog, pc) /\ InPlace(prog, pc)
  BY <1>1, <1>2, Fetched, InRoutine DEF IInv
<1>4. encodeMode # Direction[prog]
  BY <1>1, <1>3 DEF InPlace, Refused
<1>5. EndsClean' /\ ProgramsRun'
  BY <1>1, <1>4 DEF EndsClean, ProgramsRun
<1>6. TypeOK' /\ FramesMatch'
  BY <1>1, <1>3 DEF TypeOK, FramesMatch, OpenOf, Errors
<1> QED
  BY <1>1, <1>3, <1>5, <1>6 DEF IInv

(* Only where there is no program, there is nothing to fetch. *)
LEMMA RunsOffKeeps ==
  ASSUME IInv, RunsOff
  PROVE  IInv'
<1>1. /\ running /\ pc >= Len(code) /\ error' = "RuntimeError" /\ running' = FALSE
      /\ UNCHANGED <<prog, encodeMode, pc, reg, flag, callStack, stackDepth, arrayStack,
                     optionalStack, oneofStack, open, leftover, runs>>
  BY DEF RunsOff, Fail, registers, stacks
<1>2. TypeOK /\ FramesMatch /\ WellNested(prog)
  BY DEF IInv
<1>3. code = <<>>
  <2>1. ASSUME code # <<>> PROVE FALSE
    <3>1. Len(code) \in Nat
      BY <1>2 DEF WellNested, code, Code
    <3>2. pc \in 0..(Len(code) - 1)
      BY <1>1, <2>1 DEF IInv, InStep, Places, code, Code
    <3> QED
      BY <1>1, <3>1, <3>2
  <2> QED
    BY <2>1
<1>4. EndsClean' /\ ProgramsRun'
  BY <1>1, <1>3 DEF EndsClean, ProgramsRun, code
<1>5. TypeOK' /\ FramesMatch'
  BY <1>1, <1>2 DEF TypeOK, FramesMatch, OpenOf, Errors
<1> QED
  BY <1>1, <1>2, <1>4, <1>5 DEF IInv

-----------------------------------------------------------------------------
(* A run may begin on any of the programs, whatever the last one left.     *)
LEMMA StartKeeps ==
  ASSUME ProgramsNested, IInv, NEW program \in DOMAIN Programs, NEW encode \in BOOLEAN,
         NEW typeId \in 0..Len(Programs[program].typeEntryPc), Start(program, encode, typeId)
  PROVE  IInv'
<1>1. /\ runs < MaxRuns /\ runs' = runs + 1 /\ prog' = program /\ encodeMode' = encode
      /\ running' = TRUE /\ pc' = 0 /\ flag' = 0 /\ stackDepth' = 0 /\ error' = "Ok"
      /\ reg' = typeId /\ open' = <<>>
      /\ leftover' = [calls |-> Len(callStack), arrays |-> Len(arrayStack),
                      optionals |-> Len(optionalStack), oneofs |-> Len(oneofStack)]
      /\ UNCHANGED <<callStack, arrayStack, optionalStack, oneofStack>>
  BY DEF Start
<1>2. TypeOK /\ WellNested(program)
  BY DEF IInv, ProgramsNested
<1>3. WellNested(prog)'
  BY <1>1, <1>2
  DEF WellNested, MainNested, EntriesNested, InPlace, LeadsOn, Places, Entries, Within, Around,
      After, Successors, TableEntries, LoopTest, Op, Imm, Code
<1>4. typeId \in Nat /\ typeId < U32 /\ typeId \in 0..(U64 - 1)
  <2>1. /\ Len(Programs[program].typeEntryPc) \in Nat
        /\ Len(Programs[program].typeEntryPc) < U32
    BY <1>2 DEF WellNested
  <2> QED
    BY <2>1, VMAssumption
<1>5. TypeOK'
  <2>1. leftover' \in [calls : Nat, arrays : Nat, optionals : Nat, oneofs : Nat]
    <3>1. /\ Len(callStack) \in Nat /\ Len(arrayStack) \in Nat
          /\ Len(optionalStack) \in Nat /\ Len(oneofStack) \in Nat
      BY <1>2 DEF TypeOK
    <3> QED
      BY <1>1, <3>1
  <2>2. runs' \in 0..MaxRuns
    BY <1>1, <1>2, VMAssumption DEF TypeOK
  <2>3. open' \in Seq(Ends)
    BY <1>1
  <2>4. error' \in Errors
    BY <1>1 DEF Errors
  <2> QED
    BY <1>1, <1>2, <1>4, <2>1, <2>2, <2>3, <2>4 DEF TypeOK
<1>6. FramesMatch'
  <2>1. \A end : Count(open', end) = 0
    <3>1. \A end : {i \in DOMAIN open' : open'[i] = end} = {}
      BY <1>1
    <3> QED
      BY <3>1, FS_EmptySet DEF Count
  <2>2. /\ Len(callStack) \in Nat /\ Len(arrayStack) \in Nat
        /\ Len(optionalStack) \in Nat /\ Len(oneofStack) \in Nat
    BY <1>2 DEF TypeOK
  <2> QED
    BY <1>1, <2>1, <2>2, FramesOpen
<1>7. EndsClean' /\ ProgramsRun'
  BY <1>1 DEF EndsClean, ProgramsRun
<1>8. ASSUME code' # <<>>
      PROVE  InStep' /\ Nests'
  <2>1. MainNested(program)
    BY <1>1, <1>2, <1>8 DEF WellNested, code, Code
  <2>2. /\ 0 \in Places(program) /\ 0 \in Main /\ Op(program, 0) = "CALL_TYPE_INDIRECT"
        /\ Around(program, 0) = <<>>
    BY <2>1 DEF MainNested, Main
  <2>3. "CALL_TYPE_INDIRECT" # "ARRAY_ELEM_BEGIN" /\ ~ LoopTest(program, 0)
    BY <2>2 DEF LoopTest
  <2>4. InStep'
    BY <1>1, <1>4, <2>2, <2>3 DEF InStep, LoopTest, Op, Code, Places, Within, Around
  <2>5. Nests'
    <3>1. PICK base : base = [k \in 0..0 |-> 0]
      OBVIOUS
    <3>2. base \in [0..0 -> Nat] /\ base[0] = 0
      BY <3>1
    <3>3. \A j \in 0..0 : \A i \in 0..j : base[i] <= base[j]
      BY <3>2
    <3>4. Spans(0, 0, <<>>)'
      BY DEF Spans
    <3>5. Len(open') = 0 /\ Around(prog, pc)' = <<>>
      BY <1>1, <2>2 DEF Around
    <3>6. CallsNest(base)'
      <4>1. Spans(base[stackDepth], Len(open), Around(prog, pc))'
        BY <1>1, <3>2, <3>4, <3>5
      <4>2. \A k \in 1..stackDepth' : FALSE
        BY <1>1
      <4> QED
        BY <3>2, <4>1, <4>2 DEF CallsNest
    <3> QED
      BY <1>1, <3>2, <3>3, <3>6 DEF Nests
  <2> QED
    BY <2>4, <2>5
<1> QED
  BY <1>1, <1>3, <1>5, <1>6, <1>7, <1>8 DEF IInv

(* What the adapters may answer fits the registers. *)
LEMMA AnswersFit ==
  ASSUME NEW answer \in Answers
  PROVE  answer \in Nat /\ (AsksFlag => answer \in {0, 1})
<1>1. Arms \subseteq Nat /\ Lengths \subseteq Nat
  BY VMAssumption
<1>2. AsksFlag => ~ Reads("O_READ_ONEOF_ARM", "C_READ_ONEOF_ARM")
                  /\ ~ Reads("O_READ_ARRAY_LEN", "C_READ_ARRAY_LEN")
  BY DEF AsksFlag, Reads, At
<1> QED
  BY <1>1, <1>2 DEF Answers

LEMMA StepKeeps ==
  ASSUME IInv, NEW answer \in Int, AsksFlag => answer \in {0, 1}, NEW status \in Statuses,
         Step(answer, status)
  PROVE  IInv'
<1>1. CASE RunsOff
  BY <1>1, RunsOffKeeps
<1>2. CASE Halt
  BY <1>2, HaltKeeps
<1>3. CASE Jump(status)
  BY <1>3, JumpKeeps
<1>4. CASE Ret(status)
  BY <1>4, RetKeeps
<1>5. CASE Call(status)
  BY <1>5, CallKeeps
<1>6. CASE Dispatch(status)
  BY <1>6, DispatchKeeps
<1>7. CASE Enter(status)
  BY <1>7, EnterKeeps
<1>8. CASE Exit(status)
  BY <1>8, ExitKeeps
<1>9. CASE ArrayNext(status)
  BY <1>9, ArrayNextKeeps
<1>10. CASE Invalid
  BY <1>10, InvalidKeeps
<1>11. CASE Write(status)
  BY <1>11, WriteKeeps
<1>12. CASE WriteLength(status)
  BY <1>12, WriteLengthKeeps
<1>13. CASE ReadScalar(answer, status)
  BY <1>13, ReadScalarKeeps
<1>14. CASE ReadArm(answer, status)
  BY <1>14, ReadArmKeeps
<1>15. CASE ReadLength(answer, status)
  BY <1>15, ReadLengthKeeps
<1>16. CASE ReadFlag(answer, status)
  BY <1>16, ReadFlagKeeps
<1> QED
  BY <1>1, <1>2, <1>3, <1>4, <1>5, <1>6, <1>7, <1>8, <1>9, <1>10, <1>11, <1>12, <1>13, <1>14,
     <1>15, <1>16 DEF Step

LEMMA IdleKeeps ==
  ASSUME IInv, UNCHANGED vmVars
  PROVE  IInv'
<1>1. UNCHANGED <<prog, encodeMode, running, pc, flag, reg, stackDepth, callStack, arrayStack,
                  optionalStack, oneofStack, error, open, leftover, runs>>
  BY DEF vmVars, registers, stacks
<1>2. TypeOK' /\ FramesMatch' /\ EndsClean' /\ ProgramsRun' /\ WellNested(prog)'
  <2>1. code' = code /\ entries' = entries
    BY <1>1 DEF code, entries
  <2>2. TypeOK'
    BY <1>1, <2>1 DEF IInv, TypeOK, Code
  <2>3. FramesMatch'
    BY <1>1, <2>1 DEF IInv, FramesMatch, OpenOf
  <2>4. EndsClean'
    BY <1>1, <2>1 DEF IInv, EndsClean
  <2>5. ProgramsRun'
    BY <1>1, <2>1 DEF IInv, ProgramsRun
  <2>6. WellNested(prog)'
    BY <1>1
    DEF IInv, WellNested, MainNested, EntriesNested, InPlace, LeadsOn, Places, Entries, Within,
        Around, After, Successors, TableEntries, LoopTest, Op, Imm, Code
  <2> QED
    BY <2>2, <2>3, <2>4, <2>5, <2>6
<1>3. ASSUME running, code # <<>>
      PROVE  error' = "Ok" /\ InStep' /\ Nests'
  <2>1. error = "Ok" /\ InStep /\ Nests
    BY <1>3 DEF IInv
  <2>2. InStep'
    BY <1>1, <2>1 DEF InStep, AtElement, LoopTest, Op, Code, Places, Within, Around
  <2>3. Nests'
    <3>1. PICK base \in [0..stackDepth -> Nat] :
            /\ \A j \in 0..stackDepth : \A i \in 0..j : base[i] <= base[j]
            /\ CallsNest(base)
      BY <2>1 DEF Nests
    <3>2. CallsNest(base)'
      BY <1>1, <3>1
      DEF CallsNest, Spans, ReturnOf, LoopTest, Op, Code, Places, Within, Around
    <3> QED
      BY <1>1, <3>1, <3>2 DEF Nests
  <2> QED
    BY <1>1, <2>1, <2>2, <2>3
<1> QED
  BY <1>1, <1>2, <1>3 DEF IInv, code

LEMMA InitKeeps ==
  ASSUME ProgramsNested, Init
  PROVE  IInv
<1>1. WellNested(prog)
  BY DEF Init, ProgramsNested
<1>2. TypeOK
  <2>1. 0 \in 0..(U64 - 1) /\ 0 \in 0..MaxRuns
    BY VMAssumption
  <2>2. /\ callStack \in Seq(Nat) /\ oneofStack \in Seq(Nat) /\ optionalStack \in Seq({0})
        /\ arrayStack \in Seq([len : 0..(U32 - 1), idx : 0..(U32 - 1)])
        /\ open \in Seq(Ends)
    BY DEF Init
  <2>3. leftover \in [calls : Nat, arrays : Nat, optionals : Nat, oneofs : Nat]
    BY DEF Init
  <2>4. /\ prog \in DOMAIN Programs /\ encodeMode \in BOOLEAN /\ running \in BOOLEAN
        /\ pc \in Nat /\ flag \in {0, 1} /\ stackDepth \in Nat /\ error \in Errors
        /\ reg \in 0..(U64 - 1) /\ runs \in 0..MaxRuns
    BY <2>1 DEF Init, Errors
  <2> QED
    BY <2>2, <2>3, <2>4 DEF TypeOK
<1>3. FramesMatch
  <2>1. \A end : OpenOf(end) = {}
    BY DEF Init, OpenOf
  <2>2. \A end : Cardinality(OpenOf(end)) = 0
    BY <2>1, FS_EmptySet
  <2>3. /\ Len(callStack) = 0 /\ Len(arrayStack) = 0
        /\ Len(optionalStack) = 0 /\ Len(oneofStack) = 0
        /\ leftover.calls = 0 /\ leftover.arrays = 0
        /\ leftover.optionals = 0 /\ leftover.oneofs = 0 /\ stackDepth = 0
    BY DEF Init
  <2> QED
    BY <2>2, <2>3 DEF FramesMatch
<1>4. EndsClean /\ ProgramsRun /\ ~ running
  BY DEF Init, EndsClean, ProgramsRun
<1> QED
  BY <1>1, <1>2, <1>3, <1>4 DEF IInv

-----------------------------------------------------------------------------
(* Whatever nested programs are run, in whatever order and direction, and  *)
(* whatever the adapters answer, the invariant holds at every instruction. *)
THEOREM Invariance == ASSUME ProgramsNested PROVE Spec => []IInv
<1>1. Init => IInv
  BY InitKeeps
<1>2. IInv /\ [Next]_vmVars => IInv'
  <2> SUFFICES ASSUME IInv, [Next]_vmVars PROVE IInv'
    OBVIOUS
  <2>1. ASSUME NEW program \in (IF runs = 0 THEN DOMAIN Programs ELSE Reused),
               NEW encode \in BOOLEAN,
               NEW typeId \in 0..Len(Programs[program].typeEntryPc),
               Start(program, encode, typeId)
        PROVE  IInv'
    <3>1. program \in DOMAIN Programs
      BY VMAssumption
    <3> QED
      BY <2>1, <3>1, StartKeeps
  <2>2. ASSUME NEW answer \in Answers, NEW status \in Statuses, Step(answer, status)
        PROVE  IInv'
    BY <2>2, AnswersFit, StepKeeps
  <2>3. CASE UNCHANGED vmVars
    BY <2>3, IdleKeeps
  <2> QED
    BY <2>1, <2>2, <2>3 DEF Next, Runs
<1> QED
  BY <1>1, <1>2, PTL DEF Spec

(* Every variable keeps its type; the registers and indices never leave    *)
(* their widths (struct VM, VM.h).                                         *)
THEOREM TypeCorrect == ASSUME ProgramsNested PROVE Spec => []TypeOK
<1>1. IInv => TypeOK
  BY DEF IInv
<1> QED
  BY <1>1, Invariance, PTL

(* The machine's frames are those of what the adapters have open, on top   *)
(* of the frames that stopped runs left behind (VM::reset, VM.h).          *)
THEOREM FramesAgree == ASSUME ProgramsNested PROVE Spec => []FramesMatch
<1>1. IInv => FramesMatch
  BY DEF IInv
<1> QED
  BY <1>1, Invariance, PTL

(* What ends is what the adapters were told to begin last.                 *)
LEMMA EndsFound == ASSUME IInv PROVE EndsInOrder
<1> SUFFICES ASSUME At(Ends) PROVE open # <<>> /\ Top(open) = instr.op
  BY DEF EndsInOrder
<1>1. Fetches /\ instr.op \in Ends
  BY DEF At
<1>2. instr.op \notin {"CALL_TYPE_INDIRECT", "HALT"}
  BY <1>1 DEF Ends, Begins, Ending
<1>3. AtPlace /\ InPlace(prog, pc) /\ instr.op = Op(prog, pc)
  BY <1>1, <1>2, Fetched, InRoutine
<1> QED
  BY <1>1, <1>3, TopHere DEF InPlace, Within

(* So it is at every instruction of every run.                             *)
THEOREM OrderOfEnds == ASSUME ProgramsNested PROVE Spec => []EndsInOrder
<1>1. IInv => EndsInOrder
  BY EndsFound
<1> QED
  BY <1>1, Invariance, PTL

(* A run that ends well has ended all it began and returned from all calls *)
(* (HALT).                                                                 *)
THEOREM CleanEnds == ASSUME ProgramsNested PROVE Spec => []EndsClean
<1>1. IInv => EndsClean
  BY DEF IInv
<1> QED
  BY <1>1, Invariance, PTL

(* The adapters are asked for elements that exist only (ARRAY_NEXT, and JZ *)
(* after it).                                                              *)
THEOREM ElementsExist == ASSUME ProgramsNested PROVE Spec => []ElementInRange
<1>1. IInv => ElementInRange
  BY Fetched DEF ElementInRange, At, InStep, AtElement
<1> QED
  BY <1>1, Invariance, PTL

(* A program in its own direction meets no instruction that its mode       *)
(* refuses, does not run off its end, and never returns from nothing.      *)
THEOREM RunsThrough == ASSUME ProgramsNested PROVE Spec => []ProgramsRun
<1>1. IInv => ProgramsRun
  BY DEF IInv
<1> QED
  BY <1>1, Invariance, PTL

(* back() and pop_back() are only ever called on a stack that has a frame  *)
(* of this run: the conjuncts of Enter, Exit and the readers that ask for  *)
(* one, which the code does not test, are always true.                     *)
FramesThere ==
  Fetches =>
    /\ instr.op \in ArrayOps \cup {"ARRAY_END"} => Len(arrayStack) > leftover.arrays
    /\ instr.op \in OneOfOps \cup {"ONEOF_END"} => Len(oneofStack) > leftover.oneofs
    /\ instr.op = "OPT_END" => Len(optionalStack) > leftover.optionals
    /\ instr.op = "RET"     => Len(callStack) > leftover.calls

(* What is open last is open. *)
LEMMA CountTop ==
  ASSUME NEW s \in Seq(Ends), s # <<>>
  PROVE  Count(s, Top(s)) \in Nat /\ Count(s, Top(s)) > 0
<1>1. /\ Count(Pop(s), Top(s)) \in Nat
      /\ Count(s, Top(s)) = Count(Pop(s), Top(s)) + 1
  BY CountPop
<1> QED
  BY <1>1

(* An instruction that takes from a stack finds a frame of its own run.    *)
LEMMA FramesFound == ASSUME IInv PROVE FramesThere
<1> SUFFICES ASSUME Fetches PROVE FramesThere
  BY DEF FramesThere
<1>1. /\ AtPlace /\ TypeOK /\ FramesMatch /\ instr.op = Op(prog, pc)
      /\ pc \notin Main => InPlace(prog, pc) /\ stackDepth # 0
  BY Fetched DEF IInv
<1>2. /\ Len(arrayStack)    = leftover.arrays    + Count(open, "ARRAY_END")
      /\ Len(optionalStack) = leftover.optionals + Count(open, "OPT_END")
      /\ Len(oneofStack)    = leftover.oneofs    + Count(open, "ONEOF_END")
      /\ Len(callStack)     = leftover.calls     + stackDepth
  BY <1>1, FramesOpen
<1>3. /\ leftover.arrays \in Nat /\ leftover.optionals \in Nat /\ leftover.oneofs \in Nat
      /\ leftover.calls \in Nat /\ stackDepth \in Nat /\ open \in Seq(Ends)
  BY <1>1 DEF TypeOK
<1>4. ASSUME NEW end, instr.op \notin {"CALL_TYPE_INDIRECT", "HALT"},
             InPlace(prog, pc) => Within(prog, pc, end)
      PROVE  Count(open, end) \in Nat /\ Count(open, end) > 0
  <2>1. Within(prog, pc, end)
    BY <1>1, <1>4, InRoutine
  <2> QED
    BY <1>1, <1>3, <2>1, TopHere, CountTop DEF Within
<1>5. ASSUME instr.op \in ArrayOps \cup {"ARRAY_END"}
      PROVE  Len(arrayStack) > leftover.arrays
  <2>1. Count(open, "ARRAY_END") \in Nat /\ Count(open, "ARRAY_END") > 0
    BY <1>1, <1>4, <1>5 DEF InPlace, ArrayOps, Ends, Begins, Ending
  <2> QED
    BY <1>2, <1>3, <2>1
<1>6. ASSUME instr.op \in OneOfOps \cup {"ONEOF_END"}
      PROVE  Len(oneofStack) > leftover.oneofs
  <2>1. Count(open, "ONEOF_END") \in Nat /\ Count(open, "ONEOF_END") > 0
    BY <1>1, <1>4, <1>6 DEF InPlace, OneOfOps, Ends, Begins, Ending
  <2> QED
    BY <1>2, <1>3, <2>1
<1>7. ASSUME instr.op = "OPT_END"
      PROVE  Len(optionalStack) > leftover.optionals
  <2>1. Count(open, "OPT_END") \in Nat /\ Count(open, "OPT_END") > 0
    BY <1>1, <1>4, <1>7 DEF InPlace, Ends, Begins, Ending
  <2> QED
    BY <1>2, <1>3, <2>1
<1>8. ASSUME instr.op = "RET"
      PROVE  Len(callStack) > leftover.calls
  <2>1. pc \notin Main
    BY <1>8, InRoutine
  <2> QED
    BY <1>1, <1>2, <1>3, <2>1
<1> QED
  BY <1>5, <1>6, <1>7, <1>8 DEF FramesThere

(* No instruction finds a stack empty that it takes from, nor only frames  *)
(* that an earlier run left there (VM.h, the unguarded back and pop_back). *)
THEOREM FramesAlwaysThere == ASSUME ProgramsNested PROVE Spec => []FramesThere
<1>1. IInv => FramesThere
  BY FramesFound
<1> QED
  BY <1>1, Invariance, PTL
=============================================================================
