--------------------------- MODULE BitSessionProofs ---------------------------
(***************************************************************************)
(* Theorems about BitSession, for every size of a byte and of a word, and  *)
(* every set of items and buffers.                                         *)
(*                                                                         *)
(* The first argument: what an item does to a writer is that it moves it   *)
(* on by so many bits, or overflows because they are not there (Runs), or  *)
(* is refused; the size stream counts the same bits, and refuses the same  *)
(* items (Alike). What the bits are does not matter, and is not looked at. *)
(*                                                                         *)
(* The second: an item that the writer took is in the buffer from one      *)
(* position to the next (Held), where nothing that follows touches it, so  *)
(* that a reader which has these bytes is at the same position before it   *)
(* and after, and finds it; without its last bits it finds the end.        *)
(***************************************************************************)
EXTENDS BitSession, BitStreamProofs

-----------------------------------------------------------------------------
(* A writer whose buffer has so many bytes, and a writer n bits later: only *)
(* one that is not Ok stays where it is.                                   *)
Shaped(s, size) ==
  /\ s = [data |-> s.data, bitPos |-> s.bitPos, streamErr |-> s.streamErr]
  /\ s.data = [i \in 1..size |-> s.data[i]]
  /\ s.bitPos \in Nat /\ s.streamErr \in {"Ok", "Overflow", "BadArg"}

Runs(s, t, n, size) ==
  /\ Shaped(t, size)
  /\ ~ ok(s) => t.streamErr = s.streamErr
  /\ ok(s) =>
       \/ ok(t) /\ t.bitPos = s.bitPos + n
       \/ t.streamErr = "Overflow" /\ s.bitPos + n > size * ByteBits

LEMMA Len1 ==
  ASSUME NEW n \in Nat, NEW d, d = [i \in 1..n |-> d[i]]
  PROVE  Len(d) = n /\ DOMAIN d = 1..n
OBVIOUS

(* Position, byte and bit. *)
LEMMA Div ==
  ASSUME NEW p \in Nat
  PROVE  /\ p \div ByteBits \in Nat /\ p % ByteBits \in 0..(ByteBits - 1)
         /\ p = ((p \div ByteBits) * ByteBits) + (p % ByteBits)
BY BitStreamAssumption

(* One bit. *)
LEMMA BitRuns ==
  ASSUME NEW size \in Nat, NEW s, Shaped(s, size), NEW b
  PROVE  Runs(s, writeBit(s, b), 1, size)
<1> DEFINE i == byteIndex(s) + 1
           v == (s.data[i] % 2^bitIndex(s))
                  + 2^bitIndex(s) * (b + 2 * (s.data[i] \div 2^(bitIndex(s) + 1)))
<1>1. writeBit(s, b) = IF ~ ok(s) THEN s
      ELSE IF i > Size(s) THEN fail(s, "Overflow")
      ELSE advance([s EXCEPT !.data[i] = v], 1)
  BY Zenon DEF writeBit
<1> HIDE DEF v
<1>2. Size(s) = size /\ DOMAIN s.data = 1..size
  BY Len1 DEF Shaped, Size
<1>3. /\ byteIndex(s) \in Nat /\ s.bitPos \in Nat
      /\ byteIndex(s) >= size => s.bitPos >= size * ByteBits
  <2>1. /\ s.bitPos \in Nat /\ byteIndex(s) = s.bitPos \div ByteBits
    BY DEF Shaped, byteIndex
  <2>2. \A q, r \in Nat : q >= size => q * ByteBits + r >= size * ByteBits
    BY BitStreamAssumption
  <2> QED
    BY <2>1, <2>2, Div
<1>4. CASE ~ ok(s)
  BY <1>1, <1>4 DEF Runs
<1>5. CASE ok(s) /\ i > Size(s)
  <2>1. writeBit(s, b) = [data |-> s.data, bitPos |-> s.bitPos, streamErr |-> "Overflow"]
    BY <1>1, <1>5 DEF fail, Shaped
  <2>2. s.bitPos + 1 > size * ByteBits
    BY <1>2, <1>3, <1>5, BitStreamAssumption
  <2> QED
    BY <1>5, <2>1, <2>2 DEF Runs, Shaped, ok
<1>6. CASE ok(s) /\ ~ (i > Size(s))
  <2>1. writeBit(s, b) =
          [data |-> [s.data EXCEPT ![i] = v], bitPos |-> s.bitPos + 1, streamErr |-> "Ok"]
    BY <1>1, <1>6 DEF advance, Shaped, ok
  <2>2. [s.data EXCEPT ![i] = v] = [j \in 1..size |-> [s.data EXCEPT ![i] = v][j]]
    BY <1>2
  <2> QED
    BY <1>3, <1>6, <2>1, <2>2 DEF Runs, Shaped, ok
<1> QED
  BY <1>4, <1>5, <1>6

(* One run after the other. *)
LEMMA RunsOn ==
  ASSUME NEW size \in Nat, NEW s, Shaped(s, size), NEW t, NEW u, NEW m \in Nat, NEW n \in Nat,
         Runs(s, t, m, size), Runs(t, u, n, size)
  PROVE  Runs(s, u, m + n, size)
<1>1. size * ByteBits \in Nat /\ s.bitPos \in Nat /\ t.bitPos \in Nat /\ u.bitPos \in Nat
  BY BitStreamAssumption DEF Runs, Shaped
<1> DEFINE end == size * ByteBits
<1> HIDE DEF end
<1>2. end \in Nat
  BY <1>1 DEF end
<1>3. \A a \in Nat : a + m > end => a + (m + n) > end
  BY <1>2
<1>4. \A a \in Nat : (a + m) + n = a + (m + n)
  OBVIOUS
<1> QED
  BY <1>1, <1>2, <1>3, <1>4 DEF Runs, ok, end

(* A function on an interval. *)
UpTo(f, m) == f = [i \in 0..m |-> f[i]]

(* So many steps, each of d bits. *)
LEMMA StepsRun ==
  ASSUME NEW size \in Nat, NEW k \in Nat, NEW d \in Nat, NEW f,
         Shaped(f[0], size),
         \A i \in 1..k : Shaped(f[i - 1], size) => Runs(f[i - 1], f[i], d, size)
  PROVE  Runs(f[0], f[k], k * d, size)
<1> DEFINE P == {m \in 0..k : Runs(f[0], f[m], m * d, size)}
<1>1. 0 \in P
  <2>1. f[0].bitPos \in Nat
    BY DEF Shaped
  <2>2. Runs(f[0], f[0], 0, size)
    BY <2>1 DEF Runs
  <2> QED
    BY <2>2
<1>2. ASSUME NEW i \in 0..(k - 1), i \in P
      PROVE  i + 1 \in P
  <2>1. Runs(f[0], f[i], i * d, size)
    BY <1>2
  <2>2. Runs(f[i], f[i + 1], d, size)
    <3>1. i + 1 \in 1..k /\ (i + 1) - 1 = i
      OBVIOUS
    <3> QED
      BY <2>1, <3>1 DEF Runs
  <2>3. i * d \in Nat /\ (i * d) + d = (i + 1) * d
    OBVIOUS
  <2>4. Runs(f[0], f[i + 1], (i * d) + d, size)
    BY <2>1, <2>2, <2>3, RunsOn
  <2> QED
    BY <2>3, <2>4
<1> HIDE DEF P
<1>3. k \in P
  BY <1>1, <1>2, Onward
<1> QED
  BY <1>3 DEF P

(* The head and the tail of writeBits: bit after bit, of whatever value.   *)
BitsOut(s, v, k) ==
  LET OneBit(w)  == [stream |-> writeBit(w.stream, w.rest % 2), rest |-> w.rest \div 2]
  IN  Repeat(OneBit, [stream |-> s, rest |-> v], k)

LEMMA BitsRun ==
  ASSUME NEW size \in Nat, NEW s, Shaped(s, size), NEW v, NEW k \in Nat
  PROVE  /\ Runs(s, BitsOut(s, v, k).stream, k, size)
         /\ BitsOut(s, v, k) = [stream |-> BitsOut(s, v, k).stream, rest |-> BitsOut(s, v, k).rest]
<1> DEFINE OneBit(w)  == [stream |-> writeBit(w.stream, w.rest % 2), rest |-> w.rest \div 2]
           start == [stream |-> s, rest |-> v]
           Step(f) == [i \in 0..k |-> IF i = 0 THEN start ELSE OneBit(f[i - 1])]
           after == CHOOSE f : f = Step(f)
<1>1. Repeat(OneBit, start, k) = after[k]
  BY Zenon DEF Repeat
<1>2. \A w : /\ OneBit(w).stream = writeBit(w.stream, w.rest % 2)
             /\ OneBit(w) = [stream |-> OneBit(w).stream, rest |-> OneBit(w).rest]
  OBVIOUS
<1>3. start.stream = s /\ start = [stream |-> start.stream, rest |-> start.rest]
  OBVIOUS
<1> HIDE DEF OneBit, start
<1>4. after = Step(after)
  <2> DEFINE P == {m \in 0..k : \E f : /\ UpTo(f, m) /\ f[0] = start
                                       /\ \A i \in 1..m : f[i] = OneBit(f[i - 1])}
  <2>1. 0 \in P
    <3> DEFINE f == [i \in 0..0 |-> start]
    <3>1. UpTo(f, 0) /\ f[0] = start
      BY DEF UpTo
    <3> HIDE DEF f
    <3>2. \A i \in 1..0 : f[i] = OneBit(f[i - 1])
      OBVIOUS
    <3> QED
      BY <3>1, <3>2
  <2>2. ASSUME NEW m \in 0..(k - 1), m \in P
        PROVE  m + 1 \in P
    <3>1. PICK f : /\ UpTo(f, m) /\ f[0] = start
                   /\ \A i \in 1..m : f[i] = OneBit(f[i - 1])
      BY <2>2
    <3>2. m \in Nat /\ 0 \in 0..m /\ m + 1 \in 0..k
      OBVIOUS
    <3>3. PICK x : x = OneBit(f[m])
      OBVIOUS
    <3>4. PICK g : g = [i \in 0..(m + 1) |-> IF i = m + 1 THEN x ELSE f[i]]
      OBVIOUS
    <3>5. /\ UpTo(g, m + 1)
          /\ \A i \in 0..m : g[i] = f[i]
          /\ g[m + 1] = x
      BY <3>2, <3>4 DEF UpTo
    <3>6. ASSUME NEW i \in 1..(m + 1)
          PROVE  g[i] = OneBit(g[i - 1])
      <4>1. CASE i = m + 1
        <5>1. i - 1 = m /\ m \in 0..m
          BY <4>1
        <5>2. g[i - 1] = f[m] /\ g[i] = x
          BY <3>5, <4>1, <5>1
        <5> QED
          BY <3>3, <4>1, <5>2
      <4>2. CASE i # m + 1
        <5>1. i \in 1..m /\ i \in 0..m /\ i - 1 \in 0..m
          BY <4>2
        <5>2. g[i - 1] = f[i - 1] /\ g[i] = f[i]
          BY <3>5, <5>1
        <5> QED
          BY <3>1, <5>1, <5>2
      <4> QED
        BY <4>1, <4>2
    <3>7. f[0] = start
      BY <3>1
    <3>8. g[0] = start
      BY <3>2, <3>5, <3>7
    <3> QED
      BY <3>2, <3>5, <3>6, <3>8
  <2> HIDE DEF P
  <2>3. k \in P
    BY <2>1, <2>2, Onward
  <2> USE DEF P
  <2>4. PICK f : /\ UpTo(f, k) /\ f[0] = start
                 /\ \A i \in 1..k : f[i] = OneBit(f[i - 1])
    BY <2>3
  <2>5. f = Step(f)
    <3>1. ASSUME NEW i \in 0..k
          PROVE  f[i] = IF i = 0 THEN start ELSE OneBit(f[i - 1])
      <4>1. i # 0 => i \in 1..k
        OBVIOUS
      <4> QED
        BY <2>4, <4>1
    <3> QED
      BY <2>4, <3>1 DEF UpTo
  <2> HIDE DEF Step
  <2> QED
    BY <2>5
<1> HIDE DEF after
<1>5. /\ after[0] = start
      /\ \A i \in 1..k : after[i] = OneBit(after[i - 1])
  <2>1. after[0] = start
    BY <1>4
  <2>2. ASSUME NEW i \in 1..k
        PROVE  after[i] = OneBit(after[i - 1])
    <3>1. i \in 0..k /\ i # 0
      OBVIOUS
    <3>2. Step(after)[i] = OneBit(after[i - 1])
      BY <3>1
    <3> QED
      BY <1>4, <3>2
  <2> QED
    BY <2>1, <2>2
<1> DEFINE f == [i \in 0..k |-> after[i].stream]
<1>6. Shaped(f[0], size)
  BY <1>3, <1>5
<1>7. ASSUME NEW i \in 1..k, Shaped(f[i - 1], size)
      PROVE  Runs(f[i - 1], f[i], 1, size)
  <2>1. PICK w : w = after[i - 1]
    OBVIOUS
  <2>2. f[i - 1] = w.stream /\ f[i] = OneBit(w).stream
    BY <1>5, <2>1
  <2>3. PICK b : b = w.rest % 2
    OBVIOUS
  <2>4. f[i] = writeBit(w.stream, b)
    BY <1>2, <2>2, <2>3
  <2> QED
    BY <1>7, <2>2, <2>4, BitRuns
<1>8. f[0] = s /\ f[k] = after[k].stream
  BY <1>3, <1>5
<1> HIDE DEF f
<1>9. Runs(f[0], f[k], k * 1, size)
  BY <1>6, <1>7, StepsRun
<1>10. after[k] = [stream |-> after[k].stream, rest |-> after[k].rest]
  <2>1. CASE k = 0
    BY <1>3, <1>5, <2>1
  <2>2. CASE k # 0
    <3>1. PICK w : w = after[k - 1]
      OBVIOUS
    <3>2. after[k] = OneBit(w)
      BY <1>5, <2>2, <3>1
    <3> QED
      BY <1>2, <3>2
  <2> QED
    BY <2>1, <2>2
<1>11. k * 1 = k
  OBVIOUS
<1>12. PICK last : last = after[k]
  OBVIOUS
<1>13. BitsOut(s, v, k) = last
  <2>1. BitsOut(s, v, k) = Repeat(OneBit, start, k)
    BY Zenon DEF BitsOut, OneBit, start
  <2> QED
    BY Zenon, <1>1, <1>12, <2>1 DEF after
<1> QED
  BY <1>8, <1>9, <1>10, <1>11, <1>12, <1>13

(* A word holds a byte after every shift. *)
LEMMA BlockHolds ==
  ASSUME NEW shift \in 0..(ByteBits - 1)
  PROVE  MaxBlock(shift) \in Nat \ {0}
<1> DEFINE room == WordBits - shift
<1>1. room \in Nat /\ room >= ByteBits
  BY BitStreamAssumption
<1> HIDE DEF room
<1>2. /\ room \div ByteBits \in Nat /\ room % ByteBits \in 0..(ByteBits - 1)
      /\ room = ((room \div ByteBits) * ByteBits) + (room % ByteBits)
  BY <1>1, Div
<1>3. room \div ByteBits # 0
  BY <1>1, <1>2, BitStreamAssumption
<1> QED
  BY <1>2, <1>3 DEF MaxBlock, room

(* A word that is put leaves the buffer its size. *)
LEMMA PutKeeps ==
  ASSUME NEW size \in Nat, NEW d, d = [i \in 1..size |-> d[i]], NEW dst, NEW block, NEW shift
  PROVE  PutBlock(d, dst, block, shift) = [i \in 1..size |-> PutBlock(d, dst, block, shift)[i]]
<1> DEFINE u == Wrap(Pack(block) * 2^shift)
           k == Len(block)
           at(i) == IF i = dst THEN (d[i] % 2^shift) + ByteOf(u, 0)
                    ELSE IF i = dst + k THEN ((d[i] \div 2^shift) * 2^shift) + ByteOf(u, k)
                    ELSE IF i \in dst..(dst + k) THEN ByteOf(u, i - dst) ELSE d[i]
<1>1. PutBlock(d, dst, block, shift) = [i \in DOMAIN d |-> at(i)]
  BY Zenon DEF PutBlock
<1>2. DOMAIN d = 1..size
  BY Len1
<1> HIDE DEF at
<1> QED
  BY <1>1, <1>2

(* The words of a run of bytes leave it its size. *)
LEMMA WordsKeep ==
  ASSUME NEW size \in Nat, NEW s, Shaped(s, size), NEW out, NEW count \in Nat,
         NEW shift \in 0..(ByteBits - 1), NEW start
  PROVE  Words(s, out, count, shift, start) =
           [i \in 1..size |-> Words(s, out, count, shift, start)[i]]
<1> DEFINE blocks == Blocks(count, shift)
           k == Len(blocks)
           Next1(d, j) == PutBlock(d, start + blocks[j].first,
                                 SubSeq(out, blocks[j].first + 1, blocks[j].first + blocks[j].size), shift)
           Step(f) == [j \in 0..k |-> IF j = 0 THEN s.data ELSE Next1(f[j - 1], j)]
           put == CHOOSE f : f = Step(f)
<1>1. k \in Nat
  <2>1. PICK most : most = MaxBlock(shift)
    OBVIOUS
  <2>2. most \in Nat \ {0}
    BY <2>1, BlockHolds
  <2>3. PICK n : n = ((count + most - 1) \div most)
    OBVIOUS
  <2>4. n \in Nat
    BY <2>2, <2>3
  <2>5. blocks = [j \in 1..n |-> [first |-> (j - 1) * most, size |-> Least(most, count - (j - 1) * most)]]
    BY <2>1, <2>3 DEF Blocks
  <2> HIDE DEF blocks
  <2> QED
    BY <2>4, <2>5
<1> HIDE DEF blocks, k
<1>2. \A d, j : d = [i \in 1..size |-> d[i]] => Next1(d, j) = [i \in 1..size |-> Next1(d, j)[i]]
  BY PutKeeps
<1> HIDE DEF Next1
<1>3. PICK base : base = s.data
  OBVIOUS
<1>4. base = [i \in 1..size |-> base[i]]
  BY <1>3 DEF Shaped
<1>5. put = Step(put)
  <2> DEFINE P == {m \in 0..k : \E f : /\ UpTo(f, m) /\ f[0] = base
                                       /\ \A i \in 1..m : f[i] = Next1(f[i - 1], i)}
  <2>1. 0 \in P
    <3> DEFINE f == [i \in 0..0 |-> base]
    <3>1. UpTo(f, 0) /\ f[0] = base
      BY DEF UpTo
    <3> HIDE DEF f
    <3>2. \A i \in 1..0 : f[i] = Next1(f[i - 1], i)
      OBVIOUS
    <3> QED
      BY <1>1, <3>1, <3>2
  <2>2. ASSUME NEW m \in 0..(k - 1), m \in P
        PROVE  m + 1 \in P
    <3>1. PICK f : /\ UpTo(f, m) /\ f[0] = base
                   /\ \A i \in 1..m : f[i] = Next1(f[i - 1], i)
      BY <2>2
    <3>2. m \in Nat /\ 0 \in 0..m /\ m + 1 \in 0..k
      BY <1>1
    <3>3. PICK x : x = Next1(f[m], m + 1)
      OBVIOUS
    <3>4. PICK g : g = [i \in 0..(m + 1) |-> IF i = m + 1 THEN x ELSE f[i]]
      OBVIOUS
    <3>5. /\ UpTo(g, m + 1)
          /\ \A i \in 0..m : g[i] = f[i]
          /\ g[m + 1] = x
      BY <3>2, <3>4 DEF UpTo
    <3>6. ASSUME NEW i \in 1..(m + 1)
          PROVE  g[i] = Next1(g[i - 1], i)
      <4>1. CASE i = m + 1
        <5>1. i - 1 = m /\ m \in 0..m
          BY <4>1
        <5>2. g[i - 1] = f[m] /\ g[i] = x
          BY <3>5, <4>1, <5>1
        <5> QED
          BY <3>3, <4>1, <5>2
      <4>2. CASE i # m + 1
        <5>1. i \in 1..m /\ i \in 0..m /\ i - 1 \in 0..m
          BY <4>2
        <5>2. g[i - 1] = f[i - 1] /\ g[i] = f[i]
          BY <3>5, <5>1
        <5> QED
          BY <3>1, <5>1, <5>2
      <4> QED
        BY <4>1, <4>2
    <3>7. f[0] = base
      BY <3>1
    <3>8. g[0] = base
      BY <3>2, <3>5, <3>7
    <3> QED
      BY <3>2, <3>5, <3>6, <3>8
  <2> HIDE DEF P
  <2>3. k \in P
    BY <1>1, <2>1, <2>2, Onward
  <2> USE DEF P
  <2>4. PICK f : /\ UpTo(f, k) /\ f[0] = base
                 /\ \A i \in 1..k : f[i] = Next1(f[i - 1], i)
    BY <2>3
  <2>5. f = Step(f)
    <3>1. ASSUME NEW i \in 0..k
          PROVE  f[i] = IF i = 0 THEN s.data ELSE Next1(f[i - 1], i)
      <4>1. i # 0 => i \in 1..k
        BY <1>1, <3>1
      <4> QED
        BY <1>3, <2>4, <4>1
    <3> QED
      BY <2>4, <3>1 DEF UpTo
  <2> HIDE DEF Step
  <2> QED
    BY <2>5
<1> HIDE DEF put
<1>6. /\ put[0] = base
      /\ \A i \in 1..k : put[i] = Next1(put[i - 1], i)
  <2>1. put[0] = base
    BY <1>1, <1>3, <1>5
  <2>2. ASSUME NEW i \in 1..k
        PROVE  put[i] = Next1(put[i - 1], i)
    <3>1. i \in 0..k /\ i # 0
      BY <1>1, <2>2
    <3>2. Step(put)[i] = Next1(put[i - 1], i)
      BY <3>1
    <3> QED
      BY <1>5, <3>2
  <2> QED
    BY <2>1, <2>2
<1>7. ASSUME NEW i \in 0..(k - 1), put[i] = [n \in 1..size |-> put[i][n]]
      PROVE  put[i + 1] = [n \in 1..size |-> put[i + 1][n]]
  <2>1. PICK d : d = put[i]
    OBVIOUS
  <2>2. PICK e : e = Next1(d, i + 1)
    OBVIOUS
  <2>3. d = [n \in 1..size |-> d[n]]
    BY <1>7, <2>1
  <2>4. e = [n \in 1..size |-> e[n]]
    BY <1>2, <2>2, <2>3
  <2>5. i + 1 \in 1..k /\ (i + 1) - 1 = i
    BY <1>1
  <2>6. put[i + 1] = e
    BY <1>6, <2>1, <2>2, <2>5
  <2> QED
    BY <2>4, <2>6
<1>8. put[0] = [n \in 1..size |-> put[0][n]]
  BY <1>4, <1>6
<1>9. put[k] = [n \in 1..size |-> put[k][n]]
  <2> DEFINE P == {m \in 0..k : put[m] = [n \in 1..size |-> put[m][n]]}
  <2>1. 0 \in P
    BY <1>1, <1>8
  <2>2. \A i \in 0..(k - 1) : i \in P => i + 1 \in P
    BY <1>1, <1>7
  <2> HIDE DEF P
  <2>3. k \in P
    BY <1>1, <2>1, <2>2, Onward
  <2> QED
    BY <2>3 DEF P
<1> QED
  BY Zenon, <1>9 DEF Words, put, k, blocks, Next1

(* So many bytes, from a sequence that may be too short. *)
LEMMA BytesRun ==
  ASSUME NEW size \in Nat, NEW s, Shaped(s, size), NEW out, Len(out) \in Nat, NEW count \in Nat
  PROVE  /\ count <= Len(out) => Runs(s, writeBytes(s, out, count), count * ByteBits, size)
         /\ count > Len(out) =>
              writeBytes(s, out, count) = IF ok(s) THEN fail(s, "BadArg") ELSE s
<1> DEFINE shift  == bitIndex(s)
           needed == count + (IF shift = 0 THEN 0 ELSE 1)
           start  == byteIndex(s) + 1
           blocks == Blocks(count, shift)
           put == CHOOSE f : f = [j \in 0..Len(blocks) |->
             IF j = 0 THEN s.data
             ELSE LET b == blocks[j]
                  IN  PutBlock(f[j - 1], start + b.first,
                               SubSeq(out, b.first + 1, b.first + b.size), shift)]
           copied == [i \in DOMAIN s.data |->
                        IF i \in start..(start + count - 1) THEN out[i - start + 1] ELSE s.data[i]]
           data == IF shift = 0 THEN copied ELSE put[Len(blocks)]
<1>1. writeBytes(s, out, count) =
        IF ~ ok(s) \/ count = 0 THEN s
        ELSE IF count > Len(out) THEN fail(s, "BadArg")
        ELSE IF Size(s) - byteIndex(s) < needed THEN fail(s, "Overflow")
        ELSE advance([s EXCEPT !.data = data], count * ByteBits)
  BY Zenon DEF writeBytes
<1>2. /\ s.bitPos \in Nat /\ byteIndex(s) \in Nat /\ shift \in 0..(ByteBits - 1)
      /\ s.bitPos = (byteIndex(s) * ByteBits) + shift
  <2>1. s.bitPos \in Nat
    BY DEF Shaped
  <2> QED
    BY <2>1, Div DEF byteIndex, bitIndex
<1>3. Size(s) = size /\ DOMAIN s.data = 1..size
  BY Len1 DEF Shaped, Size
<1>4. put[Len(blocks)] = [i \in 1..size |-> put[Len(blocks)][i]]
  <2>1. shift \in 0..(ByteBits - 1)
    BY <1>2
  <2>2. put[Len(blocks)] = Words(s, out, count, shift, start)
    BY Zenon DEF Words
  <2> HIDE DEF put, blocks, shift, start
  <2> QED
    BY <2>1, <2>2, WordsKeep
<1>5. data = [i \in 1..size |-> data[i]]
  <2> HIDE DEF put, start, shift, blocks
  <2> QED
    BY <1>3, <1>4
<1> HIDE DEF data, put, copied, blocks, start
<1>6. CASE ~ ok(s) \/ count = 0
  <2>1. writeBytes(s, out, count) = s
    BY <1>1, <1>6
  <2>2. count = 0 => s.bitPos + (count * ByteBits) = s.bitPos /\ ~ (count > Len(out))
    BY <1>2, BitStreamAssumption
  <2> QED
    BY <1>6, <2>1, <2>2 DEF Runs, ok
<1>7. CASE ok(s) /\ count # 0 /\ count > Len(out)
  <2>1. writeBytes(s, out, count) = fail(s, "BadArg")
    BY <1>1, <1>7
  <2> QED
    BY <1>7, <2>1
<1>8. CASE ok(s) /\ count # 0 /\ ~ (count > Len(out)) /\ size - byteIndex(s) < needed
  <2>1. writeBytes(s, out, count) = [data |-> s.data, bitPos |-> s.bitPos, streamErr |-> "Overflow"]
    BY <1>1, <1>3, <1>8 DEF fail, Shaped
  <2>2. s.bitPos + (count * ByteBits) > size * ByteBits
    <3>1. PICK i, r \in Nat : i = byteIndex(s) /\ r = shift
      BY <1>2, BitStreamAssumption
    <3> HIDE DEF shift
    <3>2. CASE shift = 0
      <4>1. i + count >= size + 1
        BY <1>2, <1>8, <3>1, <3>2
      <4>2. (i + count) * ByteBits >= (size + 1) * ByteBits
        BY <4>1, BitStreamAssumption
      <4>3. (i + count) * ByteBits = (i * ByteBits) + (count * ByteBits)
        BY BitStreamAssumption
      <4>4. (size + 1) * ByteBits = (size * ByteBits) + ByteBits
        BY BitStreamAssumption
      <4> QED
        BY <1>2, <3>1, <3>2, <4>2, <4>3, <4>4, BitStreamAssumption
    <3>3. CASE shift # 0
      <4>1. i + count >= size
        BY <1>2, <1>8, <3>1, <3>3
      <4>2. (i + count) * ByteBits >= size * ByteBits
        BY <4>1, BitStreamAssumption
      <4>3. (i + count) * ByteBits = (i * ByteBits) + (count * ByteBits)
        BY BitStreamAssumption
      <4> QED
        BY <1>2, <3>1, <3>3, <4>2, <4>3, BitStreamAssumption
    <3> QED
      BY <3>2, <3>3
  <2> QED
    BY <1>2, <1>8, <2>1, <2>2 DEF Runs, Shaped, ok
<1>9. CASE ok(s) /\ count # 0 /\ ~ (count > Len(out)) /\ ~ (size - byteIndex(s) < needed)
  <2>1. writeBytes(s, out, count) =
          [data |-> data, bitPos |-> s.bitPos + (count * ByteBits), streamErr |-> "Ok"]
    BY <1>1, <1>3, <1>9 DEF advance, Shaped, ok
  <2>2. s.bitPos + (count * ByteBits) \in Nat
    BY <1>2, BitStreamAssumption
  <2> QED
    BY <1>5, <1>9, <2>1, <2>2 DEF Runs, Shaped, ok
<1> QED
  BY <1>6, <1>7, <1>8, <1>9


(* Its body: byte after byte. *)
BytesOut(s, v, k) ==
  LET OneByte(w) == [stream |-> writeBytes(w.stream, <<w.rest % 2^ByteBits>>, 1),
                     rest |-> w.rest \div 2^ByteBits]
  IN  Repeat(OneByte, [stream |-> s, rest |-> v], k)

LEMMA BytesOutRun ==
  ASSUME NEW size \in Nat, NEW s, Shaped(s, size), NEW v, NEW k \in Nat
  PROVE  /\ Runs(s, BytesOut(s, v, k).stream, k * ByteBits, size)
         /\ BytesOut(s, v, k) = [stream |-> BytesOut(s, v, k).stream,
                                  rest |-> BytesOut(s, v, k).rest]
<1> DEFINE OneByte(w) == [stream |-> writeBytes(w.stream, <<w.rest % 2^ByteBits>>, 1),
                          rest |-> w.rest \div 2^ByteBits]
           start == [stream |-> s, rest |-> v]
           Step(f) == [i \in 0..k |-> IF i = 0 THEN start ELSE OneByte(f[i - 1])]
           after == CHOOSE f : f = Step(f)
<1>1. Repeat(OneByte, start, k) = after[k]
  BY Zenon DEF Repeat
<1>2. \A w : \E b : /\ OneByte(w).stream = writeBytes(w.stream, <<b>>, 1)
                     /\ OneByte(w) = [stream |-> OneByte(w).stream, rest |-> OneByte(w).rest]
  <2> TAKE w
  <2> WITNESS w.rest % 2^ByteBits
  <2>1. OneByte(w).stream = writeBytes(w.stream, <<w.rest % 2^ByteBits>>, 1)
    BY Zenon
  <2>2. OneByte(w) = [stream |-> OneByte(w).stream, rest |-> OneByte(w).rest]
    <3>1. PICK a, b : /\ a = writeBytes(w.stream, <<w.rest % 2^ByteBits>>, 1)
                      /\ b = w.rest \div 2^ByteBits
      BY Zenon
    <3>2. OneByte(w) = [stream |-> a, rest |-> b]
      BY Zenon, <3>1
    <3> HIDE DEF OneByte
    <3> QED
      BY <3>2
  <2> QED
    BY Zenon, <2>1, <2>2
<1>3. start.stream = s /\ start = [stream |-> start.stream, rest |-> start.rest]
  OBVIOUS
<1> HIDE DEF OneByte, start
<1>4. after = Step(after)
  <2> DEFINE P == {m \in 0..k : \E f : /\ UpTo(f, m) /\ f[0] = start
                                       /\ \A i \in 1..m : f[i] = OneByte(f[i - 1])}
  <2>1. 0 \in P
    <3> DEFINE f == [i \in 0..0 |-> start]
    <3>1. UpTo(f, 0) /\ f[0] = start
      BY DEF UpTo
    <3> HIDE DEF f
    <3>2. \A i \in 1..0 : f[i] = OneByte(f[i - 1])
      OBVIOUS
    <3> QED
      BY <3>1, <3>2
  <2>2. ASSUME NEW m \in 0..(k - 1), m \in P
        PROVE  m + 1 \in P
    <3>1. PICK f : /\ UpTo(f, m) /\ f[0] = start
                   /\ \A i \in 1..m : f[i] = OneByte(f[i - 1])
      BY <2>2
    <3>2. m \in Nat /\ 0 \in 0..m /\ m + 1 \in 0..k
      OBVIOUS
    <3>3. PICK x : x = OneByte(f[m])
      OBVIOUS
    <3>4. PICK g : g = [i \in 0..(m + 1) |-> IF i = m + 1 THEN x ELSE f[i]]
      OBVIOUS
    <3>5. /\ UpTo(g, m + 1)
          /\ \A i \in 0..m : g[i] = f[i]
          /\ g[m + 1] = x
      BY <3>2, <3>4 DEF UpTo
    <3>6. ASSUME NEW i \in 1..(m + 1)
          PROVE  g[i] = OneByte(g[i - 1])
      <4>1. CASE i = m + 1
        <5>1. i - 1 = m /\ m \in 0..m
          BY <4>1
        <5>2. g[i - 1] = f[m] /\ g[i] = x
          BY <3>5, <4>1, <5>1
        <5> QED
          BY <3>3, <4>1, <5>2
      <4>2. CASE i # m + 1
        <5>1. i \in 1..m /\ i \in 0..m /\ i - 1 \in 0..m
          BY <4>2
        <5>2. g[i - 1] = f[i - 1] /\ g[i] = f[i]
          BY <3>5, <5>1
        <5> QED
          BY <3>1, <5>1, <5>2
      <4> QED
        BY <4>1, <4>2
    <3>7. f[0] = start
      BY <3>1
    <3>8. g[0] = start
      BY <3>2, <3>5, <3>7
    <3> QED
      BY <3>2, <3>5, <3>6, <3>8
  <2> HIDE DEF P
  <2>3. k \in P
    BY <2>1, <2>2, Onward
  <2> USE DEF P
  <2>4. PICK f : /\ UpTo(f, k) /\ f[0] = start
                 /\ \A i \in 1..k : f[i] = OneByte(f[i - 1])
    BY <2>3
  <2>5. f = Step(f)
    <3>1. ASSUME NEW i \in 0..k
          PROVE  f[i] = IF i = 0 THEN start ELSE OneByte(f[i - 1])
      <4>1. i # 0 => i \in 1..k
        BY <3>1
      <4> QED
        BY <2>4, <4>1
    <3> QED
      BY <2>4, <3>1 DEF UpTo
  <2> HIDE DEF Step
  <2> QED
    BY <2>5
<1> HIDE DEF after
<1>5. /\ after[0] = start
      /\ \A i \in 1..k : after[i] = OneByte(after[i - 1])
  <2>1. after[0] = start
    BY <1>4
  <2>2. ASSUME NEW i \in 1..k
        PROVE  after[i] = OneByte(after[i - 1])
    <3>1. i \in 0..k /\ i # 0
      BY <2>2
    <3>2. Step(after)[i] = OneByte(after[i - 1])
      BY <3>1
    <3> QED
      BY <1>4, <3>2
  <2> QED
    BY <2>1, <2>2
<1> DEFINE f == [i \in 0..k |-> after[i].stream]
<1>6. Shaped(f[0], size)
  BY <1>3, <1>5
<1>7. ASSUME NEW i \in 1..k, Shaped(f[i - 1], size)
      PROVE  Runs(f[i - 1], f[i], ByteBits, size)
  <2>1. PICK w : w = after[i - 1]
    OBVIOUS
  <2>2. f[i - 1] = w.stream /\ f[i] = OneByte(w).stream
    BY <1>5, <2>1
  <2>3. PICK b : OneByte(w).stream = writeBytes(w.stream, <<b>>, 1)
    BY <1>2
  <2>4. PICK one : one = <<b>>
    OBVIOUS
  <2>5. Len(one) = 1 /\ 1 * ByteBits = ByteBits
    BY <2>4, BitStreamAssumption
  <2>6. f[i] = writeBytes(w.stream, one, 1) /\ Shaped(w.stream, size)
    BY <1>7, <2>2, <2>3, <2>4
  <2>7. Runs(w.stream, writeBytes(w.stream, one, 1), 1 * ByteBits, size)
    BY <2>5, <2>6, BytesRun
  <2> QED
    BY <2>2, <2>5, <2>6, <2>7
<1>8. f[0] = s /\ f[k] = after[k].stream
  BY <1>3, <1>5
<1> HIDE DEF f
<1>9. Runs(f[0], f[k], k * ByteBits, size)
  BY <1>6, <1>7, StepsRun, BitStreamAssumption
<1>10. after[k] = [stream |-> after[k].stream, rest |-> after[k].rest]
  <2>1. CASE k = 0
    BY <1>3, <1>5, <2>1
  <2>2. CASE k # 0
    <3>1. PICK w : w = after[k - 1]
      OBVIOUS
    <3>2. after[k] = OneByte(w)
      BY <1>5, <2>2, <3>1
    <3> QED
      BY <1>2, <3>2
  <2> QED
    BY <2>1, <2>2
<1>11. PICK last : last = after[k]
  OBVIOUS
<1>12. BytesOut(s, v, k) = last
  <2>1. BytesOut(s, v, k) = Repeat(OneByte, start, k)
    BY Zenon DEF BytesOut, OneByte, start
  <2> QED
    BY Zenon, <1>1, <1>11, <2>1 DEF after
<1> HIDE DEF after
<1> QED
  BY <1>8, <1>9, <1>10, <1>11, <1>12

(* The bits of writeAlign. *)
ZerosOut(s, k) == LET Zero(w) == writeBit(w, 0) IN Repeat(Zero, s, k)

LEMMA ZerosRun ==
  ASSUME NEW size \in Nat, NEW s, Shaped(s, size), NEW k \in Nat
  PROVE  Runs(s, ZerosOut(s, k), k, size)
<1> DEFINE Zero(w) == writeBit(w, 0)
           Step(f) == [i \in 0..k |-> IF i = 0 THEN s ELSE Zero(f[i - 1])]
           after == CHOOSE f : f = Step(f)
<1>1. Repeat(Zero, s, k) = after[k]
  BY Zenon DEF Repeat
<1>2. \A w : Zero(w) = writeBit(w, 0)
  OBVIOUS
<1> HIDE DEF Zero
<1>4. after = Step(after)
  <2> DEFINE P == {m \in 0..k : \E f : /\ UpTo(f, m) /\ f[0] = s
                                       /\ \A i \in 1..m : f[i] = Zero(f[i - 1])}
  <2>1. 0 \in P
    <3> DEFINE f == [i \in 0..0 |-> s]
    <3>1. UpTo(f, 0) /\ f[0] = s
      BY DEF UpTo
    <3> HIDE DEF f
    <3>2. \A i \in 1..0 : f[i] = Zero(f[i - 1])
      OBVIOUS
    <3> QED
      BY <3>1, <3>2
  <2>2. ASSUME NEW m \in 0..(k - 1), m \in P
        PROVE  m + 1 \in P
    <3>1. PICK f : /\ UpTo(f, m) /\ f[0] = s
                   /\ \A i \in 1..m : f[i] = Zero(f[i - 1])
      BY <2>2
    <3>2. m \in Nat /\ 0 \in 0..m /\ m + 1 \in 0..k
      OBVIOUS
    <3>3. PICK x : x = Zero(f[m])
      OBVIOUS
    <3>4. PICK g : g = [i \in 0..(m + 1) |-> IF i = m + 1 THEN x ELSE f[i]]
      OBVIOUS
    <3>5. /\ UpTo(g, m + 1)
          /\ \A i \in 0..m : g[i] = f[i]
          /\ g[m + 1] = x
      BY <3>2, <3>4 DEF UpTo
    <3>6. ASSUME NEW i \in 1..(m + 1)
          PROVE  g[i] = Zero(g[i - 1])
      <4>1. CASE i = m + 1
        <5>1. i - 1 = m /\ m \in 0..m
          BY <4>1
        <5>2. g[i - 1] = f[m] /\ g[i] = x
          BY <3>5, <4>1, <5>1
        <5> QED
          BY <3>3, <4>1, <5>2
      <4>2. CASE i # m + 1
        <5>1. i \in 1..m /\ i \in 0..m /\ i - 1 \in 0..m
          BY <4>2
        <5>2. g[i - 1] = f[i - 1] /\ g[i] = f[i]
          BY <3>5, <5>1
        <5> QED
          BY <3>1, <5>1, <5>2
      <4> QED
        BY <4>1, <4>2
    <3>7. f[0] = s
      BY <3>1
    <3>8. g[0] = s
      BY <3>2, <3>5, <3>7
    <3> QED
      BY <3>2, <3>5, <3>6, <3>8
  <2> HIDE DEF P
  <2>3. k \in P
    BY <2>1, <2>2, Onward
  <2> USE DEF P
  <2>4. PICK f : /\ UpTo(f, k) /\ f[0] = s
                 /\ \A i \in 1..k : f[i] = Zero(f[i - 1])
    BY <2>3
  <2>5. f = Step(f)
    <3>1. ASSUME NEW i \in 0..k
          PROVE  f[i] = IF i = 0 THEN s ELSE Zero(f[i - 1])
      <4>1. i # 0 => i \in 1..k
        BY <3>1
      <4> QED
        BY <2>4, <4>1
    <3> QED
      BY <2>4, <3>1 DEF UpTo
  <2> HIDE DEF Step
  <2> QED
    BY <2>5
<1> HIDE DEF after
<1>5. /\ after[0] = s
      /\ \A i \in 1..k : after[i] = Zero(after[i - 1])
  <2>1. after[0] = s
    BY <1>4
  <2>2. ASSUME NEW i \in 1..k
        PROVE  after[i] = Zero(after[i - 1])
    <3>1. i \in 0..k /\ i # 0
      BY <2>2
    <3>2. Step(after)[i] = Zero(after[i - 1])
      BY <3>1
    <3> QED
      BY <1>4, <3>2
  <2> QED
    BY <2>1, <2>2
<1>6. Shaped(after[0], size)
  BY <1>5
<1>7. ASSUME NEW i \in 1..k, Shaped(after[i - 1], size)
      PROVE  Runs(after[i - 1], after[i], 1, size)
  <2>1. PICK w : w = after[i - 1]
    OBVIOUS
  <2>2. after[i] = writeBit(w, 0)
    BY <1>2, <1>5, <2>1
  <2> QED
    BY <1>7, <2>1, <2>2, BitRuns
<1>8. Runs(after[0], after[k], k * 1, size)
  BY <1>6, <1>7, StepsRun
<1>9. k * 1 = k
  OBVIOUS
<1>10. Runs(s, after[k], k, size)
  BY <1>5, <1>8, <1>9
<1>11. PICK last : last = after[k]
  OBVIOUS
<1>12. ZerosOut(s, k) = last
  <2>1. ZerosOut(s, k) = Repeat(Zero, s, k)
    BY Zenon DEF ZerosOut, Zero
  <2> QED
    BY Zenon, <1>1, <1>11, <2>1 DEF after
<1> QED
  BY <1>10, <1>11, <1>12


(* What is left of a byte, and the parts that a value is written in. *)
LEMMA Parts ==
  ASSUME NEW size \in Nat, NEW s, Shaped(s, size), NEW n \in Nat
  PROVE  /\ ToAlign(s) \in Nat
         /\ HeadBits(s, n) \in Nat /\ WholeBytes(s, n) \in Nat /\ TailBits(s, n) \in Nat
         /\ n = (HeadBits(s, n) + WholeBytes(s, n) * ByteBits) + TailBits(s, n)
<1>1. bitIndex(s) \in 0..(ByteBits - 1)
  BY Div DEF Shaped, bitIndex
<1>2. ToAlign(s) \in Nat
  <2>1. PICK left \in Nat : left = ByteBits - bitIndex(s)
    BY <1>1, BitStreamAssumption
  <2>2. left % ByteBits \in 0..(ByteBits - 1)
    BY <2>1, Div
  <2> QED
    BY <2>1, <2>2 DEF ToAlign
<1>3. HeadBits(s, n) \in Nat /\ HeadBits(s, n) <= n
  BY <1>2 DEF HeadBits, Least
<1>4. PICK head \in Nat : head = HeadBits(s, n) /\ head <= n
  BY <1>3
<1>5. PICK more \in Nat : more = n - head
  BY <1>4
<1>6. /\ more \div ByteBits \in Nat /\ more % ByteBits \in 0..(ByteBits - 1)
      /\ more = ((more \div ByteBits) * ByteBits) + (more % ByteBits)
  BY Div
<1>7. PICK whole, tail \in Nat : /\ whole = more \div ByteBits
                                 /\ tail = more % ByteBits
                                 /\ more = (whole * ByteBits) + tail
  BY <1>6, BitStreamAssumption
<1>8. WholeBytes(s, n) = whole
  BY <1>4, <1>5, <1>7 DEF WholeBytes
<1>9. PICK bits \in Nat : bits = whole * ByteBits /\ bits = ByteBits * whole
  BY BitStreamAssumption
<1>10. TailBits(s, n) = tail
  <2>1. TailBits(s, n) = (n - head) - bits
    BY <1>4, <1>8, <1>9 DEF TailBits
  <2> QED
    BY <1>5, <1>7, <1>9, <2>1
<1>11. n = (head + bits) + tail
  BY <1>4, <1>5, <1>7, <1>9
<1> QED
  BY <1>2, <1>4, <1>8, <1>9, <1>10, <1>11

(* So many bits. *)
LEMMA ValueRuns ==
  ASSUME NEW size \in Nat, NEW s, Shaped(s, size), NEW v, NEW n \in Nat
  PROVE  /\ n <= WordBits => Runs(s, writeBits(s, v, n), n, size)
         /\ n > WordBits => writeBits(s, v, n) = IF ok(s) THEN fail(s, "BadArg") ELSE s
<1> DEFINE h == HeadBits(s, n)
           m == WholeBytes(s, n)
           t == TailBits(s, n)
<1>1. h \in Nat /\ m \in Nat /\ t \in Nat /\ n = (h + m * ByteBits) + t
  BY Parts
<1> HIDE DEF h, m, t
<1>2. PICK head : head = BitsOut(s, v, h)
  OBVIOUS
<1>3. Runs(s, head.stream, h, size) /\ head = [stream |-> head.stream, rest |-> head.rest]
  BY <1>1, <1>2, BitsRun
<1>4. PICK body : body = BytesOut(head.stream, head.rest, m)
  OBVIOUS
<1>5. /\ Runs(head.stream, body.stream, m * ByteBits, size)
      /\ body = [stream |-> body.stream, rest |-> body.rest]
  <2>1. Shaped(head.stream, size)
    BY <1>3 DEF Runs
  <2> QED
    BY <1>1, <1>4, <2>1, BytesOutRun
<1>6. PICK last : last = BitsOut(body.stream, body.rest, t)
  OBVIOUS
<1>7. Runs(body.stream, last.stream, t, size)
  <2>1. Shaped(body.stream, size)
    BY <1>5 DEF Runs
  <2> QED
    BY <1>1, <1>6, <2>1, BitsRun
<1>8. Runs(s, last.stream, n, size)
  <2>1. m * ByteBits \in Nat /\ h + m * ByteBits \in Nat
    BY <1>1, BitStreamAssumption
  <2>2. Runs(s, body.stream, h + m * ByteBits, size)
    BY <1>1, <1>3, <1>5, <2>1, RunsOn
  <2> QED
    BY <1>1, <1>7, <2>1, <2>2, RunsOn
<1>9. writeBits(s, v, n) = IF ~ ok(s) THEN s
                           ELSE IF n > WordBits THEN fail(s, "BadArg") ELSE last.stream
  <2> DEFINE OneBit(w)  == [stream |-> writeBit(w.stream, w.rest % 2), rest |-> w.rest \div 2]
             OneByte(w) == [stream |-> writeBytes(w.stream, <<w.rest % 2^ByteBits>>, 1),
                            rest |-> w.rest \div 2^ByteBits]
  <2>1. Repeat(OneBit, [stream |-> s, rest |-> v], h) = head
    BY Zenon, <1>2 DEF BitsOut
  <2>2. Repeat(OneByte, head, m) = body
    <3>1. PICK first : first = [stream |-> head.stream, rest |-> head.rest]
      OBVIOUS
    <3>2. Repeat(OneByte, first, m) = body
      BY Zenon, <1>4, <3>1 DEF BytesOut
    <3>3. head = first
      BY Zenon, <1>3, <3>1
    <3> QED
      BY Zenon, <3>2, <3>3
  <2>3. Repeat(OneBit, body, t) = last
    <3>1. PICK first : first = [stream |-> body.stream, rest |-> body.rest]
      OBVIOUS
    <3>2. Repeat(OneBit, first, t) = last
      BY Zenon, <1>6, <3>1 DEF BitsOut
    <3>3. body = first
      BY Zenon, <1>5, <3>1
    <3> QED
      BY Zenon, <3>2, <3>3
  <2> QED
    BY Zenon, <2>1, <2>2, <2>3 DEF writeBits, h, m, t
<1>10. n <= WordBits <=> ~ (n > WordBits)
  BY BitStreamAssumption
<1>11. ~ ok(s) => Runs(s, s, n, size)
  BY DEF Runs
<1> QED
  BY <1>8, <1>9, <1>10, <1>11

(* Zeros up to a byte. *)
LEMMA AlignRuns ==
  ASSUME NEW size \in Nat, NEW s, Shaped(s, size)
  PROVE  Runs(s, writeAlign(s), ToAlign(s), size)
<1>1. ToAlign(s) \in Nat
  BY Parts
<1>2. Runs(s, ZerosOut(s, ToAlign(s)), ToAlign(s), size)
  BY <1>1, ZerosRun
<1>4. writeAlign(s) = IF ok(s) THEN ZerosOut(s, ToAlign(s)) ELSE s
  BY Zenon DEF writeAlign, ZerosOut
<1>5. ~ ok(s) => Runs(s, s, ToAlign(s), size)
  BY DEF Runs
<1> QED
  BY <1>2, <1>4, <1>5

(* How many bytes a varint takes. *)
LEMMA VarintIs ==
  ASSUME NEW v
  PROVE  Len(varintBytes(v)) \in Nat
<1> DEFINE Ends == {i \in 1..MaxGroups : i = MaxGroups \/ v < 2^(GroupBits * i)}
           n == FirstOf(Ends)
<1>1. MaxGroups \in Nat \ {0}
  <2>1. GroupBits \in Nat \ {0}
    BY BitStreamAssumption DEF GroupBits
  <2>2. WordBits \div GroupBits \in Nat
    BY <2>1, BitStreamAssumption
  <2> QED
    BY <2>2 DEF MaxGroups
<1>2. MaxGroups \in Ends /\ Ends \subseteq 1..MaxGroups
  <2>1. MaxGroups \in 1..MaxGroups
    BY <1>1
  <2> QED
    BY Zenon, <2>1
<1> HIDE DEF Ends
<1>3. \E i \in Ends : \A j \in Ends : i <= j
  <2>1. Ends \subseteq Nat /\ Ends # {}
    BY <1>1, <1>2
  <2> QED
    BY <2>1, LeastNat
<1>4. n \in Nat
  <2>1. n \in Ends
    BY <1>3 DEF FirstOf
  <2> HIDE DEF n
  <2>2. n \in 1..MaxGroups
    BY Zenon, <1>2, <2>1
  <2> QED
    BY <1>1, <2>2
<1> HIDE DEF n
<1>5. \E f : varintBytes(v) = [i \in 1..n |-> f[i]]
  <2> DEFINE f == [i \in 1..n |-> ((v \div 2^(GroupBits * (i - 1))) % 2^GroupBits)
                                    + (IF i < n THEN 2^GroupBits ELSE 0)]
  <2>1. varintBytes(v) = f
    BY Zenon DEF varintBytes, n, Ends
  <2>2. f = [i \in 1..n |-> f[i]]
    BY Zenon
  <2> HIDE DEF f
  <2> QED
    BY <2>1, <2>2
<1> QED
  BY <1>4, <1>5

(* And a prefix integer. *)
LEMMA PrefixIs ==
  ASSUME NEW v
  PROVE  encodePrefixIntHeader(v).extra \in Nat
<1> DEFINE Enough == {e \in 0..ByteBits : Holds(e, v)}
           extra == CHOOSE e \in 0..ByteBits : Holds(e, v) /\ \A f \in 0..(e - 1) : ~ Holds(f, v)
<1>1. ByteBits \in Enough
  <2>1. ByteBits \in 0..ByteBits
    BY BitStreamAssumption
  <2>2. Holds(ByteBits, v)
    BY Zenon DEF Holds
  <2> QED
    BY <2>1, <2>2
<1>2. PICK least \in Enough : \A e \in Enough : least <= e
  <2>1. Enough \subseteq Nat
    BY BitStreamAssumption
  <2> HIDE DEF Enough
  <2> QED
    BY <1>1, <2>1, LeastNat
<1>3. \A f \in 0..(least - 1) : f \in 0..ByteBits /\ ~ (least <= f)
  BY <1>2, BitStreamAssumption
<1>4. least \in 0..ByteBits /\ Holds(least, v) /\ \A f \in 0..(least - 1) : ~ Holds(f, v)
  BY <1>2, <1>3
<1>5. extra \in 0..ByteBits
  BY <1>4
<1>6. encodePrefixIntHeader(v).extra = extra
  <2> HIDE DEF extra
  <2>1. PICK a, b : a = Ones(extra) + (v % 2^HeaderBits(extra)) /\ b = HeaderBits(extra)
    BY Zenon
  <2>2. encodePrefixIntHeader(v) = [header |-> a, shift |-> b, extra |-> extra]
    BY Zenon, <2>1 DEF encodePrefixIntHeader, extra
  <2> QED
    BY <2>2
<1> QED
  BY <1>5, <1>6, BitStreamAssumption


-----------------------------------------------------------------------------
(* The size stream, and how it takes what the writer takes or both refuse. *)
Sized(z) ==
  /\ z = [bitPos |-> z.bitPos, streamErr |-> z.streamErr]
  /\ z.bitPos \in Nat /\ z.streamErr \in {"Ok", "BadArg"}

Follows(z, y, n) == y = IF ok(z) THEN advance(z, n) ELSE z
Refuses(s, t)    == t = IF ok(s) THEN fail(s, "BadArg") ELSE s

Alike(s, t, z, y, size) ==
  \/ \E n \in Nat : Runs(s, t, n, size) /\ Follows(z, y, n)
  \/ Refuses(s, t) /\ Refuses(z, y)

(* Runs of bytes. *)
LEMMA BytesAlike ==
  ASSUME NEW size \in Nat, NEW s, Shaped(s, size), NEW z, Sized(z),
         NEW out, Len(out) \in Nat, NEW count \in Nat
  PROVE  Alike(s, writeBytes(s, out, count), z, sizeBytes(z, Len(out), count), size)
<1>1. count * ByteBits \in Nat
  BY BitStreamAssumption
<1>2. CASE count <= Len(out)
  <2>1. Runs(s, writeBytes(s, out, count), count * ByteBits, size)
    BY <1>2, BytesRun
  <2>2. Follows(z, sizeBytes(z, Len(out), count), count * ByteBits)
    BY <1>2 DEF Follows, sizeBytes
  <2> QED
    BY <1>1, <2>1, <2>2 DEF Alike
<1>3. CASE count > Len(out)
  <2>1. Refuses(s, writeBytes(s, out, count))
    BY <1>3, BytesRun DEF Refuses
  <2>2. Refuses(z, sizeBytes(z, Len(out), count))
    BY <1>3 DEF Refuses, sizeBytes
  <2> QED
    BY <2>1, <2>2 DEF Alike
<1> QED
  BY <1>2, <1>3

(* Every item. *)
LEMMA ItemsAlike ==
  ASSUME NEW size \in Nat, NEW s, Shaped(s, size), NEW z, Sized(z),
         ok(s) => z.bitPos = s.bitPos, NEW item \in Items
  PROVE  Alike(s, Put(s, item), z, Measure(z, item), size)
<1>1. /\ item.kind \in {"bits", "bytes", "align", "require", "varint", "prefix"}
      /\ item.width \in Nat
      /\ item.kind = "bytes" => Len(item.value) \in Nat
  <2>1. /\ item.kind \in {"bits", "bytes", "align", "require", "varint", "prefix"}
        /\ item.width \in Nat
    BY Zenon, BitSessionAssumption
  <2>2. ASSUME item.kind = "bytes"
        PROVE  Len(item.value) \in Nat
    <3>1. PICK B : B = 0..(2^ByteBits - 1)
      BY Zenon
    <3>2. item.value \in Seq(B)
      BY Zenon, <2>2, <3>1, BitSessionAssumption
    <3> QED
      BY <3>2
  <2> QED
    BY <2>1, <2>2
<1>2. CASE item.kind = "bits"
  <2>1. /\ Put(s, item) = writeBits(s, item.value, item.width)
        /\ Measure(z, item) = sizeBits(z, item.width)
    BY <1>2 DEF Put, Measure
  <2>2. CASE item.width <= WordBits
    <3>1. Runs(s, Put(s, item), item.width, size)
      BY <1>1, <2>1, <2>2, ValueRuns
    <3>2. Follows(z, Measure(z, item), item.width)
      BY <1>1, <2>1, <2>2, BitStreamAssumption DEF Follows, sizeBits
    <3> QED
      BY <1>1, <3>1, <3>2 DEF Alike
  <2>3. CASE item.width > WordBits
    <3>1. Refuses(s, Put(s, item))
      BY <1>1, <2>1, <2>3, ValueRuns DEF Refuses
    <3>2. Refuses(z, Measure(z, item))
      BY <1>1, <2>1, <2>3 DEF Refuses, sizeBits
    <3> QED
      BY <3>1, <3>2 DEF Alike
  <2> QED
    BY <1>1, <2>2, <2>3, BitStreamAssumption
<1>3. CASE item.kind = "bytes"
  <2>1. /\ Put(s, item) = writeBytes(s, item.value, item.width)
        /\ Measure(z, item) = sizeBytes(z, Len(item.value), item.width)
    BY <1>3 DEF Put, Measure
  <2> QED
    BY <1>1, <1>3, <2>1, BytesAlike
<1>4. CASE item.kind = "align"
  <2>1. Put(s, item) = writeAlign(s) /\ Measure(z, item) = sizeAlign(z)
    BY <1>4 DEF Put, Measure
  <2>2. PICK n : n = ToAlign(z)
    OBVIOUS
  <2>3. n \in Nat
    <3>1. bitIndex(z) \in 0..(ByteBits - 1)
      BY Div DEF Sized, bitIndex
    <3>2. PICK left \in Nat : left = ByteBits - bitIndex(z)
      BY <3>1, BitStreamAssumption
    <3>3. left % ByteBits \in 0..(ByteBits - 1)
      BY <3>2, Div
    <3> QED
      BY <2>2, <3>2, <3>3 DEF ToAlign
  <2>4. Follows(z, Measure(z, item), n)
    BY <2>1, <2>2 DEF Follows, sizeAlign
  <2>5. Runs(s, writeAlign(s), n, size)
    <3>1. CASE ok(s)
      <4>1. ToAlign(s) = n
        BY <2>2, <3>1 DEF ToAlign, bitIndex
      <4> QED
        BY <4>1, AlignRuns
    <3>2. CASE ~ ok(s)
      <4>1. writeAlign(s) = s
        BY Zenon, <3>2 DEF writeAlign
      <4> QED
        BY <3>2, <4>1 DEF Runs
    <3> QED
      BY <3>1, <3>2
  <2> QED
    BY <2>1, <2>3, <2>4, <2>5 DEF Alike
<1>5. CASE item.kind = "require"
  <2>1. /\ Put(s, item) = require(s, item.value = 1, "BadArg")
        /\ Measure(z, item) = require(z, item.value = 1, "BadArg")
    BY <1>5 DEF Put, Measure
  <2>2. CASE item.value = 1
    <3>1. Put(s, item) = s /\ Measure(z, item) = z
      BY <2>1, <2>2 DEF require
    <3>2. Runs(s, s, 0, size)
      BY DEF Runs, Shaped
    <3>3. Follows(z, z, 0)
      BY DEF Follows, advance, Sized
    <3> QED
      BY <3>1, <3>2, <3>3 DEF Alike
  <2>3. CASE item.value # 1
    BY <2>1, <2>3 DEF require, Refuses, Alike
  <2> QED
    BY <2>2, <2>3
<1>6. CASE item.kind = "varint"
  <2>1. PICK out : out = varintBytes(item.value)
    OBVIOUS
  <2>2. Len(out) \in Nat
    BY <2>1, VarintIs
  <2>3. /\ Put(s, item) = writeBytes(s, out, Len(out))
        /\ Measure(z, item) = sizeBytes(z, Len(out), Len(out))
    BY <1>6, <2>1 DEF Put, Measure, encodeVarint
  <2> QED
    BY <2>2, <2>3, BytesAlike
<1>7. CASE item.kind = "prefix"
  <2>1. PICK h : h = encodePrefixIntHeader(item.value)
    OBVIOUS
  <2>2. h.extra \in Nat
    BY <2>1, PrefixIs
  <2>3. PICK n : n = h.extra
    OBVIOUS
  <2>4. PICK rest : rest = [i \in 1..n |-> ByteOf(item.value \div 2^h.shift, i - 1)]
    BY Zenon
  <2>5. PICK out : out = <<h.header>> \o rest
    OBVIOUS
  <2>6. Len(out) = n + 1
    <3>1. rest = [i \in 1..n |-> rest[i]]
      BY Zenon, <2>4
    <3>2. PICK S : S = {rest[i] : i \in 1..n} \cup {h.header}
      OBVIOUS
    <3>5. rest \in [1..n -> S]
      <4>1. \A i \in 1..n : rest[i] \in S
        BY <3>2
      <4> QED
        BY Zenon, <3>1, <4>1
    <3>6. n \in Nat
      BY <2>2, <2>3
    <3>3. rest \in Seq(S) /\ Len(rest) = n
      BY <3>5, <3>6
    <3>4. <<h.header>> \in Seq(S) /\ Len(<<h.header>>) = 1
      BY <3>2
    <3> QED
      BY <2>2, <2>3, <2>5, <3>3, <3>4
  <2>7. Put(s, item) = writeBytes(s, out, n + 1)
    <3>1. Put(s, item) = encodePrefixInt(s, item.value)
      BY <1>7 DEF Put
    <3>2. encodePrefixInt(s, item.value) = writeBytes(s, out, n + 1)
      BY Zenon, <2>1, <2>3, <2>4, <2>5 DEF encodePrefixInt
    <3> QED
      BY Zenon, <3>1, <3>2
  <2>8. Measure(z, item) = sizeBytes(z, n + 1, n + 1)
    BY <1>7, <2>1, <2>3 DEF Measure
  <2>9. n + 1 \in Nat
    BY <2>2, <2>3
  <2> QED
    BY <2>6, <2>7, <2>8, <2>9, BytesAlike
<1> QED
  BY <1>1, <1>2, <1>3, <1>4, <1>5, <1>6, <1>7

-----------------------------------------------------------------------------
(* The invariant: SizeTells, and what the two streams are. *)
SizeInv ==
  /\ Len(buffer) \in Nat
  /\ Shaped(writer, Len(buffer))
  /\ Sized(sizer)
  /\ SizeTells

(* Nothing is written yet. *)
LEMMA InitSizeInv == Init => SizeInv
<1> SUFFICES ASSUME Init PROVE SizeInv
  OBVIOUS
<1>1. PICK B : buffer \in Seq(B)
  BY Zenon, BitSessionAssumption DEF Init
<1>2. Len(buffer) \in Nat /\ buffer = [i \in 1..Len(buffer) |-> buffer[i]]
  BY <1>1
<1>3. writer = [data |-> buffer, bitPos |-> 0, streamErr |-> "Ok"]
  BY DEF Init, WriteStream
<1>4. sizer = [bitPos |-> 0, streamErr |-> "Ok"]
  BY DEF Init, SizeWriteStream
<1>5. Shaped(writer, Len(buffer))
  BY <1>2, <1>3 DEF Shaped
<1> QED
  BY <1>2, <1>3, <1>4, <1>5 DEF SizeInv, Sized, SizeTells

(* An item moves both streams alike. *)
LEMMA WriteKeepsSize ==
  ASSUME SizeInv, NEW item \in Items, Write(item)
  PROVE  SizeInv'
<1>1. /\ buffer' = buffer /\ writer' = Put(writer, item) /\ sizer' = Measure(sizer, item)
  BY Zenon DEF Write
<1>2. PICK size \in Nat : size = Len(buffer)
  BY DEF SizeInv
<1>3. Shaped(writer, size) /\ Sized(sizer) /\ SizeTells
  BY <1>2 DEF SizeInv
<1>4. Alike(writer, writer', sizer, sizer', size)
  <2>1. ok(writer) => sizer.bitPos = writer.bitPos
    BY <1>3 DEF SizeTells, ok
  <2> QED
    BY <1>1, <1>3, <2>1, ItemsAlike
<1>5. PICK end \in Nat : end = size * ByteBits
  BY BitStreamAssumption
<1>6. SizeTells <=>
        CASE writer.streamErr = "Ok"       -> sizer = [bitPos |-> writer.bitPos, streamErr |-> "Ok"]
          [] writer.streamErr = "Overflow" -> sizer.bitPos > end \/ ~ ok(sizer)
          [] writer.streamErr = "BadArg"   -> sizer.streamErr = "BadArg"
  BY <1>2, <1>5 DEF SizeTells
<1>7. SizeTells' <=>
        CASE writer'.streamErr = "Ok"       -> sizer' = [bitPos |-> writer'.bitPos, streamErr |-> "Ok"]
          [] writer'.streamErr = "Overflow" -> sizer'.bitPos > end \/ ~ ok(sizer')
          [] writer'.streamErr = "BadArg"   -> sizer'.streamErr = "BadArg"
  BY <1>1, <1>2, <1>5 DEF SizeTells, ok
<1>8. CASE \E n \in Nat : Runs(writer, writer', n, size) /\ Follows(sizer, sizer', n)
  <2>1. PICK n \in Nat : Runs(writer, writer', n, size) /\ Follows(sizer, sizer', n)
    BY <1>8
  <2>2. Shaped(writer', size) /\ Sized(sizer')
    BY <1>3, <2>1 DEF Runs, Follows, Sized, advance, ok
  <2>3. SizeTells'
    <3>1. CASE ok(writer)
      <4>1. sizer = [bitPos |-> writer.bitPos, streamErr |-> "Ok"]
        BY <1>3, <1>6, <3>1 DEF ok
      <4>2. sizer' = [bitPos |-> writer.bitPos + n, streamErr |-> "Ok"]
        BY <2>1, <4>1 DEF Follows, advance, ok
      <4>3. \/ ok(writer') /\ writer'.bitPos = writer.bitPos + n
            \/ writer'.streamErr = "Overflow" /\ writer.bitPos + n > end
        BY <1>5, <2>1, <3>1 DEF Runs
      <4> QED
        BY <1>7, <4>2, <4>3 DEF ok
    <3>2. CASE ~ ok(writer)
      <4>1. writer'.streamErr = writer.streamErr /\ writer.streamErr \in {"Overflow", "BadArg"}
        BY <1>3, <2>1, <3>2 DEF Runs, Shaped, ok
      <4>2. \/ ~ ok(sizer) /\ sizer' = sizer
            \/ /\ ok(sizer)
               /\ sizer' = [bitPos |-> sizer.bitPos + n, streamErr |-> "Ok"]
        BY <1>3, <2>1 DEF Follows, advance, Sized, ok
      <4>3. CASE writer.streamErr = "Overflow"
        <5>1. sizer.bitPos > end \/ ~ ok(sizer)
          BY <1>6, <1>3, <4>3
        <5>2. sizer'.bitPos > end \/ ~ ok(sizer')
          BY <1>3, <1>5, <4>2, <5>1 DEF Sized
        <5> QED
          BY <1>7, <4>1, <4>3, <5>2
      <4>4. CASE writer.streamErr = "BadArg"
        <5>1. sizer.streamErr = "BadArg"
          BY <1>6, <1>3, <4>4
        <5> QED
          BY <1>7, <4>1, <4>2, <4>4, <5>1 DEF ok
      <4> QED
        BY <4>1, <4>3, <4>4
    <3> QED
      BY <3>1, <3>2
  <2> QED
    BY <1>1, <1>2, <2>2, <2>3 DEF SizeInv
<1>9. CASE Refuses(writer, writer') /\ Refuses(sizer, sizer')
  <2>1. Shaped(writer', size) /\ Sized(sizer')
    BY <1>3, <1>9 DEF Refuses, Shaped, Sized, fail
  <2>2. SizeTells'
    BY <1>3, <1>5, <1>6, <1>7, <1>9 DEF Refuses, Shaped, Sized, fail, ok
  <2> QED
    BY <1>1, <1>2, <2>1, <2>2 DEF SizeInv
<1> QED
  BY <1>4, <1>8, <1>9 DEF Alike

(* The reader touches neither. *)
LEMMA OthersKeepSize ==
  ASSUME SizeInv, UNCHANGED <<buffer, writer, sizer>>
  PROVE  SizeInv'
BY DEF SizeInv, SizeTells, Shaped, Sized, ok

(* Whatever the sizes of a byte and of a word, and whatever is written     *)
(* into whatever buffer: a size stream (SizeWriteStream, BitStream.cpp:    *)
(* 314-401), which never sees the bytes, is where the writer is, is beyond *)
(* the buffer if the writer overflowed, and refuses what the writer        *)
(* refuses.                                                                *)
THEOREM SizesAgree == Spec => []SizeTells
<1>1. Init => SizeInv
  BY InitSizeInv
<1>2. SizeInv /\ [Next]_vars => SizeInv'
  <2> SUFFICES ASSUME SizeInv, [Next]_vars PROVE SizeInv'
    OBVIOUS
  <2>1. ASSUME NEW item \in Items, Write(item)
        PROVE  SizeInv'
    BY <2>1, WriteKeepsSize
  <2>2. ASSUME NEW n \in 0..byteSize(writer), Arrive(n)
        PROVE  SizeInv'
    BY <2>2, OthersKeepSize DEF Arrive
  <2>3. CASE Read
    BY <2>3, OthersKeepSize DEF Read
  <2>4. CASE UNCHANGED vars
    BY <2>4, OthersKeepSize DEF vars
  <2> QED
    BY <2>1, <2>2, <2>3, <2>4 DEF Next
<1>3. SizeInv => SizeTells
  BY DEF SizeInv
<1> QED
  BY <1>1, <1>2, <1>3, PTL DEF Spec

-----------------------------------------------------------------------------
(* How many bits an item has when it starts at a position, and which. *)
Lasts(item, from) ==
  CASE item.kind = "bits"    -> item.width
    [] item.kind = "bytes"   -> item.width * ByteBits
    [] item.kind = "align"   -> (ByteBits - (from % ByteBits)) % ByteBits
    [] item.kind = "require" -> 0
    [] item.kind = "varint"  -> Len(varintBytes(item.value)) * ByteBits
    [] item.kind = "prefix"  -> (encodePrefixIntHeader(item.value).extra + 1) * ByteBits
BytesOf(item) ==
  CASE item.kind = "bytes"  -> item.value
    [] item.kind = "varint" -> varintBytes(item.value)
    [] item.kind = "prefix" -> LET h == encodePrefixIntHeader(item.value)
                               IN  PrefixOut(h.header, h.extra, item.value)
Shows(item) ==
  CASE item.kind = "bits" -> NumberBits(item.value)
    [] item.kind \in {"align", "require"} -> Zeros
    [] OTHER -> [p \in Nat |-> At(BytesOf(item), p)]

(* The items that no stream refuses. *)
Accepts(item) ==
  /\ item.kind = "bits" => item.width <= WordBits
  /\ item.kind = "bytes" => item.width <= Len(item.value)
  /\ item.kind = "require" => item.value = 1
Kinds == {"bits", "bytes", "align", "require", "varint", "prefix"}

LEMMA ItemIs ==
  ASSUME NEW item \in Items
  PROVE  /\ item.kind \in Kinds /\ item.width \in Nat
         /\ item.kind # "bytes" => item.value \in Nat /\ item.value < Pow(WordBits)
         /\ item.kind = "bytes" =>
              /\ Len(item.value) \in Nat
              /\ item.value \in [1..Len(item.value) -> Byte]
<1>1. /\ item.kind \in Kinds /\ item.width \in Nat
      /\ item.kind # "bytes" => item.value \in 0..(Pow(WordBits) - 1)
  BY Zenon, BitSessionAssumption DEF Kinds, Pow
<1>3. Pow(WordBits) \in Nat
  BY Sizes, PowIs
<1>2. ASSUME item.kind = "bytes"
      PROVE  Len(item.value) \in Nat /\ item.value \in [1..Len(item.value) -> Byte]
  <2>1. item.value \in Seq(Byte)
    BY Zenon, <1>2, BitSessionAssumption DEF Byte, Pow
  <2> QED
    BY <2>1
<1> QED
  BY <1>1, <1>2, <1>3

(* Whatever it is, an item is put at the position, or not at all. *)
LEMMA ItemPuts ==
  ASSUME NEW size \in Nat, NEW s \in Streams(size), NEW item \in Items, NEW t, t = Put(s, item)
  PROVE  /\ t \in Streams(size)
         /\ Lasts(item, s.bitPos) \in Nat
         /\ Puts(s, t, Shows(item), Lasts(item, s.bitPos), size)
         /\ ok(t) => Accepts(item)
<1>1. /\ item.kind \in Kinds /\ item.width \in Nat
      /\ item.kind # "bytes" => item.value \in Nat
  BY ItemIs
<1>2. CASE item.kind = "bits"
  <2>1. PICK v \in Nat, n \in Nat : v = item.value /\ n = item.width
    BY <1>1, <1>2
  <2>2. t = writeBits(s, v, n)
    BY <1>2, <2>1 DEF Put
  <2>3. t \in Streams(size) /\ Puts(s, t, NumberBits(v), n, size) /\ (ok(t) => n <= WordBits)
    BY <2>2, PutBits
  <2>4. Lasts(item, s.bitPos) = n /\ Shows(item) = NumberBits(v)
    BY <1>2, <2>1 DEF Lasts, Shows
  <2>5. ok(t) => Accepts(item)
    BY <1>2, <2>1, <2>3 DEF Accepts
  <2> QED
    BY <2>3, <2>4, <2>5
<1>3. CASE item.kind = "bytes"
  <2>10. PICK out : out = item.value
    OBVIOUS
  <2>11. PICK n \in Nat : n = item.width
    BY <1>1
  <2>1. out = item.value /\ n = item.width
    BY <2>10, <2>11
  <2>2. PICK length \in Nat : length = Len(out) /\ out \in [1..length -> Byte]
    BY <1>3, <2>1, ItemIs
  <2>3. t = writeBytes(s, out, n)
    BY <1>3, <2>1 DEF Put
  <2>4. BytesOf(item) = out
    BY <1>3, <2>1 DEF BytesOf
  <2>5. Lasts(item, s.bitPos) = n * ByteBits /\ Shows(item) = [p \in Nat |-> At(out, p)]
    BY <1>3, <2>1, <2>4 DEF Lasts, Shows
  <2>6. PICK f : f = Shows(item)
    OBVIOUS
  <2>7. n * ByteBits \in Nat /\ \A p \in 0..(n * ByteBits - 1) : f[p] = At(out, p)
    <3>1. PICK N \in Nat : N = n * ByteBits
      BY Span
    <3> QED
      BY <2>5, <2>6, <3>1
  <2>8. t \in Streams(size) /\ Puts(s, t, f, n * ByteBits, size) /\ (ok(t) => n <= length)
    BY <2>2, <2>3, <2>7, PutBytes
  <2>9. ok(t) => Accepts(item)
    BY <1>3, <2>1, <2>2, <2>8 DEF Accepts
  <2> QED
    BY <2>5, <2>6, <2>7, <2>8, <2>9
<1>4. CASE item.kind = "align"
  <2>1. t = writeAlign(s)
    BY <1>4 DEF Put
  <2>2. t \in Streams(size) /\ Puts(s, t, Zeros, ToAlign(s), size)
    BY <2>1, PutAlign
  <2>3. Lasts(item, s.bitPos) = ToAlign(s) /\ Shows(item) = Zeros /\ Accepts(item)
    BY <1>4 DEF Lasts, Shows, ToAlign, bitIndex, Accepts
  <2>4. ToAlign(s) \in Nat
    <3>1. PICK n \in Nat : n = 0
      OBVIOUS
    <3> QED
      BY BitParts, <3>1
  <2> QED
    BY <2>2, <2>3, <2>4
<1>5. CASE item.kind = "require"
  <2>1. t = IF ok(s) /\ ~ (item.value = 1) THEN fail(s, "BadArg") ELSE s
    BY <1>5 DEF Put, require
  <2>2. Lasts(item, s.bitPos) = 0 /\ Shows(item) = Zeros
    BY <1>5 DEF Lasts, Shows
  <2>3. CASE ok(s) /\ ~ (item.value = 1)
    <3>1. t = [data |-> s.data, bitPos |-> s.bitPos, streamErr |-> "BadArg"]
      BY <2>1, <2>3, StreamIs DEF fail
    <3>2. t \in Streams(size)
      <4>1. /\ s.data \in [1..size -> Byte] /\ s.bitPos \in Nat /\ s.bitPos <= size * ByteBits
            /\ "BadArg" \in Errors
        BY StreamIs DEF Errors
      <4> QED
        BY Zenon, <3>1, <4>1, StreamMade
    <3>3. ~ ok(t) /\ Puts(s, t, Zeros, 0, size)
      BY <2>3, <3>1, StreamIs DEF Puts, ok
    <3> QED
      BY <2>2, <3>2, <3>3
  <2>4. CASE ~ (ok(s) /\ ~ (item.value = 1))
    <3>1. t = s
      BY <2>1, <2>4
    <3>2. Puts(s, t, Zeros, 0, size)
      BY <3>1, PutsNone
    <3>3. ok(t) => Accepts(item)
      BY <1>5, <2>4, <3>1 DEF Accepts
    <3> QED
      BY <2>2, <3>1, <3>2, <3>3
  <2> QED
    BY <2>3, <2>4
<1>6. CASE item.kind \in {"varint", "prefix"}
  <2>7. PICK n \in Nat : \E out : /\ out \in [1..n -> Byte] /\ out = BytesOf(item)
                                  /\ t = writeBytes(s, out, n)
                                  /\ Lasts(item, s.bitPos) = n * ByteBits
    <3>1. PICK v \in Nat : v = item.value
      BY <1>1, <1>6
    <3>2. CASE item.kind = "varint"
      <4>1. PICK n \in 1..MaxGroups : varintBytes(v) \in [1..n -> Byte] /\ Len(varintBytes(v)) = n
        BY VarintBytes
      <4>2. n \in Nat
        BY Groups
      <4>3. t = writeBytes(s, varintBytes(v), Len(varintBytes(v)))
        BY <3>1, <3>2 DEF Put, encodeVarint
      <4>4. BytesOf(item) = varintBytes(v) /\ Lasts(item, s.bitPos) = Len(varintBytes(v)) * ByteBits
        BY <3>1, <3>2 DEF BytesOf, Lasts
      <4> QED
        BY <4>1, <4>2, <4>3, <4>4
    <3>3. CASE item.kind = "prefix"
      <4>1. PICK e \in 0..ByteBits, h \in Byte :
              encodePrefixIntHeader(v) = [header |-> h, shift |-> HeaderBits(e), extra |-> e]
        BY PrefixBytes
      <4>2. PICK head : head = encodePrefixIntHeader(v)
        OBVIOUS
      <4>3. head.header = h /\ head.shift = HeaderBits(e) /\ head.extra = e
        BY <4>1, <4>2
      <4>4. e \in Nat /\ e + 1 \in Nat
        BY Sizes
      <4>5. PICK out : out = PrefixOut(h, e, v)
        OBVIOUS
      <4>6. out \in [1..(e + 1) -> Byte]
        BY <4>5, PrefixOutIs
      <4>7. t = encodePrefixInt(s, v)
        BY <3>1, <3>3 DEF Put
      <4>8. encodePrefixInt(s, v) =
              writeBytes(s, <<head.header>> \o [i \in 1..head.extra |-> ByteOf(v \div 2^head.shift, i - 1)],
                         head.extra + 1)
        BY Zenon, <4>2 DEF encodePrefixInt
      <4>9. t = writeBytes(s, out, e + 1)
        BY Zenon, <4>3, <4>5, <4>7, <4>8 DEF PrefixOut, Pow
      <4>10. BytesOf(item) = out
        <5>1. BytesOf(item) = LET x == encodePrefixIntHeader(v) IN PrefixOut(x.header, x.extra, v)
          BY <3>1, <3>3 DEF BytesOf
        <5> QED
          BY Zenon, <4>2, <4>3, <4>5, <5>1
      <4>11. Lasts(item, s.bitPos) = (e + 1) * ByteBits
        BY <3>1, <3>3, <4>2, <4>3 DEF Lasts
      <4> QED
        BY <4>4, <4>6, <4>9, <4>10, <4>11
    <3> QED
      BY <1>6, <3>2, <3>3
  <2>1. PICK out : /\ out \in [1..n -> Byte] /\ out = BytesOf(item)
                   /\ t = writeBytes(s, out, n)
                   /\ Lasts(item, s.bitPos) = n * ByteBits
    BY <2>7
  <2>2. Shows(item) = [p \in Nat |-> At(out, p)]
    BY <1>6, <2>1 DEF Shows
  <2>3. PICK f : f = Shows(item)
    OBVIOUS
  <2>4. n * ByteBits \in Nat /\ \A p \in 0..(n * ByteBits - 1) : f[p] = At(out, p)
    <3>1. PICK N \in Nat : N = n * ByteBits
      BY Span
    <3> QED
      BY <2>2, <2>3, <3>1
  <2>5. t \in Streams(size) /\ Puts(s, t, f, n * ByteBits, size)
    BY <2>1, <2>4, PutBytes
  <2>6. Accepts(item)
    BY <1>6 DEF Accepts
  <2> QED
    BY <2>1, <2>3, <2>4, <2>5, <2>6
<1> QED
  BY <1>1, <1>2, <1>3, <1>4, <1>5, <1>6 DEF Kinds

(* An item is in data, from one position to another. *)
Held(item, data, from, to) ==
  /\ Accepts(item)
  /\ Lasts(item, from) \in Nat /\ to = from + Lasts(item, from)
  /\ \A p \in 0..(Lasts(item, from) - 1) : At(data, from + p) = Shows(item)[p]

(* Where an item is does not change with what comes behind it. *)
LEMMA HeldStays ==
  ASSUME NEW size \in Nat, NEW s \in Streams(size), NEW t \in Streams(size), NEW f, NEW n \in Nat,
         Puts(s, t, f, n, size),
         NEW item, NEW from \in Nat, NEW to \in Nat, Held(item, s.data, from, to), to <= s.bitPos
  PROVE  Held(item, t.data, from, to)
<1>1. PICK m \in Nat : m = Lasts(item, from) /\ to = from + m
  BY DEF Held
<1>2. PICK End \in Nat, S \in Nat : End = size * ByteBits /\ S = s.bitPos /\ S <= End /\ to <= S
  BY StreamIs
<1>3. ASSUME NEW p \in 0..(m - 1)
      PROVE  At(t.data, from + p) = At(s.data, from + p)
  <2>1. from + p \in 0..(End - 1) /\ from + p < S
    BY <1>1, <1>2
  <2> QED
    BY <1>2, <2>1 DEF Puts
<1> QED
  BY <1>1, <1>3 DEF Held

(* Every item is where it was put, and the buffer behind them as it was. *)
WriterInv ==
  /\ Len(buffer) \in Nat /\ buffer \in [1..Len(buffer) -> Byte]
  /\ writer \in Streams(Len(buffer))
  /\ asked \in Seq(Items) /\ taken \in Seq(Nat)
  /\ Len(taken) \in 1..(Len(asked) + 1)
  /\ taken[1] = 0
  /\ ok(writer) => Len(taken) = Len(asked) + 1 /\ taken[Len(taken)] = writer.bitPos
  /\ \A i \in 1..Len(taken) : taken[i] <= writer.bitPos
  /\ \A i \in 1..(Len(taken) - 1) : Held(asked[i], writer.data, taken[i], taken[i + 1])
  /\ \A p \in 0..(Len(buffer) * ByteBits - 1) :
       p >= writer.bitPos => At(writer.data, p) = At(buffer, p)

LEMMA InitWriterInv == Init => WriterInv
<1> SUFFICES ASSUME Init PROVE WriterInv
  OBVIOUS
<1>1. buffer \in Seq(Byte)
  BY Zenon, BitSessionAssumption DEF Init, Byte, Pow
<1>2. PICK n \in Nat : n = Len(buffer) /\ buffer \in [1..n -> Byte]
  BY <1>1
<1>3. writer = [data |-> buffer, bitPos |-> 0, streamErr |-> "Ok"]
  BY DEF Init, WriteStream
<1>4. writer \in Streams(n)
  <2>1. 0 \in Nat /\ 0 <= n * ByteBits /\ "Ok" \in Errors
    BY Span DEF Errors
  <2> QED
    BY Zenon, <1>2, <1>3, <2>1, StreamMade
<1>5. asked = <<>> /\ taken = <<0>>
  BY DEF Init
<1>6. asked \in Seq(Items) /\ taken \in Seq(Nat) /\ Len(asked) = 0 /\ Len(taken) = 1 /\ taken[1] = 0
  BY <1>5
<1>7. \A i \in 1..Len(taken) : taken[i] <= writer.bitPos
  BY <1>3, <1>6
<1>8. \A i \in 1..(Len(taken) - 1) : FALSE
  BY <1>6
<1> QED
  BY <1>2, <1>3, <1>4, <1>6, <1>7, <1>8 DEF WriterInv

(* One item more. *)
LEMMA WriteKeepsWriter ==
  ASSUME WriterInv, NEW item \in Items, Write(item)
  PROVE  WriterInv'
<1>1. /\ buffer' = buffer /\ writer' = Put(writer, item) /\ asked' = Append(asked, item)
      /\ taken' = IF ok(writer') THEN Append(taken, writer'.bitPos) ELSE taken
  BY Zenon DEF Write
<1>2. PICK size \in Nat : size = Len(buffer)
  BY DEF WriterInv
<1>3. PICK s \in Streams(size) : s = writer
  BY <1>2 DEF WriterInv
<1>4. PICK t : t = writer'
  OBVIOUS
<1>5. PICK n : n = Lasts(item, s.bitPos)
  OBVIOUS
<1>6. /\ t \in Streams(size) /\ n \in Nat
      /\ Puts(s, t, Shows(item), n, size)
      /\ ok(t) => Accepts(item)
  <2>1. t = Put(s, item)
    BY <1>1, <1>3, <1>4
  <2> QED
    BY <1>5, <2>1, ItemPuts
<1>7. PICK f : f = Shows(item)
  OBVIOUS
<1>8. Puts(s, t, f, n, size)
  BY <1>6, <1>7
<1>9. PICK S \in Nat, T \in Nat, End \in Nat :
        S = s.bitPos /\ T = t.bitPos /\ End = size * ByteBits /\ S <= T /\ T <= End
  BY <1>6, StreamIs DEF Puts
<1>10. PICK a \in Nat, k \in Nat : a = Len(asked) /\ k = Len(taken) /\ k \in 1..(a + 1)
  <2>1. asked \in Seq(Items) /\ taken \in Seq(Nat) /\ Len(taken) \in 1..(Len(asked) + 1)
    BY DEF WriterInv
  <2>2. Len(asked) \in Nat /\ Len(taken) \in Nat
    BY <2>1
  <2> QED
    BY <2>1, <2>2
<1>11. /\ asked \in Seq(Items) /\ taken \in Seq(Nat) /\ taken[1] = 0
       /\ ok(s) => k = a + 1 /\ taken[k] = S
       /\ \A i \in 1..k : taken[i] <= S /\ taken[i] \in Nat
  BY <1>3, <1>9, <1>10 DEF WriterInv
<1>12. \A i \in 1..(k - 1) : Held(asked[i], s.data, taken[i], taken[i + 1])
  BY <1>3, <1>10 DEF WriterInv
<1>13. \A p \in 0..(End - 1) : p >= S => At(s.data, p) = At(buffer, p)
  BY <1>2, <1>3, <1>9 DEF WriterInv
<1>14. \A i \in 1..(k - 1) : Held(asked[i], t.data, taken[i], taken[i + 1])
  <2> SUFFICES ASSUME NEW i \in 1..(k - 1)
               PROVE  Held(asked[i], t.data, taken[i], taken[i + 1])
    OBVIOUS
  <2>1. i \in 1..k /\ i + 1 \in 1..k
    BY <1>10
  <2>2. PICK x, y : x = taken[i] /\ y = taken[i + 1]
    OBVIOUS
  <2>3. x \in Nat /\ y \in Nat /\ y <= s.bitPos /\ Held(asked[i], s.data, x, y)
    BY <1>9, <1>11, <1>12, <2>1, <2>2
  <2>4. Held(asked[i], t.data, x, y)
    BY <1>6, <1>8, <2>3, HeldStays
  <2> QED
    BY <2>2, <2>4
<1>15. ASSUME NEW p \in 0..(End - 1), p >= T
       PROVE  At(t.data, p) = At(buffer, p)
  <2>1. p >= S
    BY <1>9, <1>15
  <2>2. At(t.data, p) = At(s.data, p)
    BY <1>8, <1>9, <1>15 DEF Puts
  <2> QED
    BY <1>13, <2>1, <2>2
<1>16. /\ asked' \in Seq(Items) /\ Len(asked') = a + 1
       /\ \A i \in 1..a : asked'[i] = asked[i]
       /\ asked'[a + 1] = item
  BY <1>1, <1>10, <1>11
<1>17. CASE ok(t)
  <2>1. ok(s)
    BY <1>8, <1>17 DEF Puts
  <2>2. k = a + 1 /\ taken[k] = S /\ T = S + n
    BY <1>8, <1>9, <1>11, <1>17, <2>1 DEF Puts
  <2>3. /\ taken' \in Seq(Nat) /\ Len(taken') = k + 1
        /\ \A i \in 1..k : taken'[i] = taken[i]
        /\ taken'[k + 1] = T
    BY <1>1, <1>4, <1>9, <1>10, <1>11, <1>17
  <2>4. Held(item, t.data, S, T)
    <3>1. \A p \in 0..(n - 1) : At(t.data, S + p) = f[p]
      BY <1>8, <1>9, <1>17 DEF Puts
    <3> QED
      BY <1>5, <1>6, <1>7, <1>9, <1>17, <2>2, <3>1 DEF Held
  <2>5. ASSUME NEW i \in 1..((k + 1) - 1)
        PROVE  Held(asked'[i], t.data, taken'[i], taken'[i + 1])
    <3>1. CASE i = k
      <4>1. taken'[k] = S /\ k \in 1..k
        BY <1>10, <2>2, <2>3
      <4>2. asked'[k] = item /\ taken'[k + 1] = T
        <5>1. asked'[a + 1] = item
          BY <1>16
        <5>2. taken'[k + 1] = T
          BY <2>3
        <5>3. k = a + 1
          BY <2>2
        <5> QED
          BY <5>1, <5>2, <5>3
      <4> QED
        BY <2>4, <3>1, <4>1, <4>2
    <3>2. CASE i # k
      <4>1. i \in 1..(k - 1) /\ i \in 1..k /\ i + 1 \in 1..k /\ i \in 1..a
        BY <2>2, <3>2
      <4> QED
        BY <1>14, <1>16, <2>3, <4>1
    <3> QED
      BY <3>1, <3>2
  <2>6. \A i \in 1..(k + 1) : taken'[i] <= T
    <3> SUFFICES ASSUME NEW i \in 1..(k + 1) PROVE taken'[i] <= T
      OBVIOUS
    <3>1. CASE i = k + 1
      BY <2>3, <3>1
    <3>2. CASE i # k + 1
      <4>1. i \in 1..k
        BY <3>2
      <4>2. taken'[i] = taken[i] /\ taken[i] <= S /\ taken[i] \in Nat
        BY <1>11, <2>3, <4>1
      <4> QED
        BY <1>9, <4>2
    <3> QED
      BY <3>1, <3>2
  <2>7. taken'[1] = 0 /\ k + 1 \in 1..((a + 1) + 1)
    BY <1>10, <1>11, <2>3
  <2> QED
    BY <1>1, <1>2, <1>4, <1>6, <1>9, <1>15, <1>16, <2>2, <2>3, <2>5, <2>6, <2>7 DEF WriterInv, ok
<1>18. CASE ~ ok(t)
  <2>1. taken' = taken
    BY <1>1, <1>4, <1>18
  <2>2. \A i \in 1..k : taken[i] <= T
    BY <1>9, <1>11
  <2>3. \A i \in 1..(k - 1) : Held(asked'[i], t.data, taken[i], taken[i + 1])
    <3> SUFFICES ASSUME NEW i \in 1..(k - 1)
                 PROVE  Held(asked'[i], t.data, taken[i], taken[i + 1])
      OBVIOUS
    <3>1. i \in 1..a
      BY <1>10
    <3> QED
      BY <1>14, <1>16, <3>1
  <2>4. k \in 1..((a + 1) + 1)
    BY <1>10
  <2> QED
    BY <1>1, <1>2, <1>4, <1>6, <1>9, <1>10, <1>11, <1>15, <1>16, <1>18, <2>1, <2>2, <2>3, <2>4
    DEF WriterInv, ok
<1> QED
  BY <1>17, <1>18

LEMMA OthersKeepWriter ==
  ASSUME WriterInv, UNCHANGED <<buffer, writer, asked, taken>>
  PROVE  WriterInv'
BY DEF WriterInv, ok

LEMMA NextKeepsWriter == WriterInv /\ [Next]_vars => WriterInv'
<1> SUFFICES ASSUME WriterInv, [Next]_vars PROVE WriterInv'
  OBVIOUS
<1>1. ASSUME NEW item \in Items, Write(item)
      PROVE  WriterInv'
  BY <1>1, WriteKeepsWriter
<1>2. ASSUME NEW n \in 0..byteSize(writer), Arrive(n)
      PROVE  WriterInv'
  BY <1>2, OthersKeepWriter DEF Arrive
<1>3. CASE Read
  BY <1>3, OthersKeepWriter DEF Read
<1>4. CASE UNCHANGED vars
  BY <1>4, OthersKeepWriter DEF vars
<1> QED
  BY <1>1, <1>2, <1>3, <1>4 DEF Next

(* What is in the buffer of a writer with WriterInv. *)
LEMMA WriterHas == WriterInv => WriterHolds
<1> SUFFICES ASSUME WriterInv PROVE WriterHolds
  OBVIOUS
<1>1. \A d, p : BitAt(d, p) = At(d, p)
  BY Zenon DEF BitAt, At, Bit, Pow
<1>2. PICK k \in Nat, a \in Nat : k = Len(taken) /\ a = Len(asked) /\ k \in 1..(a + 1)
  BY DEF WriterInv
<1>3. ASSUME NEW i \in 1..(k - 1), asked[i].kind \in {"bits", "bytes", "align"},
             NEW p \in taken[i]..(taken[i + 1] - 1)
      PROVE  At(writer.data, p) = BitsOf(asked[i])[p - taken[i] + 1]
  <2>1. PICK item \in Items, from \in Nat, to \in Nat :
          item = asked[i] /\ from = taken[i] /\ to = taken[i + 1] /\ Held(item, writer.data, from, to)
    <3>1. i \in 1..a /\ i \in 1..k /\ i + 1 \in 1..k
      BY <1>2
    <3>2. asked[i] \in Items /\ taken[i] \in Nat /\ taken[i + 1] \in Nat
      BY <1>2, <3>1 DEF WriterInv
    <3>3. Held(asked[i], writer.data, taken[i], taken[i + 1])
      BY <1>2 DEF WriterInv
    <3> QED
      BY <3>2, <3>3
  <2>2. PICK n \in Nat : n = Lasts(item, from) /\ to = from + n
    BY <2>1 DEF Held
  <2>3. PICK q \in Nat : q \in 0..(n - 1) /\ p = from + q /\ p - taken[i] + 1 = q + 1
    <3>1. p \in from..(to - 1)
      BY <2>1
    <3>2. p - from \in 0..(n - 1) /\ p = from + (p - from) /\ p - from \in Nat
      BY <2>2, <3>1
    <3> QED
      BY <2>1, <3>2
  <2>4. At(writer.data, p) = Shows(item)[q]
    BY <2>1, <2>2, <2>3 DEF Held
  <2>5. Shows(item)[q] = BitsOf(item)[q + 1]
    <3>1. item.kind \in {"bits", "bytes", "align"} /\ item.width \in Nat
      BY <1>3, <2>1, ItemIs
    <3>2. CASE item.kind = "bits"
      <4>1. n = item.width /\ Shows(item)[q] = Bit(item.value, q)
        BY <2>2, <3>2 DEF Lasts, Shows, NumberBits
      <4>2. BitsOf(item) = [j \in 1..n |-> (item.value \div Pow(j - 1)) % 2]
        BY <3>2, <4>1 DEF BitsOf, Pow
      <4>3. q + 1 \in 1..n /\ (q + 1) - 1 = q
        BY <2>3
      <4> QED
        BY <4>1, <4>2, <4>3 DEF Bit
    <3>3. CASE item.kind = "bytes"
      <4>1. n = item.width * ByteBits /\ Shows(item)[q] = At(item.value, q)
        BY <2>2, <3>3 DEF Lasts, Shows, BytesOf
      <4>2. n = ByteBits * item.width
        BY <3>1, <4>1, Sizes
      <4>3. BitsOf(item) = [j \in 1..n |-> At(item.value, j - 1)]
        BY <1>1, <3>3, <4>2 DEF BitsOf
      <4>4. q + 1 \in 1..n /\ (q + 1) - 1 = q
        BY <2>3
      <4> QED
        BY <4>1, <4>3, <4>4
    <3>4. CASE item.kind = "align"
      <4>1. Shows(item)[q] = 0
        BY <3>4 DEF Shows, Zeros
      <4>2. BitsOf(item) = [j \in 1..ByteBits |-> 0]
        BY <3>4 DEF BitsOf
      <4>3. q + 1 \in 1..ByteBits
        <5>1. n = (ByteBits - (from % ByteBits)) % ByteBits
          BY <2>2, <3>4 DEF Lasts
        <5>2. n < ByteBits
          BY <5>1, Sizes
        <5> QED
          BY <2>3, <5>2, Sizes
      <4> QED
        BY <4>1, <4>2, <4>3
    <3> QED
      BY <3>1, <3>2, <3>3, <3>4
  <2> QED
    BY <2>1, <2>3, <2>4, <2>5
<1>4. \A p \in writer.bitPos..(Len(buffer) * ByteBits - 1) : At(writer.data, p) = At(buffer, p)
  <2>1. PICK size \in Nat : size = Len(buffer) /\ writer \in Streams(size)
    BY DEF WriterInv
  <2>2. PICK S \in Nat, End \in Nat : S = writer.bitPos /\ End = size * ByteBits
    BY <2>1, StreamIs
  <2>3. \A p \in 0..(End - 1) : p >= S => At(writer.data, p) = At(buffer, p)
    BY <2>1, <2>2 DEF WriterInv
  <2>4. \A p \in S..(End - 1) : p \in 0..(End - 1) /\ p >= S
    BY <2>2
  <2> QED
    BY <2>1, <2>2, <2>3, <2>4
<1> QED
  BY <1>1, <1>2, <1>3, <1>4 DEF WriterHolds

(* However the items follow one another, and wherever in a byte each begins,*)
(* nothing that was written is disturbed, and nothing behind the position is*)
(* (WriteStream, BitStream.cpp:191-274, 300-312).                          *)
THEOREM WriterAlwaysHolds == Spec => []WriterHolds
BY InitWriterInv, NextKeepsWriter, WriterHas, PTL DEF Spec

(* Whatever it holds, an item is what it is. *)
LEMMA TakeIs ==
  ASSUME NEW size \in Nat, NEW s \in Streams(size), ok(s), NEW item \in Items, NEW d, NEW to,
         Held(item, d, s.bitPos, to),
         \A p \in 0..(size * ByteBits - 1) : At(s.data, p) = At(d, p),
         NEW r, r = Take(s, item)
  PROVE  /\ Moved(s, r.stream, Lasts(item, s.bitPos), size)
         /\ ok(r.stream) => r.out = ValueOf(item)
<1>1. PICK from \in Nat, End \in Nat, n \in Nat :
        /\ from = s.bitPos /\ End = size * ByteBits /\ n = Lasts(item, from)
        /\ \A p \in 0..(n - 1) : At(d, from + p) = Shows(item)[p]
  <2>1. s.bitPos \in Nat /\ size * ByteBits \in Nat
    BY StreamIs
  <2>2. Lasts(item, s.bitPos) \in Nat /\ \A p \in 0..(Lasts(item, s.bitPos) - 1) : At(d, s.bitPos + p) = Shows(item)[p]
    BY DEF Held
  <2> QED
    BY <2>1, <2>2
<1>2. \A p \in 0..(n - 1) : from + p < End => At(s.data, from + p) = Shows(item)[p]
  <2> SUFFICES ASSUME NEW p \in 0..(n - 1), from + p < End
               PROVE  At(s.data, from + p) = Shows(item)[p]
    OBVIOUS
  <2>1. from + p \in 0..(End - 1)
    BY <1>1
  <2> QED
    BY <1>1, <2>1
<1>3. ASSUME NEW m \in Nat, Moved(s, r.stream, m, size), ok(r.stream)
      PROVE  from + m <= End
  BY <1>1, <1>3 DEF Moved, ok
<1>4. /\ item.kind \in Kinds /\ item.width \in Nat
      /\ item.kind # "bytes" => item.value \in Nat /\ item.value < Pow(WordBits)
  BY ItemIs
<1>5. Accepts(item)
  BY DEF Held
<1>6. CASE item.kind = "bits"
  <2>1. PICK v \in Nat : v = item.value
    BY <1>4, <1>6
  <2>2. n = item.width /\ n <= WordBits /\ Shows(item) = NumberBits(v)
    BY <1>1, <1>5, <1>6, <2>1 DEF Lasts, Shows, Accepts
  <2>3. r = readBits(s, n)
    BY <1>6, <2>2 DEF Take
  <2>4. /\ Moved(s, r.stream, n, size)
        /\ ok(r.stream) =>
             /\ r.out \in 0..(Pow(n) - 1)
             /\ \A p \in 0..(n - 1) : Bit(r.out, p) = At(s.data, s.bitPos + p)
    BY <2>2, <2>3, GetBits
  <2>5. ASSUME ok(r.stream)
        PROVE  r.out = ValueOf(item)
    <3>1. from + n <= End
      BY <1>3, <2>4, <2>5
    <3>2. PICK x : x = v % Pow(n)
      OBVIOUS
    <3>3. x \in 0..(Pow(n) - 1) /\ \A p \in Nat : Bit(x, p) = IF p < n THEN Bit(v, p) ELSE 0
      BY <3>2, BitsOfMod
    <3>4. \A p \in 0..(n - 1) : Bit(r.out, p) = Bit(x, p)
      <4> SUFFICES ASSUME NEW p \in 0..(n - 1) PROVE Bit(r.out, p) = Bit(x, p)
        OBVIOUS
      <4>1. p \in Nat /\ p < n /\ from + p < End
        BY <3>1
      <4>2. At(s.data, from + p) = NumberBits(v)[p]
        BY <1>2, <2>2, <4>1
      <4>3. NumberBits(v)[p] = Bit(v, p)
        BY <4>1 DEF NumberBits
      <4>4. Bit(r.out, p) = At(s.data, from + p)
        BY <1>1, <2>4, <2>5
      <4> QED
        BY <3>3, <4>1, <4>2, <4>3, <4>4
    <3>5. r.out = x
      BY <2>4, <2>5, <3>3, <3>4, BitsTell
    <3>6. ValueOf(item) = v % Pow(n)
      BY <1>6, <2>1, <2>2 DEF ValueOf, Pow
    <3> QED
      BY <3>2, <3>5, <3>6
  <2> QED
    BY <1>1, <2>4, <2>5
<1>7. CASE item.kind = "bytes"
  <2>1. PICK k \in Nat : k = item.width
    BY <1>4
  <2>20. PICK out : out = item.value
    OBVIOUS
  <2>21. PICK length \in Nat : length = Len(out) /\ out \in [1..length -> Byte]
    BY <1>7, <2>20, ItemIs
  <2>2. out = item.value /\ length = Len(out) /\ out \in [1..length -> Byte]
    BY <2>20, <2>21
  <2>3. k <= length /\ n = k * ByteBits /\ Shows(item) = [p \in Nat |-> At(out, p)]
    BY <1>1, <1>5, <1>7, <2>1, <2>2 DEF Lasts, Shows, BytesOf, Accepts
  <2>4. r = readBytes(s, k, k)
    BY <1>7, <2>1 DEF Take
  <2>5. /\ Moved(s, r.stream, k * ByteBits, size)
        /\ ok(r.stream) => Taken(s.data, s.bitPos, r.out, k)
    BY <2>4, GetBytes
  <2>6. ASSUME ok(r.stream)
        PROVE  r.out = ValueOf(item)
    <3>1. from + n <= End
      BY <1>3, <2>3, <2>5, <2>6
    <3>2. PICK got : got = r.out
      OBVIOUS
    <3>3. got \in [1..k -> Byte] /\ \A p \in 0..(n - 1) : At(got, p) = At(s.data, from + p)
      BY <1>1, <2>3, <2>5, <2>6, <3>2 DEF Taken
    <3>4. PICK sub : sub = SubSeq(out, 1, k)
      OBVIOUS
    <3>5. sub \in [1..k -> Byte] /\ \A i \in 1..k : sub[i] = out[i]
      <4>1. SubSeq(out, 0 + 1, 0 + k) = sub
        BY <3>4
      <4>2. PICK zero \in Nat : zero = 0
        OBVIOUS
      <4>3. zero + k <= length
        BY <2>3, <4>2
      <4>4. /\ SubSeq(out, zero + 1, zero + k) \in [1..k -> Byte]
            /\ \A i \in 1..k : SubSeq(out, zero + 1, zero + k)[i] = out[zero + i]
        <5>1. PICK L \in Nat : L = length
          OBVIOUS
        <5>2. out \in [1..L -> Byte] /\ zero + k <= L
          BY <2>2, <4>3, <5>1
        <5> QED
          BY <5>2, SubIs
      <4>5. \A i \in 1..k : zero + i = i
        BY <4>2
      <4> QED
        BY <4>1, <4>2, <4>4, <4>5
    <3>6. \A i \in 1..k : got[i] = sub[i]
      <4> SUFFICES ASSUME NEW i \in 1..k PROVE got[i] = sub[i]
        OBVIOUS
      <4>1. PICK a \in Nat, b \in Nat : a = i - 1 /\ a + 1 = i /\ k = (a + 1) + b
        <5>1. i - 1 \in Nat /\ (i - 1) + 1 = i /\ k - i \in Nat /\ k = ((i - 1) + 1) + (k - i)
          OBVIOUS
        <5> QED
          BY <5>1
      <4>2. PICK A \in Nat, C \in Nat : A = a * ByteBits /\ C = b * ByteBits
        BY Span
      <4>3. n = (A + ByteBits) + C
        <5>1. a + 1 \in Nat
          OBVIOUS
        <5>2. k * ByteBits = (a + 1) * ByteBits + b * ByteBits
          BY <4>1, <5>1, SpanSum
        <5> QED
          BY <2>3, <4>2, <5>2, Span
      <4>4. ASSUME NEW j \in 0..(ByteBits - 1)
            PROVE  Bit(got[i], j) = Bit(sub[i], j)
        <5>1. A + j \in 0..(n - 1) /\ A + j \in Nat /\ from + (A + j) < End
          BY <3>1, <4>2, <4>3, Sizes
        <5>2. At(got, A + j) = At(s.data, from + (A + j))
          BY <3>3, <5>1
        <5>3. At(s.data, from + (A + j)) = Shows(item)[A + j]
          BY <1>2, <5>1
        <5>4. Shows(item)[A + j] = At(out, A + j)
          BY <2>3, <5>1
        <5>5. At(got, a * ByteBits + j) = Bit(got[a + 1], j) /\ At(out, a * ByteBits + j) = Bit(out[a + 1], j)
          BY AtPlace
        <5> QED
          BY <3>5, <4>1, <4>2, <5>2, <5>3, <5>4, <5>5
      <4>5. got[i] \in Byte /\ sub[i] \in Byte
        BY <3>3, <3>5
      <4> QED
        BY <4>4, <4>5, ByteTells
    <3>7. got = sub
      BY <3>3, <3>5, <3>6
    <3>8. ValueOf(item) = SubSeq(item.value, 1, item.width)
      BY <1>7 DEF ValueOf
    <3> QED
      BY <2>1, <2>2, <3>2, <3>4, <3>7, <3>8
  <2> QED
    BY <1>1, <2>3, <2>5, <2>6
<1>8. CASE item.kind = "align"
  <2>1. n = ToAlign(s)
    BY <1>1, <1>8 DEF Lasts, ToAlign, bitIndex
  <2>2. r = Got(readAlign(s), 0)
    BY <1>8 DEF Take
  <2>3. r.stream = readAlign(s) /\ r.out = 0
    BY <2>2 DEF Got
  <2>4. Moved(s, r.stream, n, size)
    BY <2>1, <2>3, GetAlign
  <2>5. ValueOf(item) = 0
    BY <1>8 DEF ValueOf
  <2> QED
    BY <1>1, <2>3, <2>4, <2>5
<1>9. CASE item.kind = "require"
  <2>1. n = 0 /\ item.value = 1
    BY <1>1, <1>5, <1>9 DEF Lasts, Accepts
  <2>2. r = Got(require(s, item.value = 1, "BadArg"), item.value)
    BY <1>9 DEF Take
  <2>3. require(s, item.value = 1, "BadArg") = s
    BY <2>1 DEF require
  <2>4. r.stream = s /\ r.out = item.value
    BY <2>2, <2>3 DEF Got
  <2>5. Moved(s, s, 0, size)
    BY MovedNone
  <2>6. ValueOf(item) = item.value
    BY <1>9 DEF ValueOf
  <2> QED
    BY <1>1, <2>1, <2>4, <2>5, <2>6
<1>10. CASE item.kind = "varint"
  <2>1. PICK v \in Nat : v = item.value /\ v < Pow(WordBits)
    BY <1>4, <1>10
  <2>2. PICK k, bytes : k = Len(varintBytes(v)) /\ bytes = varintBytes(v)
    OBVIOUS
  <2>3. n = k * ByteBits /\ Shows(item) = [p \in Nat |-> At(bytes, p)]
    BY <1>1, <1>10, <2>1, <2>2 DEF Lasts, Shows, BytesOf
  <2>4. \A p \in 0..(n - 1) : from + p < End => At(s.data, from + p) = At(bytes, p)
    <3>1. \A p \in 0..(n - 1) : Shows(item)[p] = At(bytes, p)
      BY <2>3
    <3> QED
      BY <1>2, <3>1
  <2>5. r = decodeVarint(s)
    BY <1>10 DEF Take
  <2>6. \A p \in 0..(k * ByteBits - 1) :
          s.bitPos + p < size * ByteBits => At(s.data, s.bitPos + p) = At(varintBytes(v), p)
    BY <1>1, <2>2, <2>3, <2>4
  <2>7. Moved(s, r.stream, k * ByteBits, size) /\ (ok(r.stream) => r.out = v)
    BY <2>1, <2>2, <2>5, <2>6, GetVarint
  <2>8. ValueOf(item) = item.value
    BY <1>10 DEF ValueOf
  <2> QED
    BY <1>1, <2>1, <2>3, <2>7, <2>8
<1>11. CASE item.kind = "prefix"
  <2>1. PICK v \in Nat : v = item.value /\ v < Pow(WordBits)
    BY <1>4, <1>11
  <2>2. PICK e \in 0..ByteBits, h \in Byte :
          /\ encodePrefixIntHeader(v) = [header |-> h, shift |-> HeaderBits(e), extra |-> e]
          /\ Holds(e, v)
          /\ h = Ones(e) + (v % Pow(HeaderBits(e)))
    BY PrefixBytes
  <2>3. PICK head : head = encodePrefixIntHeader(v) /\ head.header = h /\ head.extra = e
    BY <2>2
  <2>4. PICK bytes : bytes = PrefixOut(h, e, v)
    OBVIOUS
  <2>5. n = (e + 1) * ByteBits
    BY <1>1, <1>11, <2>1, <2>3 DEF Lasts
  <2>6. Shows(item) = [p \in Nat |-> At(bytes, p)]
    <3>1. BytesOf(item) = LET x == encodePrefixIntHeader(v) IN PrefixOut(x.header, x.extra, v)
      BY <1>11, <2>1 DEF BytesOf
    <3>2. BytesOf(item) = bytes
      BY Zenon, <2>3, <2>4, <3>1
    <3> QED
      BY <1>11, <3>2 DEF Shows
  <2>7. \A p \in 0..(n - 1) : from + p < End => At(s.data, from + p) = At(bytes, p)
    <3>1. \A p \in 0..(n - 1) : Shows(item)[p] = At(bytes, p)
      BY <2>6
    <3> QED
      BY <1>2, <3>1
  <2>8. r = decodePrefixInt(s)
    BY <1>11 DEF Take
  <2>9. \A p \in 0..((e + 1) * ByteBits - 1) :
          s.bitPos + p < size * ByteBits => At(s.data, s.bitPos + p) = At(PrefixOut(h, e, v), p)
    BY <1>1, <2>4, <2>5, <2>7
  <2>10. WordBits <= ByteBits * ByteBits
    BY BitSessionAssumption
  <2>11. Moved(s, r.stream, (e + 1) * ByteBits, size) /\ (ok(r.stream) => r.out = v)
    BY <2>1, <2>2, <2>8, <2>9, <2>10, GetPrefix
  <2>12. ValueOf(item) = item.value
    BY <1>11 DEF ValueOf
  <2> QED
    BY <1>1, <2>1, <2>5, <2>11, <2>12
<1> QED
  BY <1>4, <1>6, <1>7, <1>8, <1>9, <1>10, <1>11 DEF Kinds

(* What a reader may return. *)
Values == {ValueOf(item) : item \in Items}

(* What has arrived is as far as it goes what was written; what was read   *)
(* is what was asked for, up to the first item that is not all there.      *)
ReaderInv ==
  /\ received \in Seq(Values)
  /\ Len(received) + 1 <= Len(taken)
  /\ \A i \in 1..Len(received) : received[i] = ValueOf(asked[i])
  /\ ~ reading => received = <<>>
  /\ reading => \E n \in 0..Len(buffer) :
       /\ reader \in Streams(n)
       /\ \A i \in 1..n : reader.data[i] = writer.data[i]
       /\ ok(reader) => reader.bitPos = taken[Len(received) + 1]
       /\ ~ ok(reader) => /\ reader.streamErr = "Eof"
                          /\ Len(received) + 2 <= Len(taken)
                          /\ taken[Len(received) + 2] > n * ByteBits
SessionInv == WriterInv /\ ReaderInv

(* The items and the positions of a session. *)
LEMMA TakenIs ==
  ASSUME WriterInv
  PROVE  /\ Len(taken) \in Nat /\ Len(asked) \in Nat /\ Len(taken) <= Len(asked) + 1
         /\ Len(taken) >= 1
         /\ \A i \in 1..Len(taken) : taken[i] \in Nat
         /\ \A i \in 1..Len(asked) : asked[i] \in Items
BY DEF WriterInv

LEMMA InitReaderInv == Init => ReaderInv
<1> SUFFICES ASSUME Init PROVE ReaderInv
  OBVIOUS
<1>1. received = <<>> /\ taken = <<0>> /\ ~ reading
  BY DEF Init
<1>2. received \in Seq(Values) /\ Len(received) = 0 /\ Len(taken) = 1
  BY <1>1
<1> QED
  BY <1>1, <1>2 DEF ReaderInv

(* The writer fills no more bytes than it has. *)
LEMMA Fits ==
  ASSUME NEW size \in Nat, NEW s \in Streams(size), NEW n \in 0..byteSize(s)
  PROVE  n \in 0..size
<1>1. PICK a \in Nat, j \in Nat, End \in Nat, A \in Nat :
        /\ a = byteIndex(s) /\ j = bitIndex(s) /\ End = size * ByteBits /\ A = a * ByteBits
        /\ j \in 0..(ByteBits - 1) /\ A + j <= End
  <2>1. /\ byteIndex(s) \in Nat /\ bitIndex(s) \in 0..(ByteBits - 1) /\ bitIndex(s) \in Nat
        /\ byteIndex(s) * ByteBits \in Nat /\ size * ByteBits \in Nat
        /\ byteIndex(s) * ByteBits + bitIndex(s) <= size * ByteBits
    BY StreamIs, Span
  <2> QED
    BY <2>1
<1>2. PICK zero \in Nat : zero = 0
  OBVIOUS
<1>3. a * ByteBits + j + zero * ByteBits <= size * ByteBits
      <=> a + (zero + (IF j = 0 THEN 0 ELSE 1)) <= size
  BY <1>1, EndsIn
<1>4. zero * ByteBits = 0
  BY <1>2, Span
<1>5. a + (IF j = 0 THEN 0 ELSE 1) <= size
  BY <1>1, <1>2, <1>3, <1>4
<1>6. byteSize(s) = a + (IF j = 0 THEN 0 ELSE 1)
  BY <1>1 DEF byteSize
<1> QED
  BY <1>1, <1>5, <1>6

(* What is written before the reading starts. *)
LEMMA WriteKeepsReader ==
  ASSUME WriterInv, ReaderInv, NEW item \in Items, Write(item), WriterInv'
  PROVE  ReaderInv'
<1>1. /\ ~ reading /\ ~ reading' /\ received' = received
      /\ taken' = IF ok(writer') THEN Append(taken, writer'.bitPos) ELSE taken
  BY Zenon DEF Write
<1>2. received = <<>> /\ received' = <<>>
  BY <1>1 DEF ReaderInv
<1>3. received' \in Seq(Values) /\ Len(received') = 0
  BY <1>2
<1>4. Len(taken') >= 1 /\ Len(taken') \in Nat
  BY DEF WriterInv
<1> QED
  BY <1>1, <1>2, <1>3, <1>4 DEF ReaderInv

(* Some of the bytes arrive. *)
LEMMA ArriveKeepsReader ==
  ASSUME WriterInv, ReaderInv, NEW n \in 0..byteSize(writer), Arrive(n)
  PROVE  ReaderInv'
<1>1. /\ reading' /\ reader' = ReadStream(SubSeq(writer.data, 1, n)) /\ ~ reading
      /\ buffer' = buffer /\ writer' = writer /\ asked' = asked /\ taken' = taken
      /\ received' = received
  BY DEF Arrive
<1>2. PICK size \in Nat : size = Len(buffer) /\ writer \in Streams(size)
  BY DEF WriterInv
<1>3. PICK d : d = writer.data /\ d \in [1..size -> Byte]
  BY <1>2, StreamIs
<1>4. n \in 0..size /\ n \in Nat
  BY <1>2, Fits
<1>5. PICK sub : sub = SubSeq(d, 1, n)
  OBVIOUS
<1>6. sub \in [1..n -> Byte] /\ \A i \in 1..n : sub[i] = d[i]
  <2>1. PICK zero \in Nat : zero = 0
    OBVIOUS
  <2>2. zero + n <= size
    BY <1>4, <2>1
  <2>3. /\ SubSeq(d, zero + 1, zero + n) \in [1..n -> Byte]
        /\ \A i \in 1..n : SubSeq(d, zero + 1, zero + n)[i] = d[zero + i]
    BY <1>3, <1>4, <2>2, SubIs
  <2>4. zero + 1 = 1 /\ zero + n = n /\ \A i \in 1..n : zero + i = i
    BY <1>4, <2>1
  <2> QED
    BY <1>5, <2>3, <2>4
<1>7. reader' = [data |-> sub, bitPos |-> 0, streamErr |-> "Ok"]
  BY <1>1, <1>3, <1>5 DEF ReadStream, WriteStream
<1>8. reader' \in Streams(n)
  <2>1. 0 \in Nat /\ 0 <= n * ByteBits /\ "Ok" \in Errors
    BY <1>4, Span DEF Errors
  <2> QED
    BY Zenon, <1>4, <1>6, <1>7, <2>1, StreamMade
<1>9. received' = <<>> /\ received' \in Seq(Values) /\ Len(received') = 0 /\ Len(received') + 1 = 1
  BY <1>1 DEF ReaderInv
<1>10. Len(taken') >= 1 /\ Len(taken') \in Nat /\ taken'[1] = 0
  BY <1>1 DEF WriterInv
<1>11. ok(reader)' /\ reader'.bitPos = taken'[Len(received') + 1]
  BY <1>7, <1>9, <1>10 DEF ok
<1>12. \A i \in 1..n : reader'.data[i] = writer'.data[i]
  BY <1>1, <1>3, <1>6, <1>7
<1>13. n \in 0..Len(buffer')
  BY <1>1, <1>2, <1>4
<1>14. \A i \in 1..Len(received') : received'[i] = ValueOf(asked'[i])
  BY <1>9
<1> QED
  BY <1>1, <1>8, <1>9, <1>10, <1>11, <1>12, <1>13, <1>14 DEF ReaderInv

(* One item is read, or is not all there. *)
LEMMA ReadKeepsReader ==
  ASSUME WriterInv, ReaderInv, Read
  PROVE  ReaderInv'
<1>1. /\ reading /\ Len(received) + 1 < Len(taken)
      /\ buffer' = buffer /\ writer' = writer /\ asked' = asked /\ taken' = taken
      /\ reading' = reading
  BY DEF Read
<1>2. PICK got : /\ got = Take(reader, asked[Len(received) + 1])
                 /\ reader' = got.stream
                 /\ received' = IF ok(got.stream) THEN Append(received, got.out) ELSE received
  BY Zenon DEF Read
<1>3. PICK n \in 0..Len(buffer) :
       /\ reader \in Streams(n)
       /\ \A i \in 1..n : reader.data[i] = writer.data[i]
       /\ ok(reader) => reader.bitPos = taken[Len(received) + 1]
       /\ ~ ok(reader) => /\ reader.streamErr = "Eof"
                          /\ Len(received) + 2 <= Len(taken)
                          /\ taken[Len(received) + 2] > n * ByteBits
  BY <1>1 DEF ReaderInv
<1>4. PICK size \in Nat : size = Len(buffer) /\ writer \in Streams(size)
  BY DEF WriterInv
<1>5. n \in Nat /\ n \in 0..size
  BY <1>3, <1>4
<1>6. PICK m \in Nat, k \in Nat, i \in Nat :
        /\ m = Len(received) /\ k = Len(taken) /\ i = m + 1 /\ i < k
        /\ i \in 1..(k - 1) /\ i \in 1..k /\ i + 1 \in 1..k /\ i \in 1..Len(asked)
        /\ Len(received) + 1 = i /\ Len(received) + 2 = i + 1
  <2>1. Len(received) \in Nat
    BY DEF ReaderInv
  <2>2. Len(taken) \in Nat /\ Len(asked) \in Nat /\ Len(taken) <= Len(asked) + 1
    BY TakenIs
  <2> QED
    BY <1>1, <2>1, <2>2
<1>7. PICK item \in Items, from \in Nat, to \in Nat :
        /\ item = asked[i] /\ from = taken[i] /\ to = taken[i + 1]
        /\ Held(item, writer.data, from, to)
  <2>1. asked[i] \in Items /\ taken[i] \in Nat /\ taken[i + 1] \in Nat
    BY <1>6, TakenIs
  <2>2. Held(asked[i], writer.data, taken[i], taken[i + 1])
    BY <1>6 DEF WriterInv
  <2> QED
    BY <2>1, <2>2
<1>8. got = Take(reader, item)
  BY <1>2, <1>6, <1>7
<1>9. PICK End \in Nat : End = n * ByteBits
  BY <1>5, Span
<1>10. received \in Seq(Values) /\ \A j \in 1..m : received[j] = ValueOf(asked[j])
  BY <1>6 DEF ReaderInv
<1>11. CASE ~ ok(reader)
  <2>1. got.stream = reader
    <3>1. item.kind \in Kinds
      BY ItemIs
    <3>2. ASSUME item.kind = "align" PROVE got.stream = reader
      BY <1>8, <1>11, <3>2 DEF Take, readAlign, Got
    <3>3. ASSUME item.kind = "require" PROVE got.stream = reader
      BY <1>8, <1>11, <3>3 DEF Take, require, Got
    <3>4. ASSUME item.kind = "bits" PROVE got.stream = reader
      <4>1. got = readBits(reader, item.width)
        BY <1>8, <3>4 DEF Take
      <4>2. readBits(reader, item.width) = Got(reader, 0)
        BY Zenon, <1>11 DEF readBits
      <4> QED
        BY <4>1, <4>2 DEF Got
    <3>5. ASSUME item.kind = "bytes" PROVE got.stream = reader
      <4>1. got = readBytes(reader, item.width, item.width)
        BY <1>8, <3>5 DEF Take
      <4>2. readBytes(reader, item.width, item.width) = Got(reader, <<>>)
        BY Zenon, <1>11 DEF readBytes
      <4> QED
        BY <4>1, <4>2 DEF Got
    <3>6. ASSUME item.kind = "prefix" PROVE got.stream = reader
      <4>1. got = decodePrefixInt(reader)
        BY <1>8, <3>6 DEF Take
      <4>2. readBytes(reader, 1, 1) = Got(reader, <<>>)
        BY Zenon, <1>11 DEF readBytes
      <4>3. PICK prefix : prefix = readBytes(reader, 1, 1)
        OBVIOUS
      <4>4. prefix.stream = reader
        BY <4>2, <4>3 DEF Got
      <4>5. decodePrefixInt(reader) = Got(prefix.stream, 0)
        BY Zenon, <1>11, <4>3, <4>4 DEF decodePrefixInt
      <4> QED
        BY <4>1, <4>4, <4>5 DEF Got
    <3>7. ASSUME item.kind = "varint" PROVE got.stream = reader
      <4>1. got = decodeVarint(reader)
        BY <1>8, <3>7 DEF Take
      <4>2. PICK v \in Nat : v = item.value /\ v < Pow(WordBits)
        BY <3>7, ItemIs
      <4>3. PICK length, s : length = Len(varintBytes(v)) /\ s = reader /\ s \in Streams(n) /\ ~ ok(s)
        BY <1>3, <1>11
      <4>4. Moved(s, got.stream, length * ByteBits, n)
        BY <1>5, <4>1, <4>2, <4>3, GetVarint
      <4> QED
        BY <4>3, <4>4 DEF Moved
    <3> QED
      BY <3>1, <3>2, <3>3, <3>4, <3>5, <3>6, <3>7 DEF Kinds
  <2>2. reader' = reader /\ received' = received
    BY <1>2, <1>11, <2>1
  <2> QED
    BY <1>1, <1>2, <1>3, <1>11, <2>2 DEF ReaderInv, ok
<1>12. CASE ok(reader)
  <2>1. reader.bitPos = from
    BY <1>3, <1>6, <1>7, <1>12
  <2>2. \A p \in 0..(n * ByteBits - 1) : At(reader.data, p) = At(writer.data, p)
    <3> SUFFICES ASSUME NEW p \in 0..(n * ByteBits - 1)
                 PROVE  At(reader.data, p) = At(writer.data, p)
      OBVIOUS
    <3>1. PICK c \in Nat, j \in Nat : c \in 0..(n - 1) /\ j \in 0..(ByteBits - 1) /\ p = c * ByteBits + j
      BY <1>5, InPlace
    <3>2. c + 1 \in 1..n
      BY <1>5, <3>1
    <3>3. At(reader.data, p) = Bit(reader.data[c + 1], j) /\ At(writer.data, p) = Bit(writer.data[c + 1], j)
      BY <3>1, AtPlace
    <3> QED
      BY <1>3, <3>2, <3>3
  <2>3. PICK L \in Nat : L = Lasts(item, from) /\ to = from + L
    BY <1>7 DEF Held
  <2>4. Held(item, writer.data, reader.bitPos, to)
    BY <1>7, <2>1
  <2>5. PICK s \in Streams(n) : s = reader
    BY <1>3
  <2>6. /\ ok(s) /\ Held(item, writer.data, s.bitPos, to) /\ got = Take(s, item)
        /\ \A p \in 0..(n * ByteBits - 1) : At(s.data, p) = At(writer.data, p)
    BY <1>8, <1>12, <2>2, <2>4, <2>5
  <2>7. /\ Moved(s, got.stream, Lasts(item, s.bitPos), n)
        /\ ok(got.stream) => got.out = ValueOf(item)
    BY <1>5, <2>6, TakeIs
  <2>8. Moved(s, got.stream, L, n) /\ s.bitPos = from
    BY <2>1, <2>3, <2>5, <2>7
  <2>9. PICK t : t = got.stream
    OBVIOUS
  <2>10. /\ t \in Streams(n) /\ t.data = reader.data
         /\ IF to <= End THEN ok(t) /\ t.bitPos = to ELSE t.streamErr = "Eof"
    BY <1>9, <2>3, <2>5, <2>6, <2>8, <2>9 DEF Moved
  <2>11. \A j \in 1..n : t.data[j] = writer.data[j]
    BY <1>3, <2>10
  <2>12. CASE ok(t)
    <3>1. t.bitPos = to
      BY <2>10, <2>12 DEF ok
    <3>2. received' = Append(received, got.out) /\ reader' = t /\ got.out = ValueOf(item)
      BY <1>2, <2>7, <2>9, <2>12
    <3>3. ValueOf(item) \in Values
      BY DEF Values
    <3>4. /\ received' \in Seq(Values) /\ Len(received') = i
          /\ \A j \in 1..m : received'[j] = received[j]
          /\ received'[i] = ValueOf(item)
      BY <1>6, <1>10, <3>2, <3>3
    <3>5. \A j \in 1..Len(received') : received'[j] = ValueOf(asked'[j])
      <4> SUFFICES ASSUME NEW j \in 1..i PROVE received'[j] = ValueOf(asked'[j])
        BY <3>4
      <4>1. CASE j = i
        BY <1>1, <1>7, <3>4, <4>1
      <4>2. CASE j # i
        <5>1. j \in 1..m
          BY <1>6, <4>2
        <5> QED
          BY <1>1, <1>10, <3>4, <5>1
      <4> QED
        BY <4>1, <4>2
    <3>6. Len(received') + 1 <= Len(taken') /\ reader'.bitPos = taken'[Len(received') + 1]
      BY <1>1, <1>6, <1>7, <3>1, <3>2, <3>4
    <3>7. ok(reader)' /\ reader' \in Streams(n) /\ n \in 0..Len(buffer')
          /\ \A j \in 1..n : reader'.data[j] = writer'.data[j]
      BY <1>1, <1>3, <2>10, <2>11, <2>12, <3>2 DEF ok
    <3> QED
      BY <1>1, <3>4, <3>5, <3>6, <3>7 DEF ReaderInv
  <2>13. CASE ~ ok(t)
    <3>1. t.streamErr = "Eof" /\ to > End
      BY <2>3, <1>9, <2>10, <2>13
    <3>2. received' = received /\ reader' = t
      BY <1>2, <2>9, <2>13
    <3>3. /\ received' \in Seq(Values)
          /\ Len(received') + 1 <= Len(taken') /\ Len(received') + 2 <= Len(taken')
          /\ taken'[Len(received') + 2] > n * ByteBits
      BY <1>1, <1>6, <1>7, <1>9, <1>10, <3>1, <3>2
    <3>4. \A j \in 1..Len(received') : received'[j] = ValueOf(asked'[j])
      BY <1>1, <1>6, <1>10, <3>2
    <3>5. /\ ~ ok(reader)' /\ reader'.streamErr = "Eof" /\ reader' \in Streams(n)
          /\ n \in 0..Len(buffer') /\ \A j \in 1..n : reader'.data[j] = writer'.data[j]
      BY <1>1, <1>3, <2>10, <2>11, <2>13, <3>1, <3>2 DEF ok
    <3> QED
      BY <1>1, <3>3, <3>4, <3>5 DEF ReaderInv
  <2> QED
    BY <2>12, <2>13
<1> QED
  BY <1>11, <1>12

LEMMA OthersKeepReader ==
  ASSUME ReaderInv, UNCHANGED vars
  PROVE  ReaderInv'
BY DEF ReaderInv, ok, vars

LEMMA NextKeepsSession == SessionInv /\ [Next]_vars => SessionInv'
<1> SUFFICES ASSUME WriterInv, ReaderInv, [Next]_vars PROVE WriterInv' /\ ReaderInv'
  BY DEF SessionInv
<1>1. WriterInv'
  BY NextKeepsWriter
<1>2. ASSUME NEW item \in Items, Write(item)
      PROVE  ReaderInv'
  BY <1>1, <1>2, WriteKeepsReader
<1>3. ASSUME NEW n \in 0..byteSize(writer), Arrive(n)
      PROVE  ReaderInv'
  BY <1>3, ArriveKeepsReader
<1>4. CASE Read
  BY <1>1, <1>4, ReadKeepsReader
<1>5. CASE UNCHANGED vars
  BY <1>1, <1>5, OthersKeepReader
<1> QED
  BY <1>1, <1>2, <1>3, <1>4, <1>5 DEF Next

LEMMA SessionHas == SessionInv => ReadsBack /\ FailsAtTheCut
<1> SUFFICES ASSUME WriterInv, ReaderInv PROVE ReadsBack /\ FailsAtTheCut
  BY DEF SessionInv
<1>1. DOMAIN received = 1..Len(received) /\ Len(received) \in Nat
  BY DEF ReaderInv
<1>2. \A i \in DOMAIN received : received[i] = ValueOf(asked[i])
  BY <1>1 DEF ReaderInv
<1>3. ASSUME reading
      PROVE  /\ ok(reader) => reader.bitPos = taken[Len(received) + 1]
             /\ reader.streamErr \in {"Ok", "Eof"}
             /\ ok(reader) => taken[Len(received) + 1] <= Len(reader.data) * ByteBits
             /\ ~ ok(reader) => taken[Len(received) + 2] > Len(reader.data) * ByteBits
  <2>1. PICK n \in 0..Len(buffer) :
       /\ reader \in Streams(n)
       /\ ok(reader) => reader.bitPos = taken[Len(received) + 1]
       /\ ~ ok(reader) => /\ reader.streamErr = "Eof"
                          /\ taken[Len(received) + 2] > n * ByteBits
    BY <1>3 DEF ReaderInv
  <2>2. n \in Nat
    BY <2>1 DEF WriterInv
  <2>3. reader.bitPos <= n * ByteBits /\ Len(reader.data) = n
    BY <2>1, <2>2, StreamIs, LengthIs
  <2> QED
    BY <2>1, <2>3 DEF ok
<1> QED
  BY <1>2, <1>3 DEF ReadsBack, FailsAtTheCut

(* The reader returns every item as it was written, and is where the writer*)
(* was: no length, shift or carry of one side differs from the other (the  *)
(* readers and writers of BitStream.cpp and Varint.h).                     *)
THEOREM AllReadBack == Spec => []ReadsBack
<1>1. Init => SessionInv
  BY InitWriterInv, InitReaderInv DEF SessionInv
<1> QED
  BY <1>1, NextKeepsSession, SessionHas, PTL DEF Spec

(* A reader of part of the bytes gets every item that is whole and fails   *)
(* with Eof at the first that is not (BitStream.cpp:75-77, 138-141): never *)
(* before, never later, and never with another error.                      *)
THEOREM CutsAlwaysFail == Spec => []FailsAtTheCut
<1>1. Init => SessionInv
  BY InitWriterInv, InitReaderInv DEF SessionInv
<1> QED
  BY <1>1, NextKeepsSession, SessionHas, PTL DEF Spec
=============================================================================
