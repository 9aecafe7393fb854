--------------------------- MODULE JsonCodecProofs ---------------------------
(***************************************************************************)
(* Theorems about JsonCodec, for all programs that are nested as the       *)
(* generated ones are, all documents, and every codec that answers with    *)
(* numbers.                                                                *)
(*                                                                         *)
(* The argument: the machine keeps the invariant of VMProofs, for that     *)
(* holds whatever the adapters answer. What it has told them to begin is   *)
(* therefore well nested, and the pointer stack of the object, which grows *)
(* and shrinks with some of it, keeps its length. The decoder's k-th       *)
(* pointer leads to a node k - 1 keys deep, and a call changes nothing at  *)
(* that depth or above it; that the elements are there which the loop over *)
(* an array enters takes its length, given to the object and to the frame  *)
(* before the loop began.                                                  *)
(***************************************************************************)
EXTENDS VMProofs, JsonCodec, WellFoundedInduction

-----------------------------------------------------------------------------
(* Counting: how many of the first i are in E.                             *)
Upto(s, i, E) == Cardinality({j \in 1..i : s[j] \in E})

LEMMA UptoNext ==
  ASSUME NEW s, NEW i \in Nat, NEW E
  PROVE  /\ Upto(s, i, E) \in Nat
         /\ Upto(s, i + 1, E) = Upto(s, i, E) + (IF s[i + 1] \in E THEN 1 ELSE 0)
<1> DEFINE old == {j \in 1..i : s[j] \in E}
           new == {j \in 1..(i + 1) : s[j] \in E}
<1>1. IsFiniteSet(old)
  <2>1. IsFiniteSet(1..i) /\ old \subseteq 1..i
    BY FS_Interval
  <2> QED
    BY <2>1, FS_Subset
<1>2. Cardinality(old) \in Nat
  BY <1>1, FS_CardinalityType
<1>c. Upto(s, i, E) = Cardinality(old) /\ Upto(s, i + 1, E) = Cardinality(new)
  BY DEF Upto
<1>3. CASE s[i + 1] \in E
  <2>1. new = old \cup {i + 1} /\ i + 1 \notin old
    BY <1>3
  <2> HIDE DEF old, new
  <2>2. Cardinality(new) = Cardinality(old) + 1
    BY <2>1, <1>1, FS_AddElement
  <2> QED
    BY <2>2, <1>2, <1>3, <1>c
<1>4. CASE s[i + 1] \notin E
  <2>1. new = old
    BY <1>4
  <2> HIDE DEF old, new
  <2> QED
    BY <2>1, <1>2, <1>4, <1>c
<1> QED
  BY <1>3, <1>4

LEMMA UptoSame ==
  ASSUME NEW s, NEW t, NEW i \in Nat, \A j \in 1..i : s[j] = t[j], NEW E
  PROVE  Upto(s, i, E) = Upto(t, i, E)
<1>1. {j \in 1..i : s[j] \in E} = {j \in 1..i : t[j] \in E}
  OBVIOUS
<1> QED
  BY <1>1 DEF Upto

LEMMA UptoGrows ==
  ASSUME NEW s, NEW i \in Nat, NEW n \in Nat, i <= n, NEW E
  PROVE  Upto(s, i, E) <= Upto(s, n, E)
<1> DEFINE few == {j \in 1..i : s[j] \in E}
           many == {j \in 1..n : s[j] \in E}
<1>1. IsFiniteSet(many)
  <2>1. IsFiniteSet(1..n) /\ many \subseteq 1..n
    BY FS_Interval
  <2> QED
    BY <2>1, FS_Subset
<1>2. few \in SUBSET many
  OBVIOUS
<1> HIDE DEF few, many
<1>3. Cardinality(few) <= Cardinality(many)
  BY <1>1, <1>2, FS_Subset
<1> QED
  BY <1>3 DEF Upto, few, many

(* One that counts is among those up to itself, and not among those before. *)
LEMMA UptoOne ==
  ASSUME NEW s, NEW i \in Nat \ {0}, NEW n \in Nat, i <= n, NEW E, s[i] \in E
  PROVE  /\ Upto(s, i, E) \in 1..Upto(s, n, E)
         /\ \A k \in 0..(i - 1) : Upto(s, k, E) < Upto(s, i, E)
<1>1. PICK m \in Nat : i = m + 1
  <2>1. i - 1 \in Nat /\ i = (i - 1) + 1
    OBVIOUS
  <2> QED
    BY <2>1
<1>2. Upto(s, m, E) \in Nat /\ Upto(s, i, E) = Upto(s, m, E) + 1
  BY <1>1, UptoNext
<1>3. Upto(s, n, E) \in Nat /\ Upto(s, i, E) <= Upto(s, n, E)
  BY UptoNext, UptoGrows
<1>4. ASSUME NEW k \in 0..(i - 1) PROVE Upto(s, k, E) < Upto(s, i, E)
  <2>1. k \in Nat /\ k <= m
    BY <1>1
  <2>2. Upto(s, k, E) \in Nat /\ Upto(s, k, E) <= Upto(s, m, E)
    BY <2>1, UptoNext, UptoGrows
  <2> QED
    BY <1>2, <2>2
<1> QED
  BY <1>2, <1>3, <1>4

-----------------------------------------------------------------------------
(* Paths, and what stays in a document.                                    *)
Path(p) == \E S : p \in Seq(S)

LEMMA PathOf == ASSUME NEW S, NEW p \in Seq(S) PROVE Path(p) /\ Len(p) \in Nat
  BY DEF Path

LEMMA PathAppend ==
  ASSUME NEW p, Path(p), NEW key
  PROVE  Path(Append(p, key)) /\ Len(Append(p, key)) = Len(p) + 1 /\ Len(p) \in Nat
<1>1. PICK S : p \in Seq(S)
  BY DEF Path
<1>2. PICK T : T = S \cup {key}
  OBVIOUS
<1>3. p \in Seq(T) /\ key \in T
  <2>1. \A i \in 1..Len(p) : p[i] \in T
    BY <1>1, <1>2
  <2> QED
    BY <1>1, <1>2, <2>1, SeqDef
<1>4. Append(p, key) \in Seq(T) /\ Len(Append(p, key)) = Len(p) + 1 /\ Len(p) \in Nat
  BY <1>3
<1> QED
  BY <1>4, PathOf

LEMMA SeqInto ==
  ASSUME NEW S, NEW s \in Seq(S), NEW T, \A i \in 1..Len(s) : s[i] \in T
  PROVE  s \in Seq(T)
  BY SeqDef

LEMMA LastIn ==
  ASSUME NEW S, NEW s \in Seq(S), s # <<>>
  PROVE  /\ Last(s) \in S /\ Last(s) = s[Len(s)]
         /\ Len(s) \in Nat \ {0} /\ Len(s) \in 1..Len(s)
<1>1. Len(s) \in 1..Len(s) /\ Len(s) \in Nat \ {0}
  OBVIOUS
<1> QED
  BY <1>1 DEF Last

(* No path leads below another that is as long.                            *)
LEMMA NotBelow ==
  ASSUME NEW p, NEW q, Path(p), Path(q), Len(q) <= Len(p)
  PROVE  ~ IsStrictPrefix(p, q)
<1> SUFFICES ASSUME IsPrefix(p, q) PROVE p = q
  BY DEF IsStrictPrefix
<1>1. PICK S : p \in Seq(S)
  BY DEF Path
<1>2. PICK T : q \in Seq(T)
  BY DEF Path
<1>3. Len(p) \in Nat /\ Len(q) \in Nat /\ Len(p) <= Len(q)
  BY <1>1, <1>2 DEF IsPrefix
<1>4. Len(p) = Len(q) /\ SubSeq(p, 1, Len(p)) = SubSeq(q, 1, Len(p))
  BY <1>3 DEF IsPrefix
<1>5. SubSeq(p, 1, Len(p)) = p
  BY <1>1, SubSeqFull
<1>6. SubSeq(q, 1, Len(q)) = q
  BY <1>2, SubSeqFull
<1> QED
  BY <1>4, <1>5, <1>6

(* What is put at a path leaves alone what is no deeper.                   *)
Keeps(d, e, depth) ==
  \A q \in DOMAIN d : Path(q) /\ Len(q) <= depth => q \in DOMAIN e

LEMMA PutKeeps ==
  ASSUME NEW d, NEW p, Path(p), NEW node
  PROVE  p \in DOMAIN Put(d, p, node) /\ Keeps(d, Put(d, p, node), Len(p))
<1>1. DOMAIN Put(d, p, node) = {q \in DOMAIN d : ~ IsStrictPrefix(p, q)} \cup {p}
  BY DEF Put
<1> QED
  BY <1>1, NotBelow DEF Keeps

LEMMA KeepsLess ==
  ASSUME NEW d, NEW e, NEW n \in Nat, NEW m \in Nat, m <= n, Keeps(d, e, n)
  PROVE  Keeps(d, e, m)
<1> SUFFICES ASSUME NEW q \in DOMAIN d, Path(q), Len(q) <= m PROVE q \in DOMAIN e
  BY DEF Keeps
<1>1. Len(q) \in Nat
  BY DEF Path
<1> QED
  BY <1>1 DEF Keeps

LEMMA KeepsOn ==
  ASSUME NEW d, NEW e, NEW f, NEW n, Keeps(d, e, n), Keeps(e, f, n)
  PROVE  Keeps(d, f, n)
  BY DEF Keeps

-----------------------------------------------------------------------------
(* A step after which the machine runs on: the adapters agreed, and the    *)
(* instruction did to the stacks what it does to them.                     *)
LEMMA StepTold ==
  ASSUME IInv, NEW answer, NEW status, Step(answer, status), running'
  PROVE  /\ Fetches /\ status = "Ok"
         /\ prog' = prog /\ encodeMode' = encodeMode /\ leftover' = leftover
         /\ instr.op \in Begins => open' = Append(open, Ending[instr.op])
         /\ instr.op \in Ends => open' = Pop(open)
         /\ instr.op \notin Begins \cup Ends => open' = open
<1> USE DEF At, Proceed, Fail, Begins, Ends, Ending
<1>1. ~ RunsOff /\ ~ Halt /\ ~ Invalid
  BY DEF RunsOff, Halt, Invalid
<1>2. CASE Jump(status)
  <2>1. instr.op \in {"JMP", "JZ"} /\ open' = open
    BY <1>2 DEF Jump
  <2>2. Fetches /\ status = "Ok" /\ UNCHANGED <<prog, encodeMode, leftover>>
    BY <1>2 DEF Jump
  <2> QED
    BY <2>1, <2>2
<1>3. CASE Ret(status)
  BY <1>3 DEF Ret
<1>4. CASE Call(status)
  <2>1. instr.op \in {"CALL_TYPE", "CALL_TYPE_INDIRECT"} /\ open' = open
    BY <1>4 DEF Call
  <2>2. Fetches /\ status = "Ok" /\ UNCHANGED <<prog, encodeMode, leftover>>
    BY <1>4 DEF Call
  <2> QED
    BY <2>1, <2>2
<1>5. CASE Dispatch(status)
  BY <1>5 DEF Dispatch
<1>6. CASE Enter(status)
  BY <1>6 DEF Enter, Begin
<1>7. CASE Exit(status)
  BY <1>7 DEF Exit, End
<1>8. CASE ArrayNext(status)
  BY <1>8 DEF ArrayNext
<1>9. CASE Write(status)
  BY <1>9 DEF Write, Writes, PassedOver
<1>10. CASE WriteLength(status)
  BY <1>10 DEF WriteLength, Uses
<1>11. CASE ReadScalar(answer, status)
  BY <1>11 DEF ReadScalar, Reads
<1>12. CASE ReadArm(answer, status)
  BY <1>12 DEF ReadArm, Reads
<1>13. CASE ReadLength(answer, status)
  BY <1>13 DEF ReadLength, Reads
<1>14. CASE ReadFlag(answer, status)
  BY <1>14 DEF ReadFlag, AsksFlag, Reads
<1> QED
  BY <1>1, <1>2, <1>3, <1>4, <1>5, <1>6, <1>7, <1>8, <1>9, <1>10, <1>11, <1>12, <1>13, <1>14
  DEF Step

(* Within an array, and where something begins or ends, the program goes   *)
(* on at a successor.                                                      *)
LEMMA StepOn ==
  ASSUME IInv, NEW answer, NEW status, Step(answer, status), running',
         instr.op \in InArray \cup Begins \cup Ends
  PROVE  pc \notin Main /\ pc' \in Successors(prog, pc)
<1>1. Fetches /\ instr.op = Op(prog, pc) /\ instr.imm = Imm(prog, pc)
  BY StepTold, Fetched
<1>2. pc \notin Main /\ (instr.op \notin {"JMP", "JZ"} => pc + 1 \in Successors(prog, pc))
  BY <1>1, InRoutine DEF InArray, Begins, Ends, Ending
<1> USE DEF At, Proceed, Fail, InArray, Begins, Ends, Ending
<1>3. ~ RunsOff /\ ~ Halt /\ ~ Invalid
  BY DEF RunsOff, Halt, Invalid
<1>o. instr.op \notin {"RET", "CALL_TYPE", "CALL_TYPE_INDIRECT", "DISPATCH", "O_READ_SCALAR",
                       "C_READ_SCALAR", "O_READ_ONEOF_ARM", "C_READ_ONEOF_ARM",
                       "O_READ_OPT_PRESENT", "C_READ_OPT_PRESENT", "C_MATCH_FIELD_ID",
                       "C_SKIP_FIELD"}
  OBVIOUS
<1>4. CASE Jump(status)
  <2>1. \/ instr.op = "JMP" /\ pc' = pc + instr.imm
        \/ instr.op = "JZ" /\ (pc' = pc + instr.imm \/ pc' = pc + 1)
    BY <1>4 DEF Jump
  <2> QED
    BY <1>1, <1>2, <2>1 DEF Successors
<1>5. ~ Ret(status) /\ ~ Call(status) /\ ~ Dispatch(status)
  <2> HIDE DEF InArray, Begins, Ends, Ending
  <2> QED
    BY <1>o DEF Ret, Call, Dispatch
<1>6. CASE Enter(status)
  BY <1>2, <1>6 DEF Enter
<1>7. CASE Exit(status)
  BY <1>2, <1>7 DEF Exit
<1>8. CASE ArrayNext(status)
  BY <1>2, <1>8 DEF ArrayNext
<1>9. CASE Write(status)
  BY <1>2, <1>9 DEF Write, Writes, PassedOver
<1>10. CASE WriteLength(status)
  BY <1>2, <1>10 DEF WriteLength, Uses
<1>11. ~ ReadScalar(answer, status) /\ ~ ReadArm(answer, status) /\ ~ ReadFlag(answer, status)
  <2> HIDE DEF InArray, Begins, Ends, Ending
  <2>1. ~ ReadScalar(answer, status)
    BY <1>o DEF ReadScalar, Reads
  <2>2. ~ ReadArm(answer, status)
    BY <1>o DEF ReadArm, Reads
  <2>3. ~ ReadFlag(answer, status)
    BY <1>o DEF ReadFlag, AsksFlag, Reads
  <2> QED
    BY <2>1, <2>2, <2>3
<1>12. CASE ReadLength(answer, status)
  BY <1>2, <1>12 DEF ReadLength, Reads
<1> QED
  BY <1>3, <1>4, <1>5, <1>6, <1>7, <1>8, <1>9, <1>10, <1>11, <1>12 DEF Step

(* The length of an array changes only when it is the innermost one and an *)
(* instruction reads or writes it.                                         *)
LengthOps == {"O_READ_ARRAY_LEN", "C_READ_ARRAY_LEN", "O_WRITE_ARRAY_LEN"}

LEMMA LengthsKept ==
  ASSUME NEW S, NEW s \in Seq(S), s # <<>>, NEW x \in S,
         NEW t, t = SetTop(s, x) \/ t = Pop(s)
  PROVE  /\ \A i \in 1..Len(s) : i < Len(s) => t[i] = s[i]
         /\ t = SetTop(s, x) => t[Len(s)] = x
BY DEF SetTop, Pop

LEMMA LengthSet ==
  ASSUME NEW L, NEW I, NEW f \in [len : L, idx : I], NEW n \in L
  PROVE  /\ [f EXCEPT !.len = n] \in [len : L, idx : I]
         /\ [f EXCEPT !.len = n].len = n
OBVIOUS

LEMMA StepLengths ==
  ASSUME IInv, NEW answer \in Int, NEW status, Step(answer, status), running'
  PROVE  /\ \A i \in 1..Len(arrayStack) :
              i < Len(arrayStack) \/ instr.op \notin LengthOps \cup {"ARRAY_END"}
                => arrayStack'[i].len = arrayStack[i].len
         /\ instr.op = "O_WRITE_ARRAY_LEN" /\ ~ encodeMode =>
              arrayStack'[Len(arrayStack)].len = reg % U32
<1> DEFINE Frames == [len : 0..(U32 - 1), idx : 0..(U32 - 1)]
<1>1. Fetches /\ arrayStack \in Seq(Frames) /\ reg \in Int /\ encodeMode \in BOOLEAN
  BY StepTold, Fetched DEF TypeOK
<1>2. arrayStack # <<>> => Top(arrayStack) \in Frames /\ Top(arrayStack) = arrayStack[Len(arrayStack)]
  BY <1>1, TopType DEF Top
<1>3. UNCHANGED arrayStack =>
        \A i \in 1..Len(arrayStack) : arrayStack'[i].len = arrayStack[i].len
  OBVIOUS
<1> USE DEF At
<1>4. CASE RunsOff \/ Halt \/ Invalid
  BY <1>4 DEF RunsOff, Halt, Invalid, Fail
<1>5. CASE Jump(status) \/ Ret(status) \/ Call(status) \/ Dispatch(status)
  <2>1. UNCHANGED arrayStack /\ instr.op # "O_WRITE_ARRAY_LEN"
    BY <1>5 DEF Jump, Ret, Call, Dispatch, stacks
  <2> QED
    BY <1>3, <2>1
<1>6. CASE Enter(status)
  <2>1. CASE instr.op = "ARRAY_BEGIN"
    <3>1. arrayStack' = Append(arrayStack, [len |-> 0, idx |-> U32 - 1])
      BY <1>6, <2>1 DEF Enter
    <3> HIDE DEF Frames
    <3> QED
      BY <1>1, <2>1, <3>1
  <2>2. CASE instr.op # "ARRAY_BEGIN"
    <3>1. UNCHANGED arrayStack /\ instr.op # "O_WRITE_ARRAY_LEN"
      BY <1>6, <2>2 DEF Enter, stacks
    <3> QED
      BY <1>3, <3>1
  <2> QED
    BY <2>1, <2>2
<1>7. CASE Exit(status)
  <2>1. CASE instr.op = "ARRAY_END"
    <3>1. arrayStack' = Pop(arrayStack) /\ arrayStack # <<>>
      BY <1>7, <2>1 DEF Exit
    <3>2. \A i \in 1..Len(arrayStack) : i < Len(arrayStack) => arrayStack'[i] = arrayStack[i]
      BY <1>1, <1>2, <3>1, LengthsKept
    <3> QED
      BY <2>1, <3>2
  <2>2. CASE instr.op # "ARRAY_END"
    <3>1. UNCHANGED arrayStack /\ instr.op # "O_WRITE_ARRAY_LEN"
      BY <1>7, <2>2 DEF Exit, stacks
    <3> QED
      BY <1>3, <3>1
  <2> QED
    BY <2>1, <2>2
<1>8. CASE ArrayNext(status)
  <2>1. PICK x : /\ x = [Top(arrayStack) EXCEPT !.idx = NextIndex(Top(arrayStack).idx)]
                 /\ arrayStack' = SetTop(arrayStack, x)
    BY <1>8 DEF ArrayNext
  <2>2. arrayStack # <<>> /\ instr.op = "ARRAY_NEXT"
    BY <1>8 DEF ArrayNext
  <2>3. x \in Frames /\ x.len = Top(arrayStack).len
    <3>1. NextIndex(Top(arrayStack).idx) \in 0..(U32 - 1)
      <4>1. Top(arrayStack).idx \in 0..(U32 - 1)
        BY <1>2, <2>2
      <4>2. Top(arrayStack).idx + 1 \in Int
        BY <4>1
      <4> QED
        BY <4>2, Widths DEF NextIndex
    <3> QED
      BY <1>2, <2>1, <2>2, <3>1
  <2>4. /\ \A i \in 1..Len(arrayStack) : i < Len(arrayStack) => arrayStack'[i] = arrayStack[i]
        /\ arrayStack'[Len(arrayStack)] = x
    BY <1>1, <2>1, <2>2, <2>3, LengthsKept
  <2>5. \A i \in 1..Len(arrayStack) : i < Len(arrayStack) \/ i = Len(arrayStack)
    BY <1>1
  <2> QED
    BY <1>2, <2>2, <2>3, <2>4, <2>5
<1>9. CASE Write(status)
  <2>1. UNCHANGED arrayStack /\ ~ (instr.op = "O_WRITE_ARRAY_LEN" /\ ~ encodeMode)
    BY <1>9 DEF Write, Writes, PassedOver, stacks
  <2> QED
    BY <1>3, <2>1
<1>10. CASE WriteLength(status)
  <2>1. PICK x : /\ x = [Top(arrayStack) EXCEPT !.len = reg % U32]
                 /\ arrayStack' = SetTop(arrayStack, x)
    BY <1>10 DEF WriteLength
  <2>2. arrayStack # <<>> /\ instr.op = "O_WRITE_ARRAY_LEN"
    BY <1>10 DEF WriteLength, Uses
  <2>3. x \in Frames /\ x.len = reg % U32
    <3>1. reg % U32 \in 0..(U32 - 1)
      BY <1>1, Widths
    <3>2. Top(arrayStack) \in Frames
      BY <1>2, <2>2
    <3> QED
      BY <2>1, <3>1, <3>2, LengthSet
  <2>4. /\ \A i \in 1..Len(arrayStack) : i < Len(arrayStack) => arrayStack'[i] = arrayStack[i]
        /\ arrayStack'[Len(arrayStack)] = x
    BY <1>1, <2>1, <2>2, <2>3, LengthsKept
  <2> QED
    BY <2>2, <2>3, <2>4 DEF LengthOps
<1>11. CASE ReadLength(answer, status)
  <2>1. PICK x : /\ x = [Top(arrayStack) EXCEPT !.len = answer % U32]
                 /\ arrayStack' = SetTop(arrayStack, x)
    BY <1>11 DEF ReadLength
  <2>2. arrayStack # <<>> /\ instr.op \in LengthOps /\ instr.op # "O_WRITE_ARRAY_LEN"
    BY <1>11 DEF ReadLength, Reads, LengthOps
  <2>3. x \in Frames
    <3>1. answer % U32 \in 0..(U32 - 1)
      BY Widths
    <3>2. Top(arrayStack) \in Frames
      BY <1>2, <2>2
    <3> QED
      BY <2>1, <3>1, <3>2, LengthSet
  <2>4. \A i \in 1..Len(arrayStack) : i < Len(arrayStack) => arrayStack'[i] = arrayStack[i]
    BY <1>1, <2>1, <2>2, <2>3, LengthsKept
  <2> QED
    BY <2>2, <2>4
<1>12. CASE ReadScalar(answer, status) \/ ReadArm(answer, status) \/ ReadFlag(answer, status)
  <2>1. UNCHANGED arrayStack /\ instr.op # "O_WRITE_ARRAY_LEN"
    BY <1>12 DEF ReadScalar, ReadArm, ReadFlag, AsksFlag, Reads, stacks
  <2> QED
    BY <1>3, <2>1
<1> QED
  BY <1>4, <1>5, <1>6, <1>7, <1>8, <1>9, <1>10, <1>11, <1>12 DEF Step

(* A oneof that is entered is the one that the instruction names.          *)
LEMMA StepOneofs ==
  ASSUME IInv, NEW answer, NEW status, Step(answer, status), running',
         NEW i \in 1..Len(oneofStack')
  PROVE  \/ i \in 1..Len(oneofStack) /\ oneofStack'[i] = oneofStack[i]
         \/ instr.op = "ONEOF_BEGIN" /\ oneofStack'[i] = instr.imm
<1>1. Fetches /\ oneofStack \in Seq(Nat)
  BY StepTold, Fetched DEF TypeOK
<1> USE DEF At
<1>2. CASE RunsOff \/ Halt \/ Invalid
  BY <1>2 DEF RunsOff, Halt, Invalid, Fail
<1>3. CASE \/ Jump(status) \/ Ret(status) \/ Call(status) \/ Dispatch(status)
           \/ ArrayNext(status) \/ Write(status) \/ WriteLength(status)
           \/ ReadScalar(answer, status) \/ ReadArm(answer, status)
           \/ ReadLength(answer, status) \/ ReadFlag(answer, status)
  <2>1. UNCHANGED oneofStack
    BY <1>3 DEF Jump, Ret, Call, Dispatch, ArrayNext, Write, WriteLength, ReadScalar, ReadArm,
                ReadLength, ReadFlag, stacks
  <2> QED
    BY <2>1
<1>4. CASE Enter(status)
  <2>1. UNCHANGED oneofStack \/ (instr.op = "ONEOF_BEGIN" /\ oneofStack' = Append(oneofStack, instr.imm))
    BY <1>4 DEF Enter, stacks
  <2> QED
    BY <1>1, <2>1
<1>5. CASE Exit(status)
  <2>1. UNCHANGED oneofStack \/ (oneofStack # <<>> /\ oneofStack' = Pop(oneofStack))
    BY <1>5 DEF Exit, stacks
  <2> QED
    BY <1>1, <2>1 DEF Pop
<1> QED
  BY <1>2, <1>3, <1>4, <1>5 DEF Step

-----------------------------------------------------------------------------
(* What the object is told, on both sides: one kind of instruction pushes  *)
(* a pointer, another pops one.                                            *)
Pushers == {"FIELD_BEGIN", "OPT_BEGIN_VALUE", "ONEOF_ARM_BEGIN", "ARRAY_ELEM_BEGIN"}

LEMMA PushersEnd ==
  /\ Pushers \subseteq Begins /\ Leaves \subseteq Ends
  /\ \A b \in Begins : Ending[b] \in Leaves <=> b \in Pushers
  /\ Pushers \cap Ends = {} /\ Leaves \cap Begins = {} /\ Begins \cap Ends = {}
BY DEF Pushers, Leaves, Begins, Ends, Ending

(* How many pointers there are after one of these instructions.            *)
StackAfter(op, n) == IF op \in Pushers THEN n + 1 ELSE IF op \in Leaves THEN n - 1 ELSE n

(* The encoder's pointers are those of nodes of the document.              *)
IsEncoder(o, d) == o = [stack |-> o.stack, err |-> o.err] /\ o.stack \in Seq(DOMAIN d)

LEMMA EncoderPush ==
  ASSUME NEW d, NEW o, IsEncoder(o, d), NEW p \in DOMAIN d
  PROVE  IsEncoder(Push(o, p).obj, d) /\ Len(Push(o, p).obj.stack) = Len(o.stack) + 1
<1>1. PICK D : D = DOMAIN d
  OBVIOUS
<1>2. PICK s \in Seq(D) : s = o.stack
  BY <1>1 DEF IsEncoder
<1>3. Append(s, p) \in Seq(D) /\ Len(Append(s, p)) = Len(s) + 1
  BY <1>1, AppendProperties
<1>4. PICK r : r = [o EXCEPT !.stack = Append(s, p)]
  OBVIOUS
<1>5. r = [stack |-> Append(s, p), err |-> o.err] /\ Push(o, p).obj = r
  BY <1>2, <1>4 DEF IsEncoder, Push, Does
<1>6. r.stack = Append(s, p) /\ r = [stack |-> r.stack, err |-> r.err]
  BY <1>5
<1> QED
  BY <1>1, <1>2, <1>3, <1>5, <1>6 DEF IsEncoder

LEMMA EncoderFails ==
  ASSUME NEW d, NEW o, IsEncoder(o, d), NEW e
  PROVE  Fails(o, e).obj.err = e
BY DEF IsEncoder, Fails

LEMMA EncoderPops ==
  ASSUME NEW d, NEW o, IsEncoder(o, d), popStack(o).obj.err = "Ok"
  PROVE  IsEncoder(popStack(o).obj, d) /\ Len(popStack(o).obj.stack) = Len(o.stack) - 1
<1>1. o.stack # <<>>
  BY EncoderFails DEF popStack
<1>2. popStack(o).obj = [o EXCEPT !.stack = Front(@)]
  BY <1>1 DEF popStack, Does
<1>3. PICK s \in Seq(DOMAIN d) : s = o.stack
  BY DEF IsEncoder
<1>4. Front(s) \in Seq(DOMAIN d) /\ Len(Front(s)) = Len(s) - 1
  BY <1>1, <1>3, PopType DEF Front, Pop
<1> QED
  BY <1>2, <1>3, <1>4 DEF IsEncoder

LEMMA EncodeMoves ==
  ASSUME NEW schema, NEW d, NullPath \in DOMAIN d,
         NEW o, IsEncoder(o, d), o.stack # <<>>, NEW ins, NEW view, NEW told,
         told = EncodeCall(schema, d, o, ins, view, U32, U64), told.obj.err = "Ok"
  PROVE  /\ IsEncoder(told.obj, d)
         /\ Len(told.obj.stack) = StackAfter(ins.op, Len(o.stack))
<1> DEFINE top == Last(o.stack)
<1>1. \A e : Fails(o, e).obj.err = e
  BY EncoderFails
<1>2. ASSUME NEW p, told = Push(o, p), ins.op \in Pushers, p \in DOMAIN d
      PROVE  /\ IsEncoder(told.obj, d)
             /\ Len(told.obj.stack) = StackAfter(ins.op, Len(o.stack))
  BY <1>2, EncoderPush DEF StackAfter
<1>3. ASSUME told.obj = o, ins.op \notin Pushers \cup Leaves
      PROVE  /\ IsEncoder(told.obj, d)
             /\ Len(told.obj.stack) = StackAfter(ins.op, Len(o.stack))
  BY <1>3 DEF StackAfter
<1>4. CASE ins.op = "MSG_BEGIN"
  <2>1. told.obj = o
    BY <1>1, <1>4 DEF EncodeCall, Leaves, Does
  <2> QED
    BY <1>3, <1>4, <2>1 DEF Pushers, Leaves
<1>5. CASE ins.op = "FIELD_BEGIN"
  <2>1. told = fieldBegin(schema, d, o, ins.imm + 1)
    BY <1>5 DEF EncodeCall, Leaves
  <2>2. PICK p \in DOMAIN d : told = Push(o, p)
    BY <2>1 DEF fieldBegin
  <2> QED
    BY <1>2, <1>5, <2>2 DEF Pushers
<1>6. CASE ins.op = "O_READ_OPT_PRESENT"
  <2>1. told = optPresent(d, o, top)
    BY <1>6 DEF EncodeCall, Leaves
  <2>2. told.obj = o
    BY <1>1, <2>1 DEF optPresent, Does
  <2> QED
    BY <1>3, <1>6, <2>2 DEF Pushers, Leaves
<1>7. CASE ins.op = "O_READ_ARRAY_LEN"
  <2>1. told = arrayLen(d, o, top)
    BY <1>7 DEF EncodeCall, Leaves
  <2>2. told.obj = o
    BY <1>1, <2>1 DEF arrayLen, Does
  <2> QED
    BY <1>3, <1>7, <2>2 DEF Pushers, Leaves
<1>8. CASE ins.op = "ARRAY_ELEM_BEGIN"
  <2>1. told = arrayEnterElem(d, o, top, view.idx)
    BY <1>8 DEF EncodeCall, Leaves
  <2>2. PICK p \in DOMAIN d : told = Push(o, p)
    BY <1>1, <2>1 DEF arrayEnterElem
  <2> QED
    BY <1>2, <1>8, <2>2 DEF Pushers
<1>9. CASE ins.op = "O_READ_ONEOF_ARM"
  <2>1. told = oneofIndex(schema, d, o, top, view.oneof + 1, U32)
    BY <1>9 DEF EncodeCall, Leaves
  <2>2. told.obj = o
    BY <1>1, <2>1 DEF oneofIndex, Does
  <2> QED
    BY <1>3, <1>9, <2>2 DEF Pushers, Leaves
<1>10. CASE ins.op \in {"OPT_BEGIN_VALUE", "ONEOF_ARM_BEGIN"}
  <2>1. told = enterValue(d, o, top)
    BY <1>10 DEF EncodeCall, Leaves
  <2>2. PICK p \in DOMAIN d : told = Push(o, p)
    BY <1>1, <2>1 DEF enterValue, Has
  <2> QED
    BY <1>2, <1>10, <2>2 DEF Pushers
<1>11. CASE ins.op = "O_READ_SCALAR"
  <2>1. told = readScalar(d, o, top, ins.mode, U64)
    BY <1>11 DEF EncodeCall, Leaves
  <2>2. told.obj = o
    BY <1>1, <2>1 DEF readScalar, Does
  <2> QED
    BY <1>3, <1>11, <2>2 DEF Pushers, Leaves
<1>12. CASE ins.op \in Leaves
  <2>1. told = popStack(o)
    BY <1>12 DEF EncodeCall, Leaves
  <2>2. ins.op \notin Pushers
    BY <1>12 DEF Pushers, Leaves
  <2> QED
    BY <1>12, <2>1, <2>2, EncoderPops DEF StackAfter
<1>13. CASE ins.op \notin {"MSG_BEGIN", "FIELD_BEGIN", "O_READ_OPT_PRESENT", "O_READ_ARRAY_LEN",
                           "ARRAY_ELEM_BEGIN", "O_READ_ONEOF_ARM", "OPT_BEGIN_VALUE",
                           "ONEOF_ARM_BEGIN", "O_READ_SCALAR"} \cup Leaves
  <2>1. told.obj = o
    BY <1>13 DEF EncodeCall, Does
  <2> QED
    BY <1>3, <1>13, <2>1 DEF Pushers
<1> QED
  BY <1>4, <1>5, <1>6, <1>7, <1>8, <1>9, <1>10, <1>11, <1>12, <1>13

(* Numbers have a least one.                                               *)
LEMMA LeastNumber ==
  ASSUME NEW T \in SUBSET Nat, T # {}
  PROVE  Min(T) \in Nat
<1> DEFINE R == OpToRel(<, Nat)
<1>1. IsWellFoundedOn(R, Nat)
  BY NatLessThanWellFounded
<1>2. \A x, y \in Nat : y < x => <<y, x>> \in R
  BY DEF OpToRel
<1> HIDE DEF R
<1>3. PICK x \in T : \A y \in T : <<y, x>> \notin R
  BY <1>1, WFMin
<1>4. \A y \in T : ~ (y < x)
  BY <1>2, <1>3
<1>5. x \in T /\ \A y \in T : x =< y
  BY <1>4
<1> QED
  BY <1>5 DEF Min

(* A document as JsonAssumption wants it, and m_null with it.              *)
IsDocument(d) == IsFiniteSet(DOMAIN d) /\ \A p \in DOMAIN d : d[p].value \in Int

LEMMA WithNullDocument ==
  ASSUME NEW d, IsDocument(d), Root \in DOMAIN d
  PROVE  /\ IsDocument(WithNull(d))
         /\ NullPath \in DOMAIN WithNull(d) /\ Root \in DOMAIN WithNull(d)
<1> DEFINE b == NullPath
           e == Element(NullPath, 0)
<1>1. PICK f : f = WithNull(d)
  OBVIOUS
<1>2. DOMAIN f = {b} \cup {e} \cup DOMAIN d
  BY <1>1 DEF WithNull, Over
<1>3. \A p \in DOMAIN f : f[p] = List \/ f[p] = Null \/ (p \in DOMAIN d /\ f[p] = d[p])
  BY <1>1 DEF WithNull, Over
<1>4. List.value \in Int /\ Null.value \in Int
  BY DEF List, Null, Node
<1>5. IsFiniteSet({b} \cup {e} \cup DOMAIN d)
  <2>1. IsFiniteSet({b}) /\ IsFiniteSet({e}) /\ IsFiniteSet(DOMAIN d)
    BY FS_Singleton DEF IsDocument
  <2> HIDE DEF b, e
  <2> QED
    BY <2>1, FS_Union
<1>6. IsDocument(f)
  BY <1>2, <1>3, <1>4, <1>5 DEF IsDocument
<1> QED
  BY <1>1, <1>2, <1>6

(* The encoder answers with numbers, and with 0 or 1 when asked whether    *)
(* something is there.                                                     *)
LEMMA EncodeAnswers ==
  ASSUME NEW schema, NEW d, IsDocument(d),
         NEW o, IsEncoder(o, d), o.stack # <<>>, NEW ins, NEW view,
         ins.op = "O_READ_ONEOF_ARM" => schema.oneOfs[view.oneof + 1] \in Seq(Nat),
         NEW told, told = EncodeCall(schema, d, o, ins, view, U32, U64)
  PROVE  told.answer \in Int /\ (ins.op = "O_READ_OPT_PRESENT" => told.answer \in {0, 1})
<1> DEFINE top == Last(o.stack)
<1>1. top \in DOMAIN d /\ d[top].value \in Int
  <2>1. o.stack \in Seq(DOMAIN d)
    BY DEF IsEncoder
  <2> QED
    BY <2>1, LastIn DEF IsDocument
<1>2. \A e : Fails(o, e).answer = 0
  BY DEF Fails
<1>3. \A a : Does(o, a).answer = a
  BY DEF Does
<1>4. CASE ins.op = "O_READ_OPT_PRESENT"
  <2>1. told = optPresent(d, o, top)
    BY <1>4 DEF EncodeCall, Leaves
  <2> HIDE DEF top
  <2> QED
    BY <1>2, <1>3, <2>1 DEF optPresent
<1>5. CASE ins.op = "O_READ_ARRAY_LEN"
  <2>1. told = arrayLen(d, o, top)
    BY <1>5 DEF EncodeCall, Leaves
  <2>2. Cardinality(Children(d, top)) \in Nat
    <3>1. Children(d, top) \in SUBSET DOMAIN d /\ IsFiniteSet(DOMAIN d)
      BY DEF Children, IsDocument
    <3>2. IsFiniteSet(Children(d, top))
      BY <3>1, FS_Subset
    <3> QED
      BY <3>2, FS_CardinalityType
  <2> HIDE DEF top
  <2> QED
    BY <1>2, <1>3, <1>5, <2>1, <2>2 DEF arrayLen
<1>6. CASE ins.op = "O_READ_ONEOF_ARM"
  <2>1. told = oneofIndex(schema, d, o, top, view.oneof + 1, U32)
    BY <1>6 DEF EncodeCall, Leaves
  <2> DEFINE arms == fieldNumbers(schema, view.oneof + 1)
             num == d[Child(top, "case")].value % U32
             matching == {i \in DOMAIN arms : arms[i] = num}
  <2>2. told = Fails(o, "BadData") \/ (matching # {} /\ told = Does(o, Min(matching) - 1))
    BY <2>1 DEF oneofIndex
  <2>3. matching \in SUBSET Nat
    <3>1. DOMAIN arms = DOMAIN schema.oneOfs[view.oneof + 1]
      BY DEF fieldNumbers
    <3>2. DOMAIN schema.oneOfs[view.oneof + 1] \subseteq Nat
      BY <1>6
    <3> QED
      BY <3>1, <3>2
  <2> HIDE DEF matching, top
  <2>4. matching # {} => Min(matching) - 1 \in Int
    BY <2>3, LeastNumber
  <2> QED
    BY <1>2, <1>3, <1>6, <2>2, <2>4
<1>7. CASE ins.op = "O_READ_SCALAR"
  <2>1. told = readScalar(d, o, top, ins.mode, U64)
    BY <1>7 DEF EncodeCall, Leaves
  <2>2. PICK v \in Int : v = d[top].value
    BY <1>1
  <2>3. Unsigned(v, U64) \in Int /\ Unsigned(CharValue(v), U64) \in Int
    <3>1. CharValue(v) \in Int
      BY DEF CharValue
    <3> QED
      BY <3>1, Widths DEF Unsigned
  <2> HIDE DEF top
  <2>4. \/ told = Does(o, v) \/ told = Does(o, Unsigned(v, U64))
        \/ told = Does(o, Unsigned(CharValue(v), U64)) \/ told = Fails(o, "BadData")
    BY <2>1, <2>2 DEF readScalar
  <2> QED
    BY <1>2, <1>3, <1>7, <2>3, <2>4
<1>8. CASE ins.op \notin {"O_READ_OPT_PRESENT", "O_READ_ARRAY_LEN", "O_READ_ONEOF_ARM",
                          "O_READ_SCALAR"}
  <2>1. told.answer = 0
    <3> HIDE DEF top
    <3>1. \A p : Push(o, p).answer = 0
      BY DEF Push, Does
    <3>2. popStack(o).answer = 0
      BY DEF popStack, Fails, Does
    <3>3. \A f : fieldBegin(schema, d, o, f).answer = 0
      BY <3>1 DEF fieldBegin
    <3>4. \A p, i : arrayEnterElem(d, o, p, i).answer = 0 /\ enterValue(d, o, p).answer = 0
      BY <1>2, <3>1 DEF arrayEnterElem, enterValue
    <3> QED
      BY <1>2, <1>3, <1>8, <3>2, <3>3, <3>4 DEF EncodeCall, Leaves
  <2> QED
    BY <1>8, <2>1
<1> QED
  BY <1>4, <1>5, <1>6, <1>7, <1>8

-----------------------------------------------------------------------------
(* The decoder's k-th pointer leads to a node k - 1 keys deep.             *)
IsRecord(o) == o = [doc |-> o.doc, stack |-> o.stack, inString |-> o.inString, err |-> o.err]
IsDecoder(o) ==
  /\ IsRecord(o) /\ o.stack \in Seq(DOMAIN o.doc)
  /\ \A i \in 1..Len(o.stack) : Path(o.stack[i]) /\ Len(o.stack[i]) = i - 1

(* What a call may do: r is the decoder after it.                          *)
Follows(o, r, op) ==
  /\ IsDecoder(r)
  /\ Keeps(o.doc, r.doc, Len(o.stack) - 1)
  /\ Len(r.stack) = StackAfter(op, Len(o.stack))
  /\ \A i \in 1..Len(o.stack) : i \in 1..Len(r.stack) => r.stack[i] = o.stack[i]

LEMMA DecoderTop ==
  ASSUME NEW o, IsDecoder(o), o.stack # <<>>
  PROVE  /\ Last(o.stack) \in DOMAIN o.doc /\ Path(Last(o.stack))
         /\ Len(Last(o.stack)) = Len(o.stack) - 1 /\ Last(o.stack) = o.stack[Len(o.stack)]
         /\ Len(o.stack) \in Nat \ {0} /\ Len(o.stack) \in 1..Len(o.stack)
<1>1. PICK s \in Seq(DOMAIN o.doc) : s = o.stack
  BY DEF IsDecoder
<1>2. /\ Last(s) \in DOMAIN o.doc /\ Last(s) = s[Len(s)]
      /\ Len(s) \in Nat \ {0} /\ Len(s) \in 1..Len(s)
  BY <1>1, LastIn
<1> QED
  BY <1>1, <1>2 DEF IsDecoder

LEMMA StackKept ==
  ASSUME NEW o, IsDecoder(o), o.stack # <<>>, NEW r, IsRecord(r),
         Keeps(o.doc, r.doc, Len(o.stack) - 1), r.stack = o.stack,
         NEW op, op \notin Pushers \cup Leaves
  PROVE  Follows(o, r, op)
<1>1. \A i \in 1..Len(o.stack) : o.stack[i] \in DOMAIN r.doc
  <2> TAKE i \in 1..Len(o.stack)
  <2>1. /\ o.stack[i] \in DOMAIN o.doc /\ Path(o.stack[i]) /\ Len(o.stack[i]) = i - 1
        /\ Len(o.stack) \in Nat
    BY DEF IsDecoder
  <2>2. Len(o.stack[i]) <= Len(o.stack) - 1
    BY <2>1
  <2> QED
    BY <2>1, <2>2 DEF Keeps
<1>2. r.stack \in Seq(DOMAIN r.doc)
  BY <1>1, SeqInto DEF IsDecoder
<1> QED
  BY <1>2 DEF IsDecoder, Follows, StackAfter

LEMMA StackPushed ==
  ASSUME NEW o, IsDecoder(o), o.stack # <<>>, NEW r, IsRecord(r),
         Keeps(o.doc, r.doc, Len(o.stack) - 1),
         NEW p \in DOMAIN r.doc, Path(p), Len(p) = Len(o.stack), r.stack = Append(o.stack, p),
         NEW op \in Pushers
  PROVE  Follows(o, r, op)
<1>1. \A i \in 1..Len(o.stack) : o.stack[i] \in DOMAIN r.doc
  <2> TAKE i \in 1..Len(o.stack)
  <2>1. /\ o.stack[i] \in DOMAIN o.doc /\ Path(o.stack[i]) /\ Len(o.stack[i]) = i - 1
        /\ Len(o.stack) \in Nat
    BY DEF IsDecoder
  <2>2. Len(o.stack[i]) <= Len(o.stack) - 1
    BY <2>1
  <2> QED
    BY <2>1, <2>2 DEF Keeps
<1>2. PICK s \in Seq(DOMAIN r.doc) : s = o.stack
  BY <1>1, SeqInto DEF IsDecoder
<1>3. /\ Append(s, p) \in Seq(DOMAIN r.doc) /\ Len(Append(s, p)) = Len(s) + 1 /\ Len(s) \in Nat
      /\ \A i \in 1..Len(s) : Append(s, p)[i] = s[i]
      /\ Append(s, p)[Len(s) + 1] = p
  <2>1. PICK D : D = DOMAIN r.doc
    OBVIOUS
  <2>2. s \in Seq(D) /\ p \in D
    BY <1>2, <2>1
  <2> QED
    BY <2>1, <2>2, AppendProperties
<1>4. \A i \in 1..(Len(s) + 1) : Path(Append(s, p)[i]) /\ Len(Append(s, p)[i]) = i - 1
  <2>1. \A i \in 1..Len(s) : Path(s[i]) /\ Len(s[i]) = i - 1
    BY <1>2 DEF IsDecoder
  <2>2. \A i \in 1..(Len(s) + 1) : i \in 1..Len(s) \/ i = Len(s) + 1
    BY <1>3
  <2>3. Len(p) = (Len(s) + 1) - 1
    BY <1>2, <1>3
  <2> QED
    BY <1>3, <2>1, <2>2, <2>3
<1> QED
  BY <1>2, <1>3, <1>4 DEF IsDecoder, Follows, StackAfter

LEMMA StackPopped ==
  ASSUME NEW o, IsDecoder(o), NEW op \in Leaves, popStack(o).obj.err = "Ok"
  PROVE  Follows(o, popStack(o).obj, op)
<1>1. o.stack # <<>>
  BY DEF popStack, Fails, IsDecoder, IsRecord
<1>2. PICK r : r = [o EXCEPT !.stack = Pop(o.stack)]
  OBVIOUS
<1>3. popStack(o).obj = r
  BY <1>1, <1>2 DEF popStack, Does, Front, Pop
<1>4. IsRecord(r) /\ r.doc = o.doc /\ r.stack = Pop(o.stack)
  BY <1>2 DEF IsRecord, IsDecoder
<1>5. PICK s \in Seq(DOMAIN o.doc) : s = o.stack
  BY DEF IsDecoder
<1>6. /\ Pop(s) \in Seq(DOMAIN o.doc) /\ Len(Pop(s)) = Len(s) - 1 /\ Len(s) \in Nat \ {0}
      /\ \A i \in 1..(Len(s) - 1) : Pop(s)[i] = s[i]
  BY <1>1, <1>5, PopType
<1>7. \A i \in 1..(Len(s) - 1) : Path(Pop(s)[i]) /\ Len(Pop(s)[i]) = i - 1
  <2>1. \A i \in 1..Len(s) : Path(s[i]) /\ Len(s[i]) = i - 1
    BY <1>5 DEF IsDecoder
  <2>2. \A i \in 1..(Len(s) - 1) : i \in 1..Len(s)
    BY <1>6
  <2> QED
    BY <1>6, <2>1, <2>2
<1>8. op \notin Pushers
  BY DEF Pushers, Leaves
<1>9. IsDecoder(r)
  BY <1>4, <1>5, <1>6, <1>7 DEF IsDecoder
<1>10. Keeps(o.doc, r.doc, Len(o.stack) - 1)
  BY <1>4 DEF Keeps
<1> QED
  BY <1>3, <1>4, <1>5, <1>6, <1>8, <1>9, <1>10 DEF Follows, StackAfter

(* A node is set at the top, or below it.                                  *)
LEMMA SetsFollow ==
  ASSUME NEW o, IsDecoder(o), o.stack # <<>>, NEW p, Path(p), Len(p) >= Len(o.stack) - 1,
         NEW node, NEW op, op \notin Pushers \cup Leaves
  PROVE  Follows(o, Sets(o, p, node).obj, op)
<1>1. PICK r : r = [o EXCEPT !.doc = Put(o.doc, p, node)]
  OBVIOUS
<1>2. Sets(o, p, node).obj = r
  BY <1>1 DEF Sets, Does
<1>3. IsRecord(r) /\ r.doc = Put(o.doc, p, node) /\ r.stack = o.stack
  BY <1>1 DEF IsRecord, IsDecoder
<1>4. Keeps(o.doc, r.doc, Len(o.stack) - 1)
  <2>1. Len(o.stack) - 1 \in Nat
    BY DecoderTop
  <2>2. Len(p) \in Nat
    BY DEF Path
  <2> QED
    BY <1>3, <2>1, <2>2, PutKeeps, KeepsLess
<1> QED
  BY <1>2, <1>3, <1>4, StackKept

(* A node is set below the top, and a pointer to it is pushed.             *)
LEMMA GrowsFollow ==
  ASSUME NEW o, IsDecoder(o), o.stack # <<>>, NEW key, NEW node, NEW op \in Pushers
  PROVE  Follows(o, Grows(o, Child(Last(o.stack), key), node).obj, op)
<1>1. PICK p : p = Child(Last(o.stack), key)
  OBVIOUS
<1>2. Path(p) /\ Len(p) = Len(o.stack) /\ Len(o.stack) \in Nat \ {0}
  BY <1>1, DecoderTop, PathAppend DEF Child
<1>3. PICK r : r = [doc |-> Put(o.doc, p, node), stack |-> Append(o.stack, p),
                    inString |-> o.inString, err |-> o.err]
  OBVIOUS
<1>4. Grows(o, p, node).obj = r
  BY <1>3 DEF Grows, Push, Does, IsDecoder, IsRecord
<1>5. IsRecord(r) /\ r.doc = Put(o.doc, p, node) /\ r.stack = Append(o.stack, p)
  BY <1>3 DEF IsRecord
<1>6. p \in DOMAIN r.doc /\ Keeps(o.doc, r.doc, Len(o.stack) - 1)
  <2>1. Len(o.stack) - 1 \in Nat /\ Len(o.stack) - 1 <= Len(p)
    BY <1>2
  <2> QED
    BY <1>2, <1>5, <2>1, PutKeeps, KeepsLess
<1> QED
  BY <1>1, <1>2, <1>4, <1>5, <1>6, StackPushed

LEMMA DecoderFails ==
  ASSUME NEW o, IsDecoder(o), NEW e, NEW r, r = o \/ r = [o EXCEPT !.inString = FALSE]
  PROVE  Fails(r, e).obj.err = e
<1>1. IsRecord(r)
  BY DEF IsDecoder, IsRecord
<1> QED
  BY <1>1 DEF IsRecord, Fails

(* More nodes, and none less. *)
LEMMA MoreFollow ==
  ASSUME NEW o, IsDecoder(o), o.stack # <<>>, NEW r, IsRecord(r), r.stack = o.stack,
         NEW e, NEW d, r.doc = Over(e, d), Keeps(o.doc, d, Len(o.stack) - 1),
         NEW op, op \notin Pushers \cup Leaves
  PROVE  Follows(o, r, op)
<1>1. DOMAIN r.doc = DOMAIN e \cup DOMAIN d
  BY DEF Over
<1>2. Keeps(o.doc, r.doc, Len(o.stack) - 1)
  BY <1>1 DEF Keeps
<1> QED
  BY <1>2, StackKept

LEMMA PresentFollows ==
  ASSUME NEW o, IsDecoder(o), o.stack # <<>>, NEW present, NEW op, op \notin Pushers \cup Leaves
  PROVE  Follows(o, optSetPresent(o, Last(o.stack), present).obj, op)
<1> DEFINE top == Last(o.stack)
           value == Child(top, "value")
<1>1. /\ Path(top) /\ Len(top) = Len(o.stack) - 1 /\ Len(o.stack) \in Nat \ {0}
      /\ Path(value) /\ Len(value) = Len(top) + 1
  BY DecoderTop, PathAppend DEF Child
<1>2. CASE present
  <2>1. PICK d : d = Put(o.doc, top, Object)
    OBVIOUS
  <2>2. PICK r : r = [o EXCEPT !.doc = Put(d, value, Null)]
    OBVIOUS
  <2>3. optSetPresent(o, top, present).obj = r
    BY <1>2, <2>1, <2>2 DEF optSetPresent, Does, IsDecoder, IsRecord
  <2>4. IsRecord(r) /\ r.doc = Put(d, value, Null) /\ r.stack = o.stack
    BY <2>2 DEF IsRecord, IsDecoder
  <2> HIDE DEF top, value
  <2>5. Len(top) \in Nat /\ Len(value) \in Nat /\ Len(top) <= Len(value)
    BY <1>1
  <2>6. Keeps(o.doc, d, Len(top)) /\ Keeps(d, Put(d, value, Null), Len(top))
    BY <1>1, <2>1, <2>5, PutKeeps, KeepsLess
  <2>7. Keeps(o.doc, r.doc, Len(o.stack) - 1)
    BY <1>1, <2>4, <2>6, KeepsOn
  <2> QED
    BY <2>3, <2>4, <2>7, StackKept DEF top
<1>3. CASE ~ present
  <2>1. optSetPresent(o, top, present) = Sets(o, top, Null)
    BY <1>3 DEF optSetPresent
  <2> QED
    BY <1>1, <2>1, SetsFollow
<1> QED
  BY <1>2, <1>3

LEMMA PreparedFollows ==
  ASSUME NEW o, IsDecoder(o), o.stack # <<>>, NEW len, NEW op, op \notin Pushers \cup Leaves,
         arrayPrepare(o, Last(o.stack), len).obj.err = "Ok"
  PROVE  /\ Follows(o, arrayPrepare(o, Last(o.stack), len).obj, op)
         /\ \A i \in 0..(len - 1) :
              Element(Last(o.stack), i) \in DOMAIN arrayPrepare(o, Last(o.stack), len).obj.doc
<1> DEFINE top == Last(o.stack)
<1>1. Path(top) /\ Len(top) = Len(o.stack) - 1
  BY DecoderTop
<1>2. PICK d : d = Put(o.doc, top, List)
  OBVIOUS
<1>3. PICK e : e = [p \in {Element(top, i) : i \in 0..(len - 1)} |-> Null]
  OBVIOUS
<1>4. PICK r : r = [o EXCEPT !.doc = Over(e, d)]
  OBVIOUS
<1>5. arrayPrepare(o, top, len).obj = r
  <2>1. Fails(o, "BadData").obj.err # "Ok"
    BY DecoderFails
  <2>2. o.doc[top].kind = "array"
    BY <2>1 DEF arrayPrepare
  <2> QED
    BY <2>2, <1>2, <1>3, <1>4 DEF arrayPrepare, Does, IsDecoder, IsRecord
<1>6. IsRecord(r) /\ r.doc = Over(e, d) /\ r.stack = o.stack
  BY <1>4 DEF IsRecord, IsDecoder
<1>7. Keeps(o.doc, d, Len(o.stack) - 1)
  BY <1>1, <1>2, PutKeeps
<1>8. \A i \in 0..(len - 1) : Element(top, i) \in DOMAIN r.doc
  BY <1>3, <1>6 DEF Over
<1> QED
  BY <1>5, <1>6, <1>7, <1>8, MoreFollow

LEMMA ExitFollows ==
  ASSUME NEW o, IsDecoder(o), o.stack # <<>>, NEW op, op \notin Pushers \cup Leaves,
         arrayExit(o, Last(o.stack)).obj.err = "Ok"
  PROVE  Follows(o, arrayExit(o, Last(o.stack)).obj, op)
<1>1. PICK closed : closed = [o EXCEPT !.inString = FALSE]
  OBVIOUS
<1>2. IsRecord(closed) /\ closed.doc = o.doc /\ closed.stack = o.stack
  BY <1>1 DEF IsRecord, IsDecoder
<1>3. Fails(closed, "BadData").obj.err # "Ok"
  BY <1>1, DecoderFails
<1>4. Keeps(o.doc, o.doc, Len(o.stack) - 1)
  BY DEF Keeps
<1>5. \/ arrayExit(o, Last(o.stack)).obj = closed
      \/ \E e : arrayExit(o, Last(o.stack)).obj = [closed EXCEPT !.doc = Over(e, o.doc)]
  BY <1>1, <1>2, <1>3 DEF arrayExit, Does
<1>6. CASE arrayExit(o, Last(o.stack)).obj = closed
  BY <1>2, <1>4, <1>6, StackKept
<1>7. ASSUME NEW e, arrayExit(o, Last(o.stack)).obj = [closed EXCEPT !.doc = Over(e, o.doc)]
      PROVE  Follows(o, arrayExit(o, Last(o.stack)).obj, op)
  <2>1. PICK r : r = [closed EXCEPT !.doc = Over(e, o.doc)]
    OBVIOUS
  <2>2. IsRecord(r) /\ r.doc = Over(e, o.doc) /\ r.stack = o.stack
    BY <1>2, <2>1 DEF IsRecord
  <2> QED
    BY <1>4, <1>7, <2>1, <2>2, MoreFollow
<1> QED
  BY <1>5, <1>6, <1>7

LEMMA RecordPush ==
  ASSUME NEW o, IsRecord(o), NEW p
  PROVE  /\ IsRecord(Push(o, p).obj)
         /\ Push(o, p).obj.doc = o.doc /\ Push(o, p).obj.stack = Append(o.stack, p)
<1>1. PICK s : s = Append(o.stack, p)
  OBVIOUS
<1>2. Push(o, p).obj = [o EXCEPT !.stack = s]
  BY <1>1 DEF Push, Does
<1> QED
  BY <1>1, <1>2 DEF IsRecord

LEMMA RecordSets ==
  ASSUME NEW o, IsRecord(o), NEW b, NEW c, c = [o EXCEPT !.inString = b], NEW p, NEW node
  PROVE  /\ IsRecord(Sets(c, p, node).obj)
         /\ Sets(c, p, node).obj.doc = Put(o.doc, p, node)
         /\ Sets(c, p, node).obj.stack = o.stack
<1>1. IsRecord(c) /\ c.doc = o.doc /\ c.stack = o.stack
  BY DEF IsRecord
<1>2. PICK d : d = Put(o.doc, p, node)
  OBVIOUS
<1>3. Sets(c, p, node).obj = [c EXCEPT !.doc = d]
  BY <1>1, <1>2 DEF Sets, Does
<1> QED
  BY <1>1, <1>2, <1>3 DEF IsRecord

(* No call moves what the decoder's pointers point to.                     *)
LEMMA DecodeMoves ==
  ASSUME NEW schema, NEW o, IsDecoder(o), o.stack # <<>>, NEW ins, NEW view, NEW garbage,
         ins.op = "ARRAY_ELEM_BEGIN" => Element(Last(o.stack), view.idx) \in DOMAIN o.doc,
         NEW told, told = DecodeCall(schema, o, ins, view, garbage, U64), told.obj.err = "Ok"
  PROVE  Follows(o, told.obj, ins.op)
<1> DEFINE top == Last(o.stack)
<1>1. /\ top \in DOMAIN o.doc /\ Path(top) /\ Len(top) = Len(o.stack) - 1
      /\ Len(o.stack) \in Nat \ {0}
  BY DecoderTop
<1>2. \A e : Fails(o, e).obj.err = e
  BY DecoderFails
<1>3. \A p, node : Path(p) /\ Len(p) >= Len(o.stack) - 1 /\ ins.op \notin Pushers \cup Leaves =>
        Follows(o, Sets(o, p, node).obj, ins.op)
  BY SetsFollow
<1>4. Len(top) >= Len(o.stack) - 1
  BY <1>1
<1>r. IsRecord(o)
  BY DEF IsDecoder
<1> HIDE DEF top
<1>5. CASE ins.op \in {"MSG_BEGIN", "ONEOF_BEGIN"}
  <2>1. told = Sets(o, top, Object)
    BY <1>5 DEF DecodeCall, Leaves, top
  <2> QED
    BY <1>1, <1>3, <1>4, <1>5, <2>1 DEF Pushers, Leaves
<1>6. CASE ins.op = "FIELD_BEGIN"
  <2>1. told = Grows(o, Child(top, schema.fields[ins.imm + 1].name), Null)
    BY <1>2, <1>6 DEF DecodeCall, Leaves, top
  <2>2. ins.op \in Pushers
    BY <1>6 DEF Pushers
  <2> QED
    BY <2>1, <2>2, GrowsFollow DEF top
<1>7. CASE ins.op = "O_WRITE_OPT_PRESENT"
  <2>1. PICK present : told = optSetPresent(o, top, present)
    BY <1>7 DEF DecodeCall, Leaves, top
  <2>2. ins.op \notin Pushers \cup Leaves
    BY <1>7 DEF Pushers, Leaves
  <2> QED
    BY <2>1, <2>2, PresentFollows DEF top
<1>8. CASE ins.op = "OPT_BEGIN_VALUE"
  <2>1. told = Push(o, Child(top, "value")) /\ Child(top, "value") \in DOMAIN o.doc
    BY <1>2, <1>8 DEF DecodeCall, Leaves, Has, top
  <2>2. PICK p : p = Child(top, "value")
    OBVIOUS
  <2>3. Path(p) /\ Len(p) = Len(o.stack)
    BY <1>1, <2>2, PathAppend DEF Child
  <2>4. IsRecord(told.obj) /\ told.obj.doc = o.doc /\ told.obj.stack = Append(o.stack, p)
    BY <1>r, <2>1, <2>2, RecordPush
  <2>5. ins.op \in Pushers /\ Keeps(o.doc, told.obj.doc, Len(o.stack) - 1)
    BY <1>8, <2>4 DEF Pushers, Keeps
  <2> QED
    BY <2>1, <2>2, <2>3, <2>4, <2>5, StackPushed
<1>9. CASE ins.op = "ARRAY_BEGIN"
  <2>1. PICK c : /\ c = [o EXCEPT !.inString = IsString(schema, ins.imm + 1)]
                 /\ told = Sets(c, top, List)
    BY <1>9 DEF DecodeCall, Leaves, top
  <2>2. PICK r : r = told.obj
    OBVIOUS
  <2>3. IsRecord(r) /\ r.doc = Put(o.doc, top, List) /\ r.stack = o.stack
    BY <1>r, <2>1, <2>2, RecordSets
  <2>4. ins.op \notin Pushers \cup Leaves
    BY <1>9 DEF Pushers, Leaves
  <2>5. Keeps(o.doc, r.doc, Len(o.stack) - 1)
    BY <1>1, <2>3, PutKeeps
  <2> QED
    BY <2>2, <2>3, <2>4, <2>5, StackKept
<1>10. CASE ins.op = "O_WRITE_ARRAY_LEN"
  <2>1. told = arrayPrepare(o, top, view.reg)
    BY <1>10 DEF DecodeCall, Leaves, top
  <2>2. ins.op \notin Pushers \cup Leaves
    BY <1>10 DEF Pushers, Leaves
  <2> QED
    BY <2>1, <2>2, PreparedFollows DEF top
<1>11. CASE ins.op = "ARRAY_ELEM_BEGIN"
  <2>1. PICK p : p = Element(top, view.idx)
    OBVIOUS
  <2>2. told = Push(o, p) /\ p \in DOMAIN o.doc
    BY <1>11, <2>1 DEF DecodeCall, Leaves, top
  <2>3. Path(p) /\ Len(p) = Len(o.stack)
    BY <1>1, <2>1, PathAppend DEF Element
  <2>4. IsRecord(told.obj) /\ told.obj.doc = o.doc /\ told.obj.stack = Append(o.stack, p)
    BY <1>r, <2>2, RecordPush
  <2>5. ins.op \in Pushers /\ Keeps(o.doc, told.obj.doc, Len(o.stack) - 1)
    BY <1>11, <2>4 DEF Pushers, Keeps
  <2> QED
    BY <2>2, <2>3, <2>4, <2>5, StackPushed
<1>12. CASE ins.op = "ARRAY_END"
  <2>1. told = arrayExit(o, top)
    BY <1>12 DEF DecodeCall, Leaves, top
  <2>2. ins.op \notin Pushers \cup Leaves
    BY <1>12 DEF Pushers, Leaves
  <2> QED
    BY <2>1, <2>2, ExitFollows DEF top
<1>13. CASE ins.op = "O_WRITE_ONEOF_ARM"
  <2>1. PICK node : told = Sets(o, Child(top, "case"), node)
    BY <1>13 DEF DecodeCall, Leaves, setOneofIndex, top
  <2>2. Path(Child(top, "case")) /\ Len(Child(top, "case")) >= Len(o.stack) - 1
    BY <1>1, PathAppend DEF Child
  <2> QED
    BY <1>3, <1>13, <2>1, <2>2 DEF Pushers, Leaves
<1>14. CASE ins.op = "ONEOF_ARM_BEGIN"
  <2>1. told = Grows(o, Child(top, "value"), Null)
    BY <1>14 DEF DecodeCall, Leaves, top
  <2>2. ins.op \in Pushers
    BY <1>14 DEF Pushers
  <2> QED
    BY <2>1, <2>2, GrowsFollow DEF top
<1>15. CASE ins.op = "O_WRITE_SCALAR"
  <2>1. PICK node : told = Sets(o, top, node)
    BY <1>15 DEF DecodeCall, Leaves, writeScalar, top
  <2> QED
    BY <1>1, <1>3, <1>4, <1>15, <2>1 DEF Pushers, Leaves
<1>16. CASE ins.op \in Leaves
  <2>1. told = popStack(o)
    BY <1>16 DEF DecodeCall, Leaves
  <2> QED
    BY <1>16, <2>1, StackPopped
<1>17. CASE ins.op \notin {"MSG_BEGIN", "ONEOF_BEGIN", "FIELD_BEGIN", "O_WRITE_OPT_PRESENT",
                           "OPT_BEGIN_VALUE", "ARRAY_BEGIN", "O_WRITE_ARRAY_LEN",
                           "ARRAY_ELEM_BEGIN", "ARRAY_END", "O_WRITE_ONEOF_ARM",
                           "ONEOF_ARM_BEGIN", "O_WRITE_SCALAR"} \cup Leaves
  <2>1. told.obj = o
    BY <1>17 DEF DecodeCall, Does
  <2>2. ins.op \notin Pushers \cup Leaves
    BY <1>17 DEF Pushers
  <2>3. IsRecord(o) /\ Keeps(o.doc, o.doc, Len(o.stack) - 1)
    BY DEF IsDecoder, Keeps
  <2> QED
    BY <2>1, <2>2, <2>3, StackKept
<1> QED
  BY <1>5, <1>6, <1>7, <1>8, <1>9, <1>10, <1>11, <1>12, <1>13, <1>14, <1>15, <1>16, <1>17

(* Between the elements of an array the document stays as it is, once the  *)
(* elements are made.                                                      *)
LEMMA ArrayStays ==
  ASSUME NEW schema, NEW o, IsDecoder(o), NEW ins, NEW view, NEW garbage,
         ins.op \in InArray \ {"O_WRITE_ARRAY_LEN", "ARRAY_END"}
  PROVE  DecodeCall(schema, o, ins, view, garbage, U64).obj.doc = o.doc
<1>1. CASE ins.op = "ARRAY_ELEM_BEGIN"
  <2>1. DecodeCall(schema, o, ins, view, garbage, U64) = Push(o, Element(Last(o.stack), view.idx))
    BY <1>1 DEF DecodeCall, Leaves
  <2> QED
    BY <2>1 DEF Push, Does, IsDecoder, IsRecord
<1>2. CASE ins.op # "ARRAY_ELEM_BEGIN"
  BY <1>2 DEF DecodeCall, Leaves, InArray, Does
<1> QED
  BY <1>1, <1>2

LEMMA ElementsMade ==
  ASSUME NEW schema, NEW o, IsDecoder(o), o.stack # <<>>, NEW ins, NEW view, NEW garbage,
         ins.op = "O_WRITE_ARRAY_LEN",
         NEW told, told = DecodeCall(schema, o, ins, view, garbage, U64), told.obj.err = "Ok"
  PROVE  \A i \in 0..(view.reg - 1) : Element(Last(o.stack), i) \in DOMAIN told.obj.doc
<1>1. told = arrayPrepare(o, Last(o.stack), view.reg)
  BY DEF DecodeCall, Leaves
<1>2. ins.op \notin Pushers \cup Leaves
  BY DEF Pushers, Leaves
<1> QED
  BY <1>1, <1>2, PreparedFollows

-----------------------------------------------------------------------------
(* What is open, before a step and after it.                               *)
LEMMA OpenMoves ==
  ASSUME IInv, NEW answer, NEW status, Step(answer, status), running'
  PROVE  /\ open \in Seq(Ends) /\ Len(open) \in Nat
         /\ instr.op \in Begins =>
              /\ Len(open') = Len(open) + 1 /\ open'[Len(open')] = Ending[instr.op]
              /\ \A i \in 1..Len(open) : open'[i] = open[i]
         /\ instr.op \in Ends =>
              /\ Len(open') = Len(open) - 1 /\ Len(open) # 0 /\ open[Len(open)] = instr.op
              /\ \A i \in 1..Len(open') : open'[i] = open[i]
         /\ instr.op \notin Begins \cup Ends => open' = open
<1>1. /\ Fetches
      /\ instr.op \in Begins => open' = Append(open, Ending[instr.op])
      /\ instr.op \in Ends => open' = Pop(open)
      /\ instr.op \notin Begins \cup Ends => open' = open
  BY StepTold
<1>2. open \in Seq(Ends) /\ Len(open) \in Nat
  BY <1>1, Fetched DEF TypeOK
<1>3. ASSUME instr.op \in Begins
      PROVE  /\ Len(open') = Len(open) + 1 /\ open'[Len(open')] = Ending[instr.op]
             /\ \A i \in 1..Len(open) : open'[i] = open[i]
  <2>1. Ending[instr.op] \in Ends /\ open' = Append(open, Ending[instr.op])
    BY <1>1, <1>3 DEF Ends
  <2> QED
    BY <1>2, <2>1, AppendProperties
<1>4. ASSUME instr.op \in Ends
      PROVE  /\ Len(open') = Len(open) - 1 /\ Len(open) # 0 /\ open[Len(open)] = instr.op
             /\ \A i \in 1..Len(open') : open'[i] = open[i]
  <2>1. open # <<>> /\ Top(open) = instr.op
    BY <1>1, <1>4, EndsFound DEF EndsInOrder, At
  <2>2. open' = Pop(open)
    BY <1>1, <1>4
  <2>3. Len(Pop(open)) = Len(open) - 1 /\ \A i \in 1..(Len(open) - 1) : Pop(open)[i] = open[i]
    BY <1>2, <2>1, PopType
  <2> QED
    BY <1>2, <2>1, <2>2, <2>3 DEF Top
<1> QED
  BY <1>1, <1>2, <1>3, <1>4

(* The pointers that should be there, before a step and after it.          *)
Pointers == 1 + Upto(open, Len(open), Leaves)

LEMMA PointersMove ==
  ASSUME IInv, NEW answer, NEW status, Step(answer, status), running'
  PROVE  Pointers' = StackAfter(instr.op, Pointers)
<1> DEFINE n == Len(open)
<1>1. Pointers = 1 + Upto(open, n, Leaves) /\ Pointers' = 1 + Upto(open', Len(open'), Leaves)
  BY DEF Pointers, Upto
<1>2. n \in Nat
  BY OpenMoves
<1>3. Upto(open, n, Leaves) \in Nat
  BY <1>2, UptoNext
<1> HIDE DEF n
<1>4. CASE instr.op \in Begins
  <2>1. /\ Len(open') = n + 1 /\ open'[n + 1] = Ending[instr.op]
        /\ \A i \in 1..n : open'[i] = open[i]
    BY <1>4, OpenMoves DEF n
  <2>2. Upto(open', n, Leaves) = Upto(open, n, Leaves)
    BY <1>2, <2>1, UptoSame
  <2>3. Upto(open', n + 1, Leaves)
          = Upto(open', n, Leaves) + (IF open'[n + 1] \in Leaves THEN 1 ELSE 0)
    BY <1>2, UptoNext
  <2>4. (open'[n + 1] \in Leaves <=> instr.op \in Pushers) /\ instr.op \notin Leaves
    BY <1>4, <2>1, PushersEnd
  <2> QED
    BY <1>1, <1>3, <2>1, <2>2, <2>3, <2>4 DEF StackAfter
<1>5. CASE instr.op \in Ends
  <2>1. /\ Len(open') = n - 1 /\ n # 0 /\ open[n] = instr.op
        /\ \A i \in 1..Len(open') : open'[i] = open[i]
    BY <1>5, OpenMoves DEF n
  <2>2. PICK m \in Nat : n = m + 1 /\ Len(open') = m
    <3>1. n - 1 \in Nat /\ n = (n - 1) + 1
      BY <1>2, <2>1
    <3> QED
      BY <2>1, <3>1
  <2>3. Upto(open', m, Leaves) = Upto(open, m, Leaves) /\ Upto(open, m, Leaves) \in Nat
    <3>1. \A j \in 1..m : open'[j] = open[j]
      BY <2>1, <2>2
    <3>2. Upto(open', m, Leaves) = Upto(open, m, Leaves)
      BY <3>1, UptoSame
    <3> QED
      BY <3>2, UptoNext
  <2>4. Upto(open, m + 1, Leaves)
          = Upto(open, m, Leaves) + (IF open[m + 1] \in Leaves THEN 1 ELSE 0)
    BY <2>2, UptoNext
  <2>5. open[m + 1] = instr.op /\ instr.op \notin Pushers
    BY <1>5, <2>1, <2>2, PushersEnd
  <2> QED
    BY <1>1, <2>2, <2>3, <2>4, <2>5 DEF StackAfter
<1>6. CASE instr.op \notin Begins \cup Ends
  <2>1. open' = open /\ instr.op \notin Pushers \cup Leaves
    BY <1>6, OpenMoves, PushersEnd
  <2>2. Upto(open', Len(open'), Leaves) = Upto(open, n, Leaves)
    BY <2>1 DEF n
  <2> QED
    BY <1>1, <2>1, <2>2 DEF StackAfter
<1> QED
  BY <1>4, <1>5, <1>6

(* The number of arrays that are open.                                     *)
LEMMA ArraysCounted ==
  ASSUME IInv
  PROVE  /\ Len(arrayStack) = leftover.arrays + Upto(open, Len(open), {"ARRAY_END"})
         /\ leftover.arrays \in Nat /\ Len(open) \in Nat /\ open \in Seq(Ends)
<1>1. FramesMatch /\ TypeOK
  BY DEF IInv
<1>2. OpenOf("ARRAY_END") = {j \in 1..Len(open) : open[j] \in {"ARRAY_END"}}
  BY <1>1 DEF OpenOf, TypeOK
<1> QED
  <2>1. Cardinality(OpenOf("ARRAY_END")) = Upto(open, Len(open), {"ARRAY_END"})
    BY <1>2 DEF Upto
  <2>2. leftover.arrays \in Nat /\ Len(open) \in Nat /\ open \in Seq(Ends)
    BY <1>1 DEF TypeOK
  <2> QED
    BY <1>1, <2>1, <2>2 DEF FramesMatch

-----------------------------------------------------------------------------
(* Above an array that is open an element is open, or nothing.             *)
ArraysNest ==
  \A i \in 1..Len(open) :
    open[i] = "ARRAY_END" =>
      IF i < Len(open) THEN open[i + 1] = "ARRAY_ELEM_END" ELSE Within(prog, pc, "ARRAY_END")

(* The pointer to the array that is open in the i-th place, and the length *)
(* that the machine takes it to have.                                      *)
Pointer(i)  == object.stack[1 + Upto(open, i, Leaves)]
LengthAt(i) == arrayStack[leftover.arrays + Upto(open, i, {"ARRAY_END"})].len

(* From the time that its length was written, an array has its elements.   *)
Sized(i) ==
  /\ open[i] = "ARRAY_END"
  /\ i < Len(open) \/ Op(prog, pc) \notin {"C_READ_ARRAY_LEN", "O_WRITE_ARRAY_LEN"}
ElementsThere ==
  \A i \in 1..Len(open) :
    Sized(i) => \A j \in 0..(LengthAt(i) - 1) : Element(Pointer(i), j) \in DOMAIN object.doc

LEMMA InsideArray ==
  ASSUME IInv, ArraysDecode(prog), ArraysNest, Fetches,
         Len(open) # 0, open[Len(open)] = "ARRAY_END"
  PROVE  /\ Within(prog, pc, "ARRAY_END") /\ pc \in Places(prog) \ Main
         /\ instr.op = Op(prog, pc) /\ instr.op \in InArray
         /\ InPlace(prog, pc) /\ LeadsOn(prog, pc)
<1>1. /\ open \in Seq(Ends) /\ pc \in Places(prog) /\ instr.op = Op(prog, pc)
      /\ MainNested(prog) /\ (pc \notin Main => InPlace(prog, pc) /\ LeadsOn(prog, pc))
  BY Fetched DEF TypeOK, InStep
<1>2. Within(prog, pc, "ARRAY_END")
  <2>1. Len(open) \in 1..Len(open)
    BY <1>1
  <2> QED
    BY <2>1 DEF ArraysNest
<1>3. pc \notin Main
  BY <1>1, <1>2 DEF MainNested, Within
<1> QED
  BY <1>1, <1>2, <1>3 DEF ArraysDecode

LEMMA NestKept ==
  ASSUME IInv, ArraysDecode(prog), ArraysNest,
         NEW answer, NEW status, Step(answer, status), running'
  PROVE  ArraysNest'
<1> DEFINE n == Len(open)
<1>1. /\ Fetches /\ prog' = prog /\ instr.op = Op(prog, pc) /\ n \in Nat
      /\ pc \notin Main => LeadsOn(prog, pc) /\ Around(prog, pc) \in Seq(Ends)
      /\ pc \in Places(prog)
  BY StepTold, OpenMoves, Fetched DEF InPlace, InStep
<1>2. instr.op \in InArray \cup Begins \cup Ends => pc \notin Main /\ pc' \in Successors(prog, pc)
  BY StepOn
<1>3. \A p, q, e : Within(p, q, e) <=> Around(p, q) # <<>> /\ Top(Around(p, q)) = e
  BY DEF Within
<1>4. ASSUME NEW i \in 1..Len(open'), open'[i] = "ARRAY_END", i < Len(open')
      PROVE  open'[i + 1] = "ARRAY_ELEM_END"
  <2>1. CASE i < n
    <3>1. open[i] = "ARRAY_END" /\ open'[i + 1] = open[i + 1] /\ i \in 1..n
      <4>1. CASE instr.op \in Begins
        <5>1. i \in 1..n /\ i + 1 \in 1..n
          BY <1>1, <2>1
        <5>2. \A k \in 1..n : open'[k] = open[k]
          BY <4>1, OpenMoves
        <5> QED
          BY <1>4, <5>1, <5>2
      <4>2. CASE instr.op \in Ends
        <5>1. Len(open') = n - 1 /\ \A k \in 1..(n - 1) : open'[k] = open[k]
          BY <4>2, OpenMoves
        <5>2. i \in 1..n /\ i \in 1..(n - 1) /\ i + 1 \in 1..(n - 1)
          BY <1>1, <1>4, <5>1
        <5> QED
          BY <1>4, <5>1, <5>2
      <4>3. CASE instr.op \notin Begins \cup Ends
        <5>1. open' = open
          BY <4>3, OpenMoves
        <5> QED
          BY <1>1, <1>4, <2>1, <5>1
      <4> QED
        BY <4>1, <4>2, <4>3
    <3> QED
      BY <2>1, <3>1 DEF ArraysNest
  <2>2. CASE ~ (i < n)
    <3>1. instr.op \in Begins /\ Len(open') = n + 1 /\ i = n
      <4>1. CASE instr.op \in Begins
        <5>1. Len(open') = n + 1
          BY <4>1, OpenMoves
        <5> QED
          BY <1>1, <1>4, <2>2, <4>1, <5>1
      <4>2. CASE instr.op \in Ends
        <5>1. Len(open') = n - 1
          BY <4>2, OpenMoves
        <5> QED
          BY <1>1, <1>4, <2>2, <5>1
      <4>3. CASE instr.op \notin Begins \cup Ends
        <5>1. open' = open
          BY <4>3, OpenMoves
        <5> QED
          BY <1>1, <1>4, <2>2, <5>1
      <4> QED
        BY <4>1, <4>2, <4>3
    <3>2. open[n] = "ARRAY_END" /\ n # 0 /\ open'[n + 1] = Ending[instr.op]
      BY <1>1, <1>4, <3>1, OpenMoves
    <3>3. instr.op \in InArray
      BY <1>1, <3>2, InsideArray
    <3>4. instr.op = "ARRAY_ELEM_BEGIN"
      BY <3>1, <3>3 DEF InArray, Begins, Ending
    <3> QED
      BY <3>1, <3>2, <3>4 DEF Ending
  <2> QED
    BY <2>1, <2>2
<1>5. ASSUME Len(open') # 0, open'[Len(open')] = "ARRAY_END"
      PROVE  Within(prog, pc', "ARRAY_END")
  <2>1. CASE instr.op \in Begins
    <3>1. Ending[instr.op] = "ARRAY_END"
      BY <1>5, <2>1, OpenMoves
    <3>2. Around(prog, pc') = Append(Around(prog, pc), "ARRAY_END") /\ Around(prog, pc) \in Seq(Ends)
      <4>1. Op(prog, pc) \in Begins /\ Op(prog, pc) \notin Ends /\ Ending[Op(prog, pc)] = "ARRAY_END"
        BY <1>1, <2>1, <3>1, PushersEnd
      <4>2. After(prog, pc) = Append(Around(prog, pc), "ARRAY_END")
        BY <4>1 DEF After
      <4> QED
        BY <1>1, <1>2, <2>1, <4>2 DEF LeadsOn
    <3>3. PICK a \in Seq(Ends) : a = Around(prog, pc)
      BY <3>2
    <3>4. Append(a, "ARRAY_END") # <<>> /\ Top(Append(a, "ARRAY_END")) = "ARRAY_END"
      BY DEF Top
    <3> QED
      BY <1>3, <3>2, <3>3, <3>4
  <2>2. CASE instr.op \in Ends
    <3>1. /\ Len(open') = n - 1 /\ n # 0 /\ open[n] = instr.op
          /\ \A k \in 1..Len(open') : open'[k] = open[k]
      BY <2>2, OpenMoves
    <3>2. n - 1 \in 1..n /\ n - 1 < n /\ n - 1 \in 1..Len(open') /\ (n - 1) + 1 = n
      BY <1>1, <1>5, <3>1
    <3>3. open[n - 1] = "ARRAY_END"
      BY <1>5, <3>1, <3>2
    <3>4. open[(n - 1) + 1] = "ARRAY_ELEM_END"
      BY <3>2, <3>3 DEF ArraysNest
    <3>5. Op(prog, pc) = "ARRAY_ELEM_END"
      BY <1>1, <3>1, <3>2, <3>4
    <3> QED
      BY <1>1, <1>2, <2>2, <3>5 DEF ArraysDecode
  <2>3. CASE instr.op \notin Begins \cup Ends
    <3>1. open' = open
      BY <2>3, OpenMoves
    <3>2. Within(prog, pc, "ARRAY_END") /\ instr.op \in InArray
      BY <1>1, <1>5, <3>1, InsideArray
    <3>3. Around(prog, pc') = Around(prog, pc)
      BY <1>1, <1>2, <2>3, <3>2 DEF LeadsOn, After
    <3> QED
      BY <1>3, <3>2, <3>3
  <2> QED
    BY <2>1, <2>2, <2>3
<1>6. Within(prog, pc, "ARRAY_END")' <=> Within(prog, pc', "ARRAY_END")
  BY <1>1 DEF Within, Around
<1>7. ASSUME NEW i \in 1..Len(open'), open'[i] = "ARRAY_END", ~ (i < Len(open'))
      PROVE  Within(prog, pc', "ARRAY_END")
  <2>1. Len(open') \in Nat
    BY <1>1, OpenMoves
  <2>2. i = Len(open') /\ Len(open') # 0
    BY <1>7, <2>1
  <2> QED
    BY <1>5, <1>7, <2>2
<1> QED
  BY <1>4, <1>6, <1>7 DEF ArraysNest

(* What stays open keeps its pointer, and its place among the arrays.      *)
LEMMA PlaceKept ==
  ASSUME IInv, IsDecoder(object), Len(object.stack) = Pointers,
         NEW answer \in Int, NEW status, Step(answer, status), running',
         Follows(object, object', instr.op),
         NEW i \in 1..Len(open), i \in 1..Len(open')
  PROVE  /\ \A j \in 1..i : open'[j] = open[j]
         /\ Pointer(i)' = Pointer(i) /\ Path(Pointer(i)) /\ Len(Pointer(i)) = Upto(open, i, Leaves)
         /\ LengthAt(i)' = arrayStack'[leftover.arrays + Upto(open, i, {"ARRAY_END"})].len
<1> DEFINE n == Len(open)
           a == Upto(open, i, Leaves)
<1>1. leftover' = leftover /\ n \in Nat /\ Len(open') \in Nat /\ i \in Nat
  BY StepTold, OpenMoves
<1>2. \A j \in 1..i : open'[j] = open[j]
  <2>1. \A j \in 1..i : j \in 1..n /\ j \in 1..Len(open')
    BY <1>1
  <2> QED
    BY <2>1, OpenMoves
<1>3. \A E : Upto(open', i, E) = Upto(open, i, E)
  BY <1>1, <1>2, UptoSame
<1>4. a \in Nat /\ a <= Upto(open, n, Leaves) /\ Upto(open, n, Leaves) \in Nat
  <2>1. i <= n
    BY <1>1
  <2>2. Upto(open, i, Leaves) \in Nat /\ Upto(open, n, Leaves) \in Nat
    BY <1>1, UptoNext
  <2>3. Upto(open, i, Leaves) <= Upto(open, n, Leaves)
    BY <1>1, <2>1, UptoGrows
  <2> QED
    BY <2>2, <2>3
<1>5. a <= Upto(open', Len(open'), Leaves) /\ Upto(open', Len(open'), Leaves) \in Nat
  <2>1. Upto(open', i, Leaves) <= Upto(open', Len(open'), Leaves)
    BY <1>1, UptoGrows
  <2> QED
    BY <1>1, <1>3, <2>1, UptoNext
<1>6. Len(object.stack) = 1 + Upto(open, n, Leaves)
  BY DEF Pointers
<1>7. Len(object'.stack) = 1 + Upto(open', Len(open'), Leaves)
  <2>1. Len(object'.stack) = Pointers'
    BY PointersMove DEF Follows
  <2> QED
    BY <2>1 DEF Pointers, Upto
<1>8. 1 + a \in 1..Len(object.stack) /\ 1 + a \in 1..Len(object'.stack)
  <2> HIDE DEF a
  <2> QED
    BY <1>4, <1>5, <1>6, <1>7
<1>9. Pointer(i)' = object'.stack[1 + a]
  <2>1. Pointer(i)' = object'.stack[1 + Upto(open', i, Leaves)]
    BY DEF Pointer, Upto
  <2> QED
    BY <1>3, <2>1
<1>10. Pointer(i) = object.stack[1 + a]
  BY DEF Pointer
<1>11. LengthAt(i)' = arrayStack'[leftover.arrays + Upto(open, i, {"ARRAY_END"})].len
  <2>1. LengthAt(i)' = arrayStack'[leftover'.arrays + Upto(open', i, {"ARRAY_END"})].len
    BY DEF LengthAt, Upto
  <2> QED
    BY <1>1, <1>3, <2>1
<1> HIDE DEF a
<1>12. Path(Pointer(i)) /\ Len(Pointer(i)) = a
  <2>1. Path(object.stack[1 + a]) /\ Len(object.stack[1 + a]) = (1 + a) - 1
    BY <1>8 DEF IsDecoder
  <2> QED
    BY <1>4, <1>10, <2>1
<1>13. Pointer(i)' = Pointer(i)
  BY <1>8, <1>9, <1>10 DEF Follows
<1> QED
  BY <1>2, <1>11, <1>12, <1>13 DEF a

(* The place of an array: the last one open is the machine's innermost.    *)
LEMMA ArrayPlace ==
  ASSUME IInv, NEW i \in 1..Len(open), open[i] = "ARRAY_END"
  PROVE  LET k == leftover.arrays + Upto(open, i, {"ARRAY_END"})
         IN  /\ k \in 1..Len(arrayStack)
             /\ i = Len(open) => k = Len(arrayStack)
             /\ i < Len(open) /\ open[Len(open)] = "ARRAY_END" => k < Len(arrayStack)
<1> DEFINE n == Len(open)
           u == Upto(open, i, {"ARRAY_END"})
           v == Upto(open, n, {"ARRAY_END"})
           l == leftover.arrays
<1>1. Len(arrayStack) = l + v /\ l \in Nat /\ n \in Nat
  BY ArraysCounted
<1>2. u \in 1..v /\ v \in Nat
  BY <1>1, UptoOne, UptoNext
<1>3. i < n /\ open[n] = "ARRAY_END" => u < v
  <2>1. i < n => n \in Nat \ {0} /\ i \in 0..(n - 1)
    BY <1>1
  <2>2. n \in Nat \ {0} /\ open[n] \in {"ARRAY_END"} =>
          \A k \in 0..(n - 1) : Upto(open, k, {"ARRAY_END"}) < v
    BY UptoOne
  <2> QED
    BY <2>1, <2>2
<1>4. i = n => u = v
  OBVIOUS
<1> HIDE DEF u, v, l, n
<1>5. /\ l + u \in 1..Len(arrayStack)
      /\ i = n => l + u = Len(arrayStack)
      /\ i < n /\ open[n] = "ARRAY_END" => l + u < Len(arrayStack)
  BY <1>1, <1>2, <1>3, <1>4
<1> QED
  BY <1>5 DEF u, l, n

(* An instruction that changes a length, or takes one away, finds an array *)
(* open last.                                                              *)
LEMMA LengthsLast ==
  ASSUME IInv, NEW answer, NEW status, Step(answer, status), running',
         instr.op \in LengthOps \cup {"ARRAY_END"}
  PROVE  Len(open) # 0 /\ open[Len(open)] = "ARRAY_END"
<1>1. Fetches /\ open \in Seq(Ends)
  BY StepTold, OpenMoves
<1>2. pc \notin Main
  BY <1>1, InRoutine DEF LengthOps
<1>3. AtPlace /\ InPlace(prog, pc) /\ instr.op = Op(prog, pc)
  BY <1>1, <1>2, Fetched
<1>4. Within(prog, pc, "ARRAY_END")
  BY <1>3 DEF InPlace, LengthOps, ArrayOps, Ends, Begins, Ending
<1>5. open # <<>> /\ Top(open) = "ARRAY_END"
  BY <1>3, <1>4, TopHere DEF Within
<1> QED
  BY <1>1, <1>5 DEF Top

LEMMA ElementsKept ==
  ASSUME IInv, ArraysDecode(prog), ~ Direction[prog], ~ encodeMode, ArraysNest, ElementsThere,
         IsDecoder(object), Len(object.stack) = Pointers,
         NEW answer \in Int, NEW status, Step(answer, status), running',
         Follows(object, object', instr.op),
         instr.op \in InArray \ {"O_WRITE_ARRAY_LEN", "ARRAY_END"} => object'.doc = object.doc,
         instr.op = "O_WRITE_ARRAY_LEN" =>
           \A i \in 0..(reg - 1) : Element(Last(object.stack), i) \in DOMAIN object'.doc
  PROVE  ElementsThere'
<1> DEFINE n == Len(open)
           Place(i) == leftover.arrays + Upto(open, i, {"ARRAY_END"})
<1>1. /\ Fetches /\ prog' = prog /\ instr.op = Op(prog, pc) /\ n \in Nat /\ Len(open') \in Nat
      /\ Len(object.stack) = 1 + Upto(open, n, Leaves)
  BY StepTold, OpenMoves, Fetched DEF Pointers
<1> SUFFICES ASSUME NEW i \in 1..Len(open'), Sized(i)'
             PROVE  \A j \in 0..(LengthAt(i)' - 1) : Element(Pointer(i)', j) \in DOMAIN object'.doc
  BY DEF ElementsThere
<1>2. /\ open'[i] = "ARRAY_END"
      /\ i < Len(open') \/ Op(prog, pc') \notin {"C_READ_ARRAY_LEN", "O_WRITE_ARRAY_LEN"}
  BY <1>1 DEF Sized, Op, Code
<1>3. ASSUME i \in 1..n
      PROVE  /\ open[i] = "ARRAY_END"
             /\ Pointer(i)' = Pointer(i) /\ Path(Pointer(i))
             /\ Len(Pointer(i)) = Upto(open, i, Leaves)
             /\ LengthAt(i)' = arrayStack'[Place(i)].len /\ LengthAt(i) = arrayStack[Place(i)].len
             /\ Place(i) \in 1..Len(arrayStack)
             /\ i = n => Place(i) = Len(arrayStack)
             /\ i < n /\ open[n] = "ARRAY_END" => Place(i) < Len(arrayStack)
  <2>1. /\ \A j \in 1..i : open'[j] = open[j]
        /\ Pointer(i)' = Pointer(i) /\ Path(Pointer(i))
        /\ Len(Pointer(i)) = Upto(open, i, Leaves)
        /\ LengthAt(i)' = arrayStack'[Place(i)].len
    BY <1>3, PlaceKept
  <2>2. open[i] = "ARRAY_END"
    BY <1>2, <1>3, <2>1
  <2> QED
    BY <1>3, <2>1, <2>2, ArrayPlace DEF LengthAt
<1>4. CASE i < n
  <2>1. i \in 1..n /\ i \in Nat /\ i + 1 <= n
    BY <1>1, <1>4
  <2>2. LengthAt(i)' = LengthAt(i)
    <3>1. Place(i) < Len(arrayStack) \/ instr.op \notin LengthOps \cup {"ARRAY_END"}
      BY <1>3, <1>4, <2>1, LengthsLast
    <3>2. arrayStack'[Place(i)].len = arrayStack[Place(i)].len
      BY <1>3, <2>1, <3>1, StepLengths
    <3> QED
      BY <1>3, <2>1, <3>2
  <2>3. \A j \in 0..(LengthAt(i) - 1) : Element(Pointer(i), j) \in DOMAIN object.doc
    BY <1>3, <1>4, <2>1 DEF ElementsThere, Sized
  <2>4. Upto(open, i, Leaves) + 1 <= Len(object.stack) - 1
    <3>1. open[i + 1] = "ARRAY_ELEM_END"
      BY <1>3, <1>4, <2>1 DEF ArraysNest
    <3>2. /\ Upto(open, i, Leaves) \in Nat
          /\ Upto(open, i + 1, Leaves) = Upto(open, i, Leaves) + 1
      <4>1. open[i + 1] \in Leaves
        BY <3>1 DEF Leaves
      <4>2. /\ Upto(open, i, Leaves) \in Nat
            /\ Upto(open, i + 1, Leaves)
                 = Upto(open, i, Leaves) + (IF open[i + 1] \in Leaves THEN 1 ELSE 0)
        BY <2>1, UptoNext
      <4> QED
        BY <4>1, <4>2
    <3>3. Upto(open, i + 1, Leaves) <= Upto(open, n, Leaves) /\ Upto(open, n, Leaves) \in Nat
      <4>1. i + 1 \in Nat
        BY <2>1
      <4>2. Upto(open, i + 1, Leaves) <= Upto(open, n, Leaves)
        BY <1>1, <2>1, <4>1, UptoGrows
      <4> QED
        BY <1>1, <4>2, UptoNext
    <3> QED
      BY <1>1, <3>2, <3>3
  <2>5. \A j : /\ Path(Element(Pointer(i), j))
               /\ Len(Element(Pointer(i), j)) = Upto(open, i, Leaves) + 1
    BY <1>3, <2>1, PathAppend DEF Element
  <2>6. \A j \in 0..(LengthAt(i) - 1) : Element(Pointer(i), j) \in DOMAIN object'.doc
    BY <2>3, <2>4, <2>5 DEF Follows, Keeps
  <2> QED
    BY <1>3, <2>1, <2>2, <2>6
<1>5. CASE i = n
  <2>1. i \in 1..n /\ n # 0 /\ open[n] = "ARRAY_END"
    BY <1>1, <1>3, <1>5
  <2>2. /\ instr.op \in InArray /\ InPlace(prog, pc) /\ pc \notin Main /\ pc \in Places(prog)
    BY <1>1, <2>1, InsideArray
  <2>3. instr.op \notin Ends
    <3>1. instr.op \in Ends => Len(open') = n - 1
      BY OpenMoves
    <3> QED
      BY <1>1, <1>5, <3>1
  <2>4. instr.op # "O_READ_ARRAY_LEN" /\ instr.op # "ARRAY_END"
    BY <1>1, <2>2, <2>3 DEF InPlace, Readers, Ends, Begins, Ending
  <2>5. instr.op # "C_READ_ARRAY_LEN"
    <3> SUFFICES ASSUME instr.op = "C_READ_ARRAY_LEN" PROVE FALSE
      OBVIOUS
    <3>1. pc' \in Successors(prog, pc)
      BY <2>2, StepOn
    <3>2. Op(prog, pc') = "O_WRITE_ARRAY_LEN"
      BY <1>1, <2>2, <3>1 DEF ArraysDecode
    <3>3. instr.op \notin Begins \cup Ends
      BY DEF Begins, Ends, Ending
    <3>4. open' = open
      BY <3>3, OpenMoves
    <3> QED
      BY <1>1, <1>2, <1>5, <3>2, <3>4
  <2>6. CASE instr.op = "O_WRITE_ARRAY_LEN"
    <3>1. LengthAt(i)' = reg % U32
      BY <1>3, <1>5, <2>1, <2>6, StepLengths
    <3>2. Pointer(i)' = Last(object.stack)
      <4>1. object.stack # <<>>
        <5>1. Upto(open, n, Leaves) \in Nat
          BY <1>1, UptoNext
        <5>2. Len(object.stack) # 0
          BY <1>1, <5>1
        <5> QED
          BY <5>2
      <4>2. Last(object.stack) = object.stack[Len(object.stack)]
        BY <4>1, DecoderTop
      <4> QED
        BY <1>1, <1>3, <1>5, <2>1, <4>2 DEF Pointer
    <3>3. \A j \in 0..((reg % U32) - 1) : j \in 0..(reg - 1)
      <4>1. reg \in Nat
        BY <1>1, Fetched DEF TypeOK
      <4>2. reg % U32 \in Nat /\ reg % U32 <= reg
        BY <4>1, VMAssumption
      <4> QED
        BY <4>1, <4>2
    <3> QED
      BY <2>6, <3>1, <3>2, <3>3
  <2>7. CASE instr.op # "O_WRITE_ARRAY_LEN"
    <3>1. object'.doc = object.doc
      BY <2>2, <2>4, <2>7
    <3>2. instr.op \notin LengthOps \cup {"ARRAY_END"}
      BY <2>4, <2>5, <2>7 DEF LengthOps
    <3>3. LengthAt(i)' = LengthAt(i)
      BY <1>3, <2>1, <3>2, StepLengths
    <3>4. Sized(i)
      BY <1>1, <2>1, <1>5, <2>5, <2>7 DEF Sized
    <3> QED
      BY <1>3, <2>1, <3>1, <3>3, <3>4 DEF ElementsThere
  <2> QED
    BY <2>6, <2>7
<1>6. CASE ~ (i < n) /\ i # n
  <2>1. instr.op \in Begins /\ i = Len(open')
    <3>1. /\ instr.op \in Begins => Len(open') = n + 1
          /\ instr.op \in Ends => Len(open') = n - 1
          /\ instr.op \notin Begins \cup Ends => Len(open') = n
      BY OpenMoves
    <3> QED
      BY <1>1, <1>6, <3>1
  <2>2. Ending[instr.op] = "ARRAY_END"
    BY <1>2, <2>1, OpenMoves
  <2>3. instr.op = "ARRAY_BEGIN"
    BY <2>1, <2>2 DEF Begins, Ending
  <2>4. pc' \in Successors(prog, pc) /\ pc \in Places(prog) \ Main
    BY <1>1, <2>1, StepOn, Fetched DEF InStep
  <2>5. Op(prog, pc') = "C_READ_ARRAY_LEN"
    BY <1>1, <2>3, <2>4 DEF ArraysDecode
  <2> QED
    BY <1>1, <1>2, <2>1, <2>5
<1> QED
  BY <1>4, <1>5, <1>6

-----------------------------------------------------------------------------
(* The program of a schema and a direction was generated for it.           *)
Directed == \A p \in DOMAIN Programs : Direction[p] = p[2]

(* The inductive invariant. *)
EncoderFollows ==
  /\ phase = "encoding" /\ encodeMode /\ prog = <<job.schema, TRUE>>
  /\ IsEncoder(object, document)
  /\ \A i \in (leftover.oneofs + 1)..Len(oneofStack) : oneofStack[i] + 1 \in DOMAIN ir.oneOfs
DecoderFollows ==
  /\ phase = "decoding" /\ ~ encodeMode /\ prog = <<job.reader, FALSE>>
  /\ IsDecoder(object) /\ ArraysNest /\ ElementsThere
JInv ==
  /\ IInv /\ job \in Jobs
  /\ phase = "idle" => object = EncodeAdapter
  /\ running => Len(object.stack) = Pointers /\ (EncoderFollows \/ DecoderFollows)

LEMMA UptoNone == ASSUME NEW s, NEW E PROVE Upto(s, 0, E) = 0
<1>1. {j \in 1..0 : s[j] \in E} = {}
  OBVIOUS
<1> QED
  BY <1>1, FS_EmptySet DEF Upto

(* What the assumption on the jobs says of one.                            *)
LEMMA JobRuns ==
  ASSUME ProgramsNested, NEW j \in Jobs
  PROVE  /\ <<j.schema, TRUE>> \in DOMAIN Programs /\ <<j.reader, FALSE>> \in DOMAIN Programs
         /\ MessageId(j.schema) \in 0..Len(Programs[<<j.schema, TRUE>>].typeEntryPc)
         /\ MessageId(j.reader) \in 0..Len(Programs[<<j.reader, FALSE>>].typeEntryPc)
         /\ IsDocument(j.doc) /\ Root \in DOMAIN j.doc
<1>1. Runnable(j.schema, TRUE) /\ Runnable(j.reader, FALSE)
  BY JsonAssumption
<1>2. ASSUME NEW name, NEW encode, Runnable(name, encode),
             Len(Programs[<<name, encode>>].typeEntryPc) \in Nat
      PROVE  MessageId(name) \in 0..Len(Programs[<<name, encode>>].typeEntryPc)
  <2>1. PICK t : t = Len(IRs[name].types)
    OBVIOUS
  <2>2. PICK n \in Nat : n = Len(Programs[<<name, encode>>].typeEntryPc)
    BY <1>2
  <2>3. t \in 1..(n + 1)
    BY <1>2, <2>1, <2>2 DEF Runnable
  <2>4. t - 1 \in 0..n
    BY <2>3
  <2> QED
    BY <2>1, <2>2, <2>4 DEF MessageId
<1>3. /\ <<j.schema, TRUE>> \in DOMAIN Programs /\ <<j.reader, FALSE>> \in DOMAIN Programs
  BY <1>1 DEF Runnable
<1>4. \A p \in DOMAIN Programs : Len(Programs[p].typeEntryPc) \in Nat
  BY DEF ProgramsNested, WellNested
<1>5. IsDocument(j.doc) /\ Root \in DOMAIN j.doc
  BY JsonAssumption DEF IsDocument
<1> QED
  BY <1>1, <1>2, <1>3, <1>4, <1>5

LEMMA PointersSome == ASSUME IInv PROVE Pointers \in Nat \ {0}
<1>1. Len(open) \in Nat
  BY ArraysCounted
<1>2. Upto(open, Len(open), Leaves) \in Nat
  BY <1>1, UptoNext
<1> QED
  BY <1>2 DEF Pointers

LEMMA StepRuns == ASSUME NEW answer, NEW status, Step(answer, status) PROVE running
<1> USE DEF At, Fetches
<1>1. CASE RunsOff \/ Halt \/ Invalid
  BY <1>1 DEF RunsOff, Halt, Invalid
<1>2. CASE Jump(status) \/ Ret(status) \/ Dispatch(status) \/ ArrayNext(status)
  BY <1>2 DEF Jump, Ret, Dispatch, ArrayNext
<1>3. CASE Call(status)
  BY <1>3 DEF Call
<1>4. CASE Enter(status)
  BY <1>4 DEF Enter
<1>5. CASE Exit(status)
  BY <1>5 DEF Exit
<1>6. CASE Write(status) \/ WriteLength(status)
  BY <1>6 DEF Write, WriteLength, Uses
<1>7. CASE \/ ReadScalar(answer, status) \/ ReadArm(answer, status)
           \/ ReadLength(answer, status) \/ ReadFlag(answer, status)
  BY <1>7 DEF ReadScalar, ReadArm, ReadLength, ReadFlag, AsksFlag, Reads
<1> QED
  BY <1>1, <1>2, <1>3, <1>4, <1>5, <1>6, <1>7 DEF Step

LEMMA StatusFits ==
  ASSUME NEW o, NEW c
  PROVE  Status(o, c) \in Statuses /\ (Status(o, c) = "Ok" => o.err = "Ok")
BY DEF Status, Statuses

(* A machine that starts finds one pointer on the stack of its object.     *)
LEMMA StartsWithOne ==
  ASSUME open' = <<>>
  PROVE  Pointers' = 1 /\ ArraysNest' /\ ElementsThere'
<1>1. Upto(open', 0, Leaves) = 0 /\ Len(open') = 0
  BY UptoNone
<1>2. Pointers' = 1 + Upto(open', Len(open'), Leaves)
  BY DEF Pointers, Upto
<1>3. \A i \in 1..Len(open') : FALSE
  BY <1>1
<1> QED
  BY <1>1, <1>2, <1>3 DEF ArraysNest, ElementsThere

LEMMA RootAlone ==
  /\ IsDecoder(DecodeAdapter) /\ Len(DecodeAdapter.stack) = 1
  /\ \A d : Root \in DOMAIN d => IsEncoder(EncodeAdapter, d)
  /\ Len(EncodeAdapter.stack) = 1
<1>1. Path(Root) /\ Len(Root) = 0
  <2>1. <<>> \in Seq({0}) /\ Len(<<>>) = 0
    OBVIOUS
  <2> QED
    BY <2>1 DEF Root, Path
<1>2. ASSUME NEW d, Root \in DOMAIN d
      PROVE  IsEncoder(EncodeAdapter, d)
  <2>1. PICK D : D = DOMAIN d
    OBVIOUS
  <2>2. <<Root>> \in Seq(D)
    BY <1>2, <2>1
  <2>3. PICK r : r = [stack |-> <<Root>>, err |-> "Ok"]
    OBVIOUS
  <2>4. r = [stack |-> r.stack, err |-> r.err] /\ r.stack = <<Root>>
    BY <2>3
  <2> QED
    BY <2>1, <2>2, <2>3, <2>4 DEF IsEncoder, EncodeAdapter
<1>3. IsRecord(DecodeAdapter) /\ DecodeAdapter.stack = <<Root>>
      /\ DecodeAdapter.doc = [p \in {Root} |-> Null]
  BY DEF IsRecord, DecodeAdapter
<1>4. DecodeAdapter.stack \in Seq(DOMAIN DecodeAdapter.doc)
  <2>1. DOMAIN DecodeAdapter.doc = {Root}
    BY <1>3
  <2> QED
    BY <1>3, <2>1
<1>5. \A i \in 1..Len(<<Root>>) : Path(<<Root>>[i]) /\ Len(<<Root>>[i]) = i - 1
  <2>1. \A i \in 1..Len(<<Root>>) : i = 1
    OBVIOUS
  <2> QED
    BY <1>1, <2>1
<1> QED
  BY <1>2, <1>3, <1>4, <1>5 DEF IsDecoder, EncodeAdapter

LEMMA EncodeStarts ==
  ASSUME ProgramsNested, JInv, encodeJson
  PROVE  JInv'
<1>1. /\ phase = "idle" /\ phase' = "encoding" /\ job' = job /\ object' = object
      /\ Start(<<job.schema, TRUE>>, TRUE, MessageId(job.schema))
  BY DEF encodeJson
<1>2. /\ job \in Jobs /\ <<job.schema, TRUE>> \in DOMAIN Programs
      /\ MessageId(job.schema) \in 0..Len(Programs[<<job.schema, TRUE>>].typeEntryPc)
      /\ IsDocument(job.doc) /\ Root \in DOMAIN job.doc
  BY JobRuns DEF JInv
<1>3. IInv'
  BY <1>1, <1>2, StartKeeps DEF JInv
<1>4. /\ encodeMode' = TRUE /\ prog' = <<job.schema, TRUE>> /\ open' = <<>>
      /\ leftover'.oneofs = Len(oneofStack) /\ oneofStack' = oneofStack
  BY <1>1 DEF Start
<1>5. object' = EncodeAdapter
  BY <1>1 DEF JInv
<1>6. IsEncoder(object', document') /\ Len(object'.stack) = 1
  <2>1. document' = WithNull(job.doc)
    BY <1>1 DEF document
  <2>2. Root \in DOMAIN WithNull(job.doc)
    BY <1>2, WithNullDocument
  <2> QED
    BY <1>5, <2>1, <2>2, RootAlone
<1>7. IsEncoder(object, document)'
  BY <1>6 DEF IsEncoder
<1>8. \A i \in (leftover'.oneofs + 1)..Len(oneofStack') : FALSE
  <2>1. Len(oneofStack) \in Nat
    BY DEF JInv, IInv, TypeOK
  <2> QED
    BY <1>4, <2>1
<1>9. EncoderFollows'
  BY <1>1, <1>4, <1>7, <1>8 DEF EncoderFollows
<1> QED
  BY <1>1, <1>2, <1>3, <1>4, <1>6, <1>9, StartsWithOne DEF JInv

LEMMA DecodeStarts ==
  ASSUME ProgramsNested, JInv, decodeJson
  PROVE  JInv'
<1>1. /\ phase' = "decoding" /\ job' = job /\ object' = DecodeAdapter
      /\ Start(<<job.reader, FALSE>>, FALSE, MessageId(job.reader))
  BY DEF decodeJson
<1>2. /\ job \in Jobs /\ <<job.reader, FALSE>> \in DOMAIN Programs
      /\ MessageId(job.reader) \in 0..Len(Programs[<<job.reader, FALSE>>].typeEntryPc)
  BY JobRuns DEF JInv
<1>3. IInv'
  BY <1>1, <1>2, StartKeeps DEF JInv
<1>4. encodeMode' = FALSE /\ prog' = <<job.reader, FALSE>> /\ open' = <<>>
  BY <1>1 DEF Start
<1>5. IsDecoder(object)' /\ Len(object'.stack) = 1
  BY <1>1, RootAlone DEF IsDecoder, IsRecord, Path
<1>6. DecoderFollows' /\ Pointers' = 1
  BY <1>1, <1>4, <1>5, StartsWithOne DEF DecoderFollows
<1> QED
  BY <1>1, <1>2, <1>3, <1>5, <1>6 DEF JInv

(* The program at hand is one of the schema at hand.                       *)
LEMMA OneofsKnown ==
  ASSUME JInv, EncoderFollows
  PROVE  /\ \A o \in DOMAIN ir.oneOfs : ir.oneOfs[o] \in Seq(Nat)
         /\ At({"ONEOF_BEGIN"}) => instr.imm + 1 \in DOMAIN ir.oneOfs
<1>1. Runnable(job.schema, TRUE) /\ prog = <<job.schema, TRUE>>
  BY JsonAssumption DEF JInv, EncoderFollows
<1>2. ir = IRs[job.schema]
  BY <1>1 DEF ir
<1>3. ASSUME At({"ONEOF_BEGIN"})
      PROVE  instr.imm + 1 \in DOMAIN ir.oneOfs
  <2>1. pc \in Nat /\ pc < Len(code) /\ instr.op = "ONEOF_BEGIN"
    BY <1>3, Fetched DEF At, Fetches, TypeOK, JInv
  <2>2. Len(code) \in Nat
    BY DEF JInv, IInv, WellNested, code, Code
  <2>3. pc + 1 \in 1..Len(code)
    BY <2>1, <2>2
  <2> QED
    BY <1>1, <1>2, <2>1, <2>3 DEF Runnable, instr, code
<1> QED
  BY <1>1, <1>2, <1>3 DEF Runnable

LEMMA EncodingKeeps ==
  ASSUME ProgramsNested, JInv, Encoding
  PROVE  JInv'
<1>1. PICK told :
        /\ told = IF Fetches THEN EncodeCall(ir, document, object, instr, at, U32, U64)
                  ELSE Does(object, 0)
        /\ object' = told.obj /\ Step(told.answer, Status(object', codec'))
  BY DEF Encoding
<1>2. phase = "encoding" /\ job' = job /\ Finished("encoded", "refused")
  BY DEF Encoding
<1>3. /\ IInv /\ job \in Jobs /\ EncoderFollows /\ IsEncoder(object, document)
      /\ Len(object.stack) = Pointers /\ object.stack # <<>>
  <2>1. running
    BY <1>1, StepRuns
  <2>2. IInv /\ job \in Jobs /\ EncoderFollows /\ Len(object.stack) = Pointers
    BY <1>2, <2>1 DEF JInv, DecoderFollows
  <2>3. Len(object.stack) # 0
    BY <2>2, PointersSome
  <2> QED
    BY <2>2, <2>3 DEF EncoderFollows
<1>4. IsDocument(document) /\ NullPath \in DOMAIN document
  <2>1. IsDocument(job.doc) /\ Root \in DOMAIN job.doc
    BY <1>3, JobRuns
  <2> QED
    BY <2>1, WithNullDocument DEF document
<1>5. told.answer \in Int /\ (AsksFlag => told.answer \in {0, 1})
  <2>1. CASE Fetches
    <3>1. instr.op = "O_READ_ONEOF_ARM" => ir.oneOfs[at.oneof + 1] \in Seq(Nat)
      <4> SUFFICES ASSUME instr.op = "O_READ_ONEOF_ARM" PROVE ir.oneOfs[at.oneof + 1] \in Seq(Nat)
        OBVIOUS
      <4>1. Len(oneofStack) > leftover.oneofs
        BY <1>3, <2>1, FramesFound DEF FramesThere, OneOfOps
      <4>2. oneofStack \in Seq(Nat) /\ leftover.oneofs \in Nat
        BY <1>3 DEF IInv, TypeOK
      <4>3. Len(oneofStack) \in (leftover.oneofs + 1)..Len(oneofStack) /\ oneofStack # <<>>
        BY <4>1, <4>2
      <4>4. at.oneof = oneofStack[Len(oneofStack)]
        BY <4>3 DEF at, Top
      <4> QED
        BY <1>3, <4>3, <4>4, OneofsKnown DEF EncoderFollows
    <3>2. told.answer \in Int /\ (instr.op = "O_READ_OPT_PRESENT" => told.answer \in {0, 1})
      <4>1. told = EncodeCall(ir, document, object, instr, at, U32, U64)
        BY <1>1, <2>1
      <4> QED
        BY <1>3, <1>4, <3>1, <4>1, EncodeAnswers
    <3>3. AsksFlag => instr.op = "O_READ_OPT_PRESENT"
      BY <1>3 DEF AsksFlag, Reads, At, EncoderFollows
    <3> QED
      BY <3>2, <3>3
  <2>2. CASE ~ Fetches
    BY <1>1, <2>2 DEF Does, AsksFlag, Reads, At
  <2> QED
    BY <2>1, <2>2
<1>6. IInv'
  BY <1>1, <1>3, <1>5, StatusFits, StepKeeps
<1>7. phase' # "idle"
  BY <1>2 DEF Finished
<1>8. ASSUME running'
      PROVE  Len(object'.stack) = Pointers' /\ EncoderFollows'
  <2>1. Fetches /\ object'.err = "Ok" /\ prog' = prog /\ encodeMode' = encodeMode
        /\ leftover' = leftover
    BY <1>1, <1>3, <1>8, StepTold, StatusFits
  <2>2. told = EncodeCall(ir, document, object, instr, at, U32, U64) /\ told.obj.err = "Ok"
    BY <1>1, <2>1
  <2>3. IsEncoder(object', document) /\ Len(object'.stack) = StackAfter(instr.op, Pointers)
    BY <1>1, <1>3, <1>4, <2>2, EncodeMoves
  <2>4. Len(object'.stack) = Pointers'
    BY <1>1, <1>3, <1>8, <2>3, PointersMove
  <2>5. IsEncoder(object, document)' /\ ir' = ir
    BY <1>2, <2>1, <2>3 DEF IsEncoder, document, ir
  <2>6. ASSUME NEW i \in (leftover'.oneofs + 1)..Len(oneofStack')
        PROVE  oneofStack'[i] + 1 \in DOMAIN ir.oneOfs
    <3>1. leftover.oneofs \in Nat /\ oneofStack \in Seq(Nat) /\ oneofStack' \in Seq(Nat)
      BY <1>3, <1>6 DEF IInv, TypeOK
    <3>2. i \in 1..Len(oneofStack') /\ i \in Int /\ i >= leftover.oneofs + 1
      BY <2>1, <2>6, <3>1
    <3>3. CASE i \in 1..Len(oneofStack) /\ oneofStack'[i] = oneofStack[i]
      <4>1. i \in (leftover.oneofs + 1)..Len(oneofStack)
        BY <3>1, <3>2, <3>3
      <4> QED
        BY <1>3, <3>3, <4>1 DEF EncoderFollows
    <3>4. CASE instr.op = "ONEOF_BEGIN" /\ oneofStack'[i] = instr.imm
      BY <1>3, <2>1, <3>4, OneofsKnown DEF At
    <3> QED
      BY <1>1, <1>3, <1>8, <3>2, <3>3, <3>4, StepOneofs
  <2>7. phase' = "encoding"
    BY <1>2, <1>8 DEF Finished
  <2> QED
    BY <1>2, <1>3, <2>1, <2>4, <2>5, <2>6, <2>7 DEF EncoderFollows
<1> QED
  BY <1>2, <1>3, <1>6, <1>7, <1>8 DEF JInv

LEMMA DecodingKeeps ==
  ASSUME ProgramsNested, ProgramsDecode, Directed, JInv, CodecAnswers, Decoding
  PROVE  JInv'
<1>1. PICK garbage, told, asked :
        /\ garbage \in Garbage
        /\ told = IF Fetches THEN DecodeCall(ir, object, instr, at, garbage, U64)
                  ELSE Does(object, 0)
        /\ asked = IF Fetches THEN Ask(table, codec, instr, at)
                   ELSE [codec |-> codec, answer |-> 0]
        /\ object' = told.obj /\ Step(asked.answer, Status(object', codec'))
  BY DEF Decoding
<1>2. phase = "decoding" /\ job' = job /\ Finished("decoded", "failed")
  BY DEF Decoding
<1>3. /\ IInv /\ job \in Jobs /\ DecoderFollows /\ IsDecoder(object)
      /\ ArraysNest /\ ElementsThere
      /\ Len(object.stack) = Pointers /\ object.stack # <<>>
  <2>1. running
    BY <1>1, StepRuns
  <2>2. IInv /\ job \in Jobs /\ DecoderFollows /\ Len(object.stack) = Pointers
    BY <1>2, <2>1 DEF JInv, EncoderFollows
  <2>3. Len(object.stack) # 0
    BY <2>2, PointersSome
  <2> QED
    BY <2>2, <2>3 DEF DecoderFollows
<1>4. ArraysDecode(prog) /\ ~ Direction[prog] /\ ~ encodeMode
  <2>1. prog \in DOMAIN Programs /\ prog = <<job.reader, FALSE>> /\ ~ encodeMode
    BY <1>3 DEF IInv, TypeOK, DecoderFollows
  <2>2. Direction[prog] = FALSE
    BY <2>1 DEF Directed
  <2> QED
    BY <2>1, <2>2 DEF ProgramsDecode
<1>5. asked.answer \in Int /\ (AsksFlag => asked.answer \in {0, 1})
  <2>1. CASE Fetches
    BY <1>1, <1>2, <2>1 DEF CodecAnswers
  <2>2. CASE ~ Fetches
    BY <1>1, <2>2 DEF AsksFlag, Reads, At
  <2> QED
    BY <2>1, <2>2
<1>6. IInv'
  BY <1>1, <1>3, <1>5, StatusFits, StepKeeps
<1>7. phase' # "idle"
  BY <1>2 DEF Finished
<1>8. ASSUME running'
      PROVE  Len(object'.stack) = Pointers' /\ DecoderFollows'
  <2>1. Fetches /\ object'.err = "Ok" /\ prog' = prog /\ encodeMode' = encodeMode
    BY <1>1, <1>3, <1>8, StepTold, StatusFits
  <2>2. told = DecodeCall(ir, object, instr, at, garbage, U64) /\ told.obj.err = "Ok"
    BY <1>1, <2>1
  <2>3. instr.op = "ARRAY_ELEM_BEGIN" => Element(Last(object.stack), at.idx) \in DOMAIN object.doc
    <3> SUFFICES ASSUME instr.op = "ARRAY_ELEM_BEGIN"
                 PROVE  Element(Last(object.stack), at.idx) \in DOMAIN object.doc
      OBVIOUS
    <3>1. /\ AtPlace /\ InStep /\ TypeOK /\ instr.op = Op(prog, pc)
          /\ InPlace(prog, pc)
      BY <1>3, <2>1, Fetched, InRoutine
    <3>2. open # <<>> /\ Top(open) = "ARRAY_END" /\ open \in Seq(Ends)
      BY <3>1, TopHere DEF InPlace, ArrayOps, Within, TypeOK
    <3>3. PICK n \in Nat \ {0} : n = Len(open)
      BY <3>2
    <3>4. n \in 1..Len(open) /\ open[n] = "ARRAY_END"
      BY <3>2, <3>3 DEF Top
    <3>5. leftover.arrays + Upto(open, n, {"ARRAY_END"}) = Len(arrayStack)
      BY <1>3, <3>3, ArraysCounted
    <3>6. arrayStack # <<>> /\ Top(arrayStack).idx < Top(arrayStack).len
      BY <3>1 DEF InStep, AtElement
    <3>7. /\ LengthAt(n) = Top(arrayStack).len /\ at.idx = Top(arrayStack).idx
      BY <3>5, <3>6 DEF LengthAt, Top, at
    <3>8. at.idx \in 0..(LengthAt(n) - 1)
      <4>1. Top(arrayStack) \in [len : 0..(U32 - 1), idx : 0..(U32 - 1)]
        BY <3>1, <3>6, TopType DEF TypeOK
      <4>2. Top(arrayStack).len \in 0..(U32 - 1) /\ Top(arrayStack).idx \in 0..(U32 - 1)
        BY <4>1
      <4> QED
        BY <3>6, <3>7, <4>2
    <3>9. Sized(n)
      BY <3>1, <3>4 DEF Sized
    <3>10. Pointer(n) = Last(object.stack)
      <4>1. Last(object.stack) = object.stack[Len(object.stack)]
        BY <1>3, DecoderTop
      <4> QED
        BY <1>3, <3>3, <4>1 DEF Pointer, Pointers
    <3> QED
      BY <1>3, <3>4, <3>8, <3>9, <3>10 DEF ElementsThere
  <2>4. Follows(object, object', instr.op)
    BY <1>1, <1>3, <2>2, <2>3, DecodeMoves
  <2>5. Len(object'.stack) = Pointers'
    BY <1>1, <1>3, <1>8, <2>4, PointersMove DEF Follows
  <2>6. ArraysNest'
    BY <1>1, <1>3, <1>4, <1>8, NestKept
  <2>7. instr.op \in InArray \ {"O_WRITE_ARRAY_LEN", "ARRAY_END"} => object'.doc = object.doc
    BY <1>1, <1>3, <2>2, ArrayStays
  <2>8. instr.op = "O_WRITE_ARRAY_LEN" =>
          \A i \in 0..(reg - 1) : Element(Last(object.stack), i) \in DOMAIN object'.doc
    <3>1. at.reg = reg
      BY DEF at
    <3> QED
      BY <1>1, <1>3, <2>2, <3>1, ElementsMade
  <2>9. ElementsThere'
    BY <1>1, <1>3, <1>4, <1>5, <1>8, <2>4, <2>7, <2>8, ElementsKept
  <2>10. IsDecoder(object)'
    BY <2>4 DEF Follows, IsDecoder, IsRecord, Path
  <2>11. phase' = "decoding"
    BY <1>2, <1>8 DEF Finished
  <2> QED
    BY <1>2, <1>3, <2>1, <2>5, <2>6, <2>9, <2>10, <2>11 DEF DecoderFollows
<1> QED
  BY <1>2, <1>3, <1>6, <1>7, <1>8 DEF JInv

LEMMA JsonIdleKeeps ==
  ASSUME JInv, UNCHANGED vars
  PROVE  JInv'
<1>1. /\ UNCHANGED vmVars /\ job' = job /\ phase' = phase /\ object' = object
      /\ prog' = prog /\ encodeMode' = encodeMode /\ running' = running /\ pc' = pc
      /\ open' = open /\ leftover' = leftover /\ arrayStack' = arrayStack
      /\ oneofStack' = oneofStack
  BY DEF vars, vmVars, stacks
<1>2. IInv'
  BY <1>1, IdleKeeps DEF JInv
<1>3. Pointers' = Pointers /\ document' = document /\ ir' = ir
  BY <1>1 DEF Pointers, Upto, document, ir
<1>4. EncoderFollows => EncoderFollows'
  BY <1>1, <1>3 DEF EncoderFollows, IsEncoder
<1>5. ArraysNest => ArraysNest'
  BY <1>1 DEF ArraysNest, Within, Around
<1>6. ElementsThere => ElementsThere'
  <2>1. ASSUME NEW i \in 1..Len(open), Sized(i)'
        PROVE  Sized(i) /\ LengthAt(i)' = LengthAt(i) /\ Pointer(i)' = Pointer(i)
    BY <1>1, <2>1 DEF Sized, LengthAt, Pointer, Upto, Op, Code
  <2> QED
    BY <1>1, <2>1 DEF ElementsThere
<1>7. DecoderFollows => DecoderFollows'
  BY <1>1, <1>5, <1>6 DEF DecoderFollows, IsDecoder, IsRecord, Path
<1> QED
  BY <1>1, <1>2, <1>3, <1>4, <1>7 DEF JInv

LEMMA JsonInitKeeps ==
  ASSUME ProgramsNested, JsonInit
  PROVE  JInv
<1>1. IInv
  BY InitKeeps DEF JsonInit
<1>2. ~ running /\ job \in Jobs /\ object = EncodeAdapter
  BY DEF JsonInit, Init
<1> QED
  BY <1>1, <1>2 DEF JInv

(* Whatever a codec answers, as long as it answers with numbers.           *)
LEMMA JsonInvariance ==
  ASSUME ProgramsNested, ProgramsDecode, Directed
  PROVE  JsonSpec /\ []CodecAnswers => []JInv
<1>1. JsonInit => JInv
  BY JsonInitKeeps
<1>2. JInv /\ CodecAnswers /\ [JsonNext]_vars => JInv'
  BY EncodeStarts, DecodeStarts, EncodingKeeps, DecodingKeeps, JsonIdleKeeps DEF JsonNext
<1> QED
  BY <1>1, <1>2, PTL DEF JsonSpec

(* While a run goes on, the adapter's stack holds a pointer to the root    *)
(* and one for every field, element, arm and value that is open, and each  *)
(* of them leads to a node: nothing that is written into the document      *)
(* takes away what a pointer points to (m_stack of both adapters, which is *)
(* followed unchecked).                                                    *)
THEOREM PointersAlwaysFollow ==
  ASSUME ProgramsNested, ProgramsDecode, Directed
  PROVE  JsonSpec /\ []CodecAnswers => []PointersFollow
<1>1. JInv => PointersFollow
  <2> SUFFICES ASSUME JInv, running
               PROVE  /\ Len(object.stack)
                           = 1 + Cardinality({i \in DOMAIN open : open[i] \in Leaves})
                      /\ \A i \in DOMAIN object.stack : object.stack[i] \in
                           DOMAIN (IF phase = "encoding" THEN document ELSE object.doc)
    BY DEF PointersFollow
  <2>1. /\ IInv /\ Len(object.stack) = Pointers
        /\ EncoderFollows \/ DecoderFollows
    BY DEF JInv
  <2>2. {i \in DOMAIN open : open[i] \in Leaves} = {i \in 1..Len(open) : open[i] \in Leaves}
    BY <2>1, ArraysCounted
  <2>3. Len(object.stack) = 1 + Cardinality({i \in DOMAIN open : open[i] \in Leaves})
    BY <2>1, <2>2 DEF Pointers, Upto
  <2>4. ASSUME NEW i \in DOMAIN object.stack
        PROVE  object.stack[i] \in DOMAIN (IF phase = "encoding" THEN document ELSE object.doc)
    <3>1. CASE EncoderFollows
      <4>1. object.stack \in Seq(DOMAIN document) /\ phase = "encoding"
        BY <3>1 DEF EncoderFollows, IsEncoder
      <4> QED
        BY <2>4, <4>1
    <3>2. CASE DecoderFollows
      <4>1. object.stack \in Seq(DOMAIN object.doc) /\ phase # "encoding"
        BY <3>2 DEF DecoderFollows, IsDecoder
      <4> QED
        BY <2>4, <4>1
    <3> QED
      BY <2>1, <3>1, <3>2
  <2> QED
    BY <2>3, <2>4
<1> QED
  BY <1>1, JsonInvariance, PTL

(* The machine that encodeJson and decodeJson run agrees with these        *)
(* adapters as it does with any: its frames are those of what is open,     *)
(* what ends began last, elements are entered that exist, every pop finds  *)
(* a frame of its own run, and no run comes to an instruction that is not  *)
(* for it (runVM as it is called in JSONBackend.h:253-281).                *)
THEOREM MachineAgrees ==
  ASSUME ProgramsNested, ProgramsDecode, Directed
  PROVE  JsonSpec /\ []CodecAnswers =>
           [](/\ FramesMatch /\ EndsInOrder /\ EndsClean
              /\ ElementInRange /\ ProgramsRun /\ FramesThere)
<1>1. JInv => IInv
  BY DEF JInv
<1>2. IInv => EndsInOrder /\ FramesThere
  BY EndsFound, FramesFound
<1>3. IInv => ElementInRange
  BY Fetched DEF ElementInRange, At, InStep, AtElement
<1>4. IInv => FramesMatch /\ EndsClean /\ ProgramsRun
  BY DEF IInv
<1> QED
  BY <1>1, <1>2, <1>3, <1>4, JsonInvariance, PTL
=============================================================================
