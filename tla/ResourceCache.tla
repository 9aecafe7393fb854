----------------------------- MODULE ResourceCache -----------------------------
(***************************************************************************)
(* ResourceCache (compiler/include/ao/schema/ResourceCache.h): a table of  *)
(* values, each stored once and known by its place from then on.           *)
(***************************************************************************)
EXTENDS Naturals, Sequences, TLAPS

Stored(values, v) == \E i \in DOMAIN values : values[i] = v

(* Mutant: a value is stored whenever it is asked for. *)
InternAgain(values, v) == Append(values, v)

(* getId: the table afterwards, and the place of the value in it. *)
Intern(values, v) == IF Stored(values, v) THEN values ELSE Append(values, v)
IdFor(values, v)  == CHOOSE i \in DOMAIN values : values[i] = v

(* Each value has one place. *)
StoredOnce(values) == \A i, j \in DOMAIN values : values[i] = values[j] => i = j

-----------------------------------------------------------------------------
(* What the compiler relies on in every table of the IR: an id, once it    *)
(* was handed out, names the same value for good, and no value has two.    *)

(* The id of a value that is stored is a place where it is.                *)
LEMMA IdIsAPlace ==
  ASSUME NEW values, NEW v, Stored(values, v)
  PROVE  IdFor(values, v) \in DOMAIN values /\ values[IdFor(values, v)] = v
BY DEF Stored, IdFor

(* getId keeps the table as it was and has the value in it                 *)
(* (ResourceCache.h:31-36).                                                *)
LEMMA InternExtends ==
  ASSUME NEW S, NEW values \in Seq(S), NEW v \in S
  PROVE  /\ Intern(values, v) \in Seq(S)
         /\ Len(values) <= Len(Intern(values, v))
         /\ \A i \in DOMAIN values : Intern(values, v)[i] = values[i]
         /\ Stored(Intern(values, v), v)
<1>1. CASE Stored(values, v)
  BY <1>1 DEF Intern
<1>2. CASE ~ Stored(values, v)
  <2>1. Intern(values, v) = Append(values, v)
    BY <1>2 DEF Intern
  <2>2. Len(values) + 1 \in DOMAIN Append(values, v) /\ Append(values, v)[Len(values) + 1] = v
    OBVIOUS
  <2>3. Stored(Append(values, v), v)
    BY <2>2 DEF Stored
  <2> QED
    BY <2>1, <2>3
<1> QED
  BY <1>1, <1>2

(* No value is stored a second time.                                       *)
THEOREM StoredOnceKept ==
  ASSUME NEW S, NEW values \in Seq(S), NEW v \in S, StoredOnce(values)
  PROVE  StoredOnce(Intern(values, v))
<1>1. CASE Stored(values, v)
  BY <1>1 DEF Intern
<1>2. CASE ~ Stored(values, v)
  <2> DEFINE new == Append(values, v)
  <2>1. Intern(values, v) = new
    BY <1>2 DEF Intern
  <2>2. \A i \in DOMAIN values : values[i] # v
    BY <1>2 DEF Stored
  <2>3. SUFFICES ASSUME NEW i \in DOMAIN new, NEW j \in DOMAIN new, new[i] = new[j]
                 PROVE  i = j
    BY <2>1 DEF StoredOnce
  <2>4. DOMAIN new = 1..(Len(values) + 1) /\ DOMAIN values = 1..Len(values)
    OBVIOUS
  <2>5. CASE i \in DOMAIN values /\ j \in DOMAIN values
    BY <2>3, <2>5 DEF StoredOnce
  <2>6. CASE i \in DOMAIN values /\ j = Len(values) + 1
    BY <2>2, <2>3, <2>6
  <2>7. CASE i = Len(values) + 1 /\ j \in DOMAIN values
    BY <2>2, <2>3, <2>7
  <2> QED
    BY <2>4, <2>5, <2>6, <2>7
<1> QED
  BY <1>1, <1>2

(* Whatever is asked for next, a value that has an id keeps it.            *)
THEOREM IdsStay ==
  ASSUME NEW S, NEW values \in Seq(S), NEW v \in S, StoredOnce(values),
         NEW u, Stored(values, u)
  PROVE  /\ Stored(Intern(values, v), u)
         /\ IdFor(Intern(values, v), u) = IdFor(values, u)
<1> DEFINE new == Intern(values, v)
<1>1. /\ IdFor(values, u) \in DOMAIN values
      /\ values[IdFor(values, u)] = u
  BY IdIsAPlace
<1>2. /\ new \in Seq(S)
      /\ Len(values) <= Len(new)
      /\ \A i \in DOMAIN values : new[i] = values[i]
  BY InternExtends
<1>3. IdFor(values, u) \in DOMAIN new /\ new[IdFor(values, u)] = u
  BY <1>1, <1>2
<1>4. Stored(new, u)
  BY <1>3 DEF Stored
<1>5. IdFor(new, u) \in DOMAIN new /\ new[IdFor(new, u)] = u
  BY <1>4, IdIsAPlace
<1>6. StoredOnce(new)
  BY StoredOnceKept
<1>7. IdFor(new, u) = IdFor(values, u)
  BY <1>3, <1>5, <1>6 DEF StoredOnce
<1> QED
  BY <1>4, <1>7
=============================================================================
