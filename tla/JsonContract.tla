----------------------------- MODULE JsonContract -----------------------------
(***************************************************************************)
(* What encodeJson and decodeJson promise, each in one step (compiler/     *)
(* include/ao/schema/JSONBackend.h and the round trips of compiler/tests/  *)
(* JSONCodecTests.cpp): a document that conforms to its schema becomes its *)
(* wire, unless the stream is too small for it, any other is refused; the  *)
(* whole wire becomes a document that means the same, a part of it none.   *)
(***************************************************************************)
EXTENDS Integers, Sequences

CONSTANTS
  Jobs,           \* documents with the schema they are encoded by
  Conforms(_),    \* whether the document of a job fits its schema
  Unfit,          \* how encoding one that does not may end: it is refused, or
                  \* the stream is full before that is found out
  Wire(_)         \* the wire of a job that conforms

VARIABLES
  job,
  capacity,    \* of the stream that is written
  phase,       \* "idle", "encoded", "refused", "overflowed", "sent", "decoded" or "failed"
  kept,        \* how much of the wire arrives
  received     \* the document that was decoded

vars == <<job, capacity, phase, kept, received>>

Init ==
  /\ job \in Jobs
  /\ capacity \in Nat
  /\ phase = "idle"
  /\ kept = 0
  /\ received = <<>>

Encode ==
  /\ phase = "idle"
  /\ \/ ~ Conforms(job) /\ phase' \in Unfit
     \/ Conforms(job) /\ phase' = IF Len(Wire(job)) > capacity THEN "overflowed" ELSE "encoded"
  /\ UNCHANGED <<job, capacity, kept, received>>

Send ==
  /\ phase = "encoded"
  /\ phase' = "sent"
  /\ kept' \in 0..Len(Wire(job))
  /\ UNCHANGED <<job, capacity, received>>

Decode ==
  /\ phase = "sent"
  /\ \/ /\ kept = Len(Wire(job))
        /\ phase' = "decoded"
        /\ LET same == [job EXCEPT !.doc = received']
           IN  Conforms(same) /\ Wire(same) = Wire(job)
     \/ /\ kept < Len(Wire(job))
        /\ phase' = "failed"
        /\ UNCHANGED received
  /\ UNCHANGED <<job, capacity, kept>>

Next == Encode \/ Send \/ Decode
Spec == Init /\ [][Next]_vars
=============================================================================
