----------------------------- MODULE MCBitSession -----------------------------
(***************************************************************************)
(* Items for small bytes and words, which keep the proportions of the code:*)
(* a word is as many bytes as a byte has bits.                             *)
(***************************************************************************)
EXTENDS BitSession

CONSTANTS
  BufferSizes, \* in bytes
  Widths,      \* of items of so many bits
  Lengths,     \* of items of bytes
  Codes        \* values of coded integers

Item(kind, value, width) == [kind |-> kind, value |-> value, width |-> width]

(* Buffers of zeros and of ones, and values with both. *)
MCBuffers == {[i \in 1..n |-> b] : n \in BufferSizes, b \in {0, 2^ByteBits - 1}}
Pattern(n) == [i \in 1..n |-> (2 * i + 3) % 2^ByteBits]
MCItems ==
  {Item("bits", v % 2^WordBits, n) : v \in {0, 2^WordBits - 1, 2^(WordBits - 1) + 5}, n \in Widths}
    \cup {Item("bytes", Pattern(n), n) : n \in Lengths}
    \cup {Item("bytes", Pattern(1), 2)}
    \cup {Item("align", 0, 0), Item("require", 1, 0), Item("require", 0, 0)}
    \cup {Item(kind, v, 0) : kind \in {"varint", "prefix"}, v \in Codes}
=============================================================================
