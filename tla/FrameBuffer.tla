----------------------------- MODULE FrameBuffer -----------------------------
(***************************************************************************)
(* How server/go cuts the byte stream of a node session into frames        *)
(* (FrameBuffer.Append, node.go). A frame is a length, written in digits   *)
(* of base 128 with the least one first and a mark on all but the last,    *)
(* and as many bytes as half of the length says; the odd bit marks an      *)
(* acknowledgment. Bytes of any base cut the same way.                     *)
(***************************************************************************)
EXTENDS Integers, Sequences

CONSTANTS
  Base,        \* 128: a byte is a digit, plus Base when another one follows
  MaxPrefix,   \* 3: digits of a length
  MaxFrame     \* 16384: bytes of a frame with its length

ASSUME FrameAssumption ==
  /\ Base \in Nat \ {0, 1}
  /\ MaxPrefix \in Nat \ {0}
  /\ MaxFrame \in Nat

Byte == 0 .. 2 * Base - 1

Marked(b) == b >= Base

\* The number that the first n bytes of p write, the least digit first.
Size(p, n) ==
  LET from[i \in 1 .. n + 1] == IF i > n THEN 0 ELSE (p[i] % Base) + Base * from[i + 1]
  IN from[1]

\* Where the length at the head of p ends: a set of one, or of none while it does not.
PrefixEnds(p) ==
  {n \in 1 .. MaxPrefix : n <= Len(p) /\ ~Marked(p[n]) /\ \A i \in 1 .. n - 1 : Marked(p[i])}

\* Mistake: the length is taken for that of the whole frame.
TotalOfBody(p, n) == Size(p, n) \div 2

Total(p, n) == n + Size(p, n) \div 2

(***************************************************************************)
(* The loop of Append for one byte. The error leaves the loop: the frames  *)
(* of this call and the rest of its bytes are lost, the byte stays.        *)
(***************************************************************************)
Absorb(buffer, b) ==
  LET p == Append(buffer.pending, b)
      ends == PrefixEnds(p)
  IN
  IF buffer.bad THEN buffer
  ELSE IF ends = {} THEN [buffer EXCEPT !.pending = p, !.bad = Len(p) >= MaxPrefix]
  ELSE LET total == Total(p, CHOOSE n \in ends : TRUE) IN
    IF total \in ends \/ total > MaxFrame THEN [buffer EXCEPT !.pending = p, !.bad = TRUE]
    ELSE IF Len(p) = total
      THEN [buffer EXCEPT !.pending = <<>>, !.frames = Append(@, p)]
      ELSE [buffer EXCEPT !.pending = p]

Feed(pending, data) ==
  LET after[i \in 0 .. Len(data)] ==
        IF i = 0 THEN [pending |-> pending, frames |-> <<>>, bad |-> FALSE]
        ELSE Absorb(after[i - 1], data[i])
      buffer == after[Len(data)]
  IN IF buffer.bad THEN [buffer EXCEPT !.frames = <<>>] ELSE buffer

-----------------------------------------------------------------------------
(***************************************************************************)
(* The reference: frames are the words of a prefix code, so that a stream  *)
(* is cut in one way.                                                      *)
(***************************************************************************)
IsFrame(f) ==
  \E n \in 1 .. MaxPrefix :
    /\ n < Len(f) /\ Len(f) <= MaxFrame
    /\ \A i \in 1 .. n : Marked(f[i]) <=> i < n
    /\ Len(f) - n = Size(f, n) \div 2

Cut(s) ==
  LET from[i \in 1 .. Len(s) + 1] ==
        LET ends == {j \in i .. Len(s) : IsFrame(SubSeq(s, i, j))} IN
        IF ends = {} THEN <<>>
        ELSE LET j == CHOOSE j \in ends : TRUE IN <<SubSeq(s, i, j)>> \o from[j + 1]
  IN from[1]

\* No frame begins with these bytes.
Hopeless(p) ==
  \/ Len(p) >= MaxPrefix /\ \A i \in 1 .. MaxPrefix : Marked(p[i])
  \/ \E n \in PrefixEnds(p) : Size(p, n) < 2 \/ n + Size(p, n) \div 2 > MaxFrame
=============================================================================
