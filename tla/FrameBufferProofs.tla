-------------------------- MODULE FrameBufferProofs --------------------------
(***************************************************************************)
(* That FrameBuffer cuts every stream as its reference says, in any base   *)
(* and with any bounds. The functions of FrameBuffer are recursive: each   *)
(* is shown to have values at all, and what they are by induction over the *)
(* natural numbers or over sequences.                                      *)
(***************************************************************************)
EXTENDS FrameBuffer, SequencesExt, SequenceTheorems, WellFoundedInduction, TLAPS

-----------------------------------------------------------------------------
(***************************************************************************)
(* Induction. The library states it of an operator; stated of a set it can *)
(* be cited. What is to hold of every n is then that n is in the set.      *)
(***************************************************************************)

\* A set of natural numbers has a least element.
LEMMA Least ==
  ASSUME NEW T \in SUBSET Nat, T # {}
  PROVE  \E m \in T : \A k \in T : m <= k
<1> DEFINE R == {p \in Nat \X Nat : p[1] < p[2]}
<1>1. IsWellFoundedOn(R, Nat)
  BY NatLessThanWellFounded DEF OpToRel
<1>2. \A x, y \in Nat : <<y, x>> \in R <=> y < x
  OBVIOUS
<1> HIDE DEF R
<1>3. PICK x \in T : \A y \in T : ~ (<<y, x>> \in R)
  BY <1>1, WFMin
<1>4. ASSUME NEW y \in T PROVE x <= y
  <2>1. x \in Nat /\ y \in Nat /\ ~ (y < x)
    BY <1>2, <1>3
  <2>2. QED
    BY <2>1
<1>5. QED
  BY <1>4

\* Induction: what holds of 0 and of n + 1 with n holds of every n.
LEMMA NatSetInduction ==
  ASSUME NEW S, 0 \in S, \A n \in Nat : n \in S => n + 1 \in S
  PROVE  \A n \in Nat : n \in S
<1> SUFFICES ASSUME Nat \ S # {} PROVE FALSE
  OBVIOUS
<1>1. PICK m \in Nat \ S : \A k \in Nat \ S : m <= k
  BY Least
<1>2. m # 0 /\ m - 1 \in Nat
  OBVIOUS
<1>3. m - 1 \in S
  BY <1>1, <1>2
<1>4. QED
  BY <1>2, <1>3

\* Induction over sequences: what is kept when an element is appended.
LEMMA SeqSetInduction ==
  ASSUME NEW S, NEW T, <<>> \in T,
         \A s \in Seq(S), e \in S : s \in T => Append(s, e) \in T
  PROVE  \A s \in Seq(S) : s \in T
<1> DEFINE N == {n \in Nat : \A s \in Seq(S) : Len(s) = n => s \in T}
<1>1. 0 \in N
  <2>1. \A s \in Seq(S) : Len(s) = 0 => s = <<>>
    BY EmptySeq
  <2>2. QED
    BY <2>1
<1>2. ASSUME NEW n \in Nat, n \in N PROVE n + 1 \in N
  <2> SUFFICES ASSUME NEW s \in Seq(S), Len(s) = n + 1 PROVE s \in T
    OBVIOUS
  <2>1. s # <<>>
    BY EmptySeq
  <2>2. PICK t \in Seq(S) : \E e \in S : s = Append(t, e)
    BY <2>1, SequenceEmptyOrAppend
  <2>3. PICK e \in S : s = Append(t, e)
    BY <2>2
  <2>4. Len(t) = n
    BY <2>3, AppendProperties, LenProperties
  <2>5. t \in T
    BY <1>2, <2>4
  <2>6. QED
    BY <2>3, <2>5
<1> HIDE DEF N
<1>3. \A n \in Nat : n \in N
  BY <1>1, <1>2, NatSetInduction
<1>4. QED
  BY <1>3, LenProperties DEF N

-----------------------------------------------------------------------------
(***************************************************************************)
(* The loop of Feed, as a function of the bytes that it has absorbed.      *)
(***************************************************************************)
Buffer == [pending : Seq(Byte), frames : Seq(Seq(Byte)), bad : BOOLEAN]

NewBuffer(pending) == [pending |-> pending, frames |-> <<>>, bad |-> FALSE]

IsLoop(after, pending, data, n) ==
  after = [i \in 0 .. n |-> IF i = 0 THEN NewBuffer(pending)
                                     ELSE Absorb(after[i - 1], data[i])]

\* The recursion of Feed has a solution.
LEMMA LoopExists ==
  ASSUME NEW pending, NEW data
  PROVE  \A n \in Nat : \E after : IsLoop(after, pending, data, n)
<1> DEFINE S == {n \in Nat : \E after : IsLoop(after, pending, data, n)}
<1>1. 0 \in S
  <2> DEFINE f == [i \in 0 .. 0 |-> NewBuffer(pending)]
  <2>1. IsLoop(f, pending, data, 0)
    BY DEF IsLoop
  <2>2. QED
    BY <2>1
<1>2. ASSUME NEW n \in Nat, n \in S PROVE n + 1 \in S
  <2>1. PICK f : IsLoop(f, pending, data, n)
    BY <1>2
  <2> DEFINE g == [i \in 0 .. n + 1 |-> IF i = n + 1 THEN Absorb(f[n], data[n + 1]) ELSE f[i]]
             h == [i \in 0 .. n + 1 |-> IF i = 0 THEN NewBuffer(pending)
                                                 ELSE Absorb(g[i - 1], data[i])]
  <2>2. ASSUME NEW i \in 0 .. n + 1 PROVE g[i] = h[i]
    <3>1. CASE i = 0
      BY <2>1, <3>1 DEF IsLoop
    <3>2. CASE i = n + 1
      BY <3>2
    <3>3. CASE i \in 1 .. n
      <4>1. f[i] = Absorb(f[i - 1], data[i])
        BY <2>1, <3>3 DEF IsLoop
      <4>2. g[i] = f[i] /\ g[i - 1] = f[i - 1] /\ h[i] = Absorb(g[i - 1], data[i])
        BY <3>3
      <4>3. QED
        BY <4>1, <4>2
    <3>4. QED
      BY <3>1, <3>2, <3>3
  <2>3. g = h
    BY <2>2
  <2>4. IsLoop(g, pending, data, n + 1)
    BY <2>3 DEF IsLoop
  <2>5. QED
    BY <2>4
<1> HIDE DEF S
<1>3. \A n \in Nat : n \in S
  BY <1>1, <1>2, NatSetInduction
<1>4. QED
  BY <1>3 DEF S

\* What Feed returns, in terms of the loop.
LEMMA FeedIsLoop ==
  ASSUME NEW pending, NEW data, Len(data) \in Nat
  PROVE  \E after :
           /\ IsLoop(after, pending, data, Len(data))
           /\ Feed(pending, data) =
                IF after[Len(data)].bad THEN [after[Len(data)] EXCEPT !.frames = <<>>]
                                        ELSE after[Len(data)]
<1> DEFINE after == CHOOSE f : IsLoop(f, pending, data, Len(data))
<1>1. IsLoop(after, pending, data, Len(data))
  BY LoopExists
<1>2. Feed(pending, data) =
        IF after[Len(data)].bad THEN [after[Len(data)] EXCEPT !.frames = <<>>]
                                ELSE after[Len(data)]
  BY DEF Feed, IsLoop, NewBuffer
<1> HIDE DEF after
<1>3. QED
  BY <1>1, <1>2

\* One step of the loop keeps the types of the buffer.
LEMMA AbsorbType ==
  ASSUME NEW buffer \in Buffer, NEW b \in Byte
  PROVE  Absorb(buffer, b) \in Buffer
<1> DEFINE p == Append(buffer.pending, b)
<1>1. p \in Seq(Byte)
  BY DEF Buffer
<1>2. Append(buffer.frames, p) \in Seq(Seq(Byte))
  BY <1>1 DEF Buffer
<1> HIDE DEF p
<1>3. <<>> \in Seq(Byte)
  BY EmptySeq
<1>4. \A q \in Seq(Byte), e \in BOOLEAN :
        /\ [buffer EXCEPT !.pending = q] \in Buffer
        /\ [buffer EXCEPT !.pending = q, !.bad = e] \in Buffer
  BY DEF Buffer
<1>5. \A q \in Seq(Byte), f \in Seq(Seq(Byte)) :
        [buffer EXCEPT !.pending = q, !.frames = f] \in Buffer
  BY DEF Buffer
<1>6. /\ [buffer EXCEPT !.pending = p] \in Buffer
      /\ [buffer EXCEPT !.pending = p, !.bad = TRUE] \in Buffer
  BY <1>1, <1>4
<1>7. [buffer EXCEPT !.pending = p, !.bad = Len(p) >= MaxPrefix] \in Buffer
  <2>1. (Len(p) >= MaxPrefix) \in BOOLEAN
    OBVIOUS
  <2>2. QED
    BY <1>1, <1>4, <2>1, Zenon
<1>8. [buffer EXCEPT !.pending = <<>>, !.frames = Append(@, p)] \in Buffer
  BY <1>2, <1>3, <1>5
<1>9. QED
  BY <1>6, <1>7, <1>8 DEF Absorb, p

LEMMA LoopType ==
  ASSUME NEW pending \in Seq(Byte), NEW data \in Seq(Byte), NEW after,
         IsLoop(after, pending, data, Len(data))
  PROVE  \A i \in 0 .. Len(data) : after[i] \in Buffer
<1> DEFINE S == {n \in Nat : n <= Len(data) => after[n] \in Buffer}
<1>1. 0 \in S
  <2>1. after[0] = NewBuffer(pending)
    BY DEF IsLoop
  <2>2. NewBuffer(pending) \in Buffer
    BY DEF NewBuffer, Buffer
  <2>3. QED
    BY <2>1, <2>2
<1>2. ASSUME NEW n \in Nat, n \in S PROVE n + 1 \in S
  <2> SUFFICES ASSUME n + 1 <= Len(data) PROVE after[n + 1] \in Buffer
    OBVIOUS
  <2>1. after[n + 1] = Absorb(after[n], data[n + 1])
    BY DEF IsLoop
  <2>2. after[n] \in Buffer /\ data[n + 1] \in Byte
    BY <1>2
  <2>3. QED
    BY <2>1, <2>2, AbsorbType
<1> HIDE DEF S
<1>3. \A n \in Nat : n \in S
  BY <1>1, <1>2, NatSetInduction
<1>4. QED
  BY <1>3 DEF S

\* What Feed returns is a buffer.
LEMMA FeedType ==
  ASSUME NEW pending \in Seq(Byte), NEW data \in Seq(Byte)
  PROVE  Feed(pending, data) \in Buffer
<1>1. PICK after :
        /\ IsLoop(after, pending, data, Len(data))
        /\ Feed(pending, data) =
             IF after[Len(data)].bad THEN [after[Len(data)] EXCEPT !.frames = <<>>]
                                     ELSE after[Len(data)]
  BY FeedIsLoop
<1>2. after[Len(data)] \in Buffer
  BY <1>1, LoopType
<1>3. <<>> \in Seq(Seq(Byte))
  BY EmptySeq
<1>4. \A buffer \in Buffer : [buffer EXCEPT !.frames = <<>>] \in Buffer
  BY <1>3 DEF Buffer
<1>5. QED
  BY <1>1, <1>2, <1>4

-----------------------------------------------------------------------------
(***************************************************************************)
(* Lengths. The sum of Size is a natural number that the first n bytes     *)
(* determine.                                                              *)
(***************************************************************************)
IsSum(from, p, n) ==
  from = [i \in 1 .. n + 1 |-> IF i > n THEN 0 ELSE (p[i] % Base) + Base * from[i + 1]]

\* The recursion of Size has a solution.
LEMMA SumExists ==
  ASSUME NEW p, NEW n \in Nat
  PROVE  \E from : IsSum(from, p, n)
<1> DEFINE Part(f, first) ==
             f = [i \in first .. n + 1 |->
                    IF i > n THEN 0 ELSE (p[i] % Base) + Base * f[i + 1]]
           S == {k \in Nat : k <= n => \E f : Part(f, n + 1 - k)}
<1>1. 0 \in S
  <2> DEFINE f == [i \in n + 1 .. n + 1 |-> 0]
  <2>1. Part(f, n + 1)
    OBVIOUS
  <2>2. QED
    BY <2>1
<1>2. ASSUME NEW k \in Nat, k \in S PROVE k + 1 \in S
  <2> SUFFICES ASSUME k + 1 <= n PROVE \E f : Part(f, n - k)
    OBVIOUS
  <2> DEFINE j == n - k
  <2>1. PICK f : Part(f, j + 1)
    BY <1>2
  <2> DEFINE g == [i \in j .. n + 1 |->
                     IF i = j THEN (p[i] % Base) + Base * f[i + 1] ELSE f[i]]
             h == [i \in j .. n + 1 |->
                     IF i > n THEN 0 ELSE (p[i] % Base) + Base * g[i + 1]]
  <2>2. ASSUME NEW i \in j .. n + 1 PROVE g[i] = h[i]
    <3>1. CASE i = j
      BY <3>1
    <3>2. CASE i = n + 1
      <4>1. f[i] = 0
        BY <2>1, <3>2
      <4>2. QED
        BY <3>2, <4>1
    <3>3. CASE i \in j + 1 .. n
      <4>1. f[i] = (p[i] % Base) + Base * f[i + 1]
        BY <2>1, <3>3
      <4>2. g[i] = f[i] /\ g[i + 1] = f[i + 1]
        BY <3>3
      <4>3. QED
        BY <3>3, <4>1, <4>2
    <3>4. QED
      BY <3>1, <3>2, <3>3
  <2>3. g = h
    BY <2>2
  <2>4. Part(g, j)
    BY <2>3
  <2>5. QED
    BY <2>4
<1> HIDE DEF S
<1>3. n \in S
  BY <1>1, <1>2, NatSetInduction
<1>4. QED
  BY <1>3 DEF S, IsSum

LEMMA SizeIsSum ==
  ASSUME NEW p, NEW n \in Nat
  PROVE  \E from : IsSum(from, p, n) /\ Size(p, n) = from[1]
<1> DEFINE from == CHOOSE f : IsSum(f, p, n)
<1>1. IsSum(from, p, n)
  BY SumExists
<1>2. Size(p, n) = from[1]
  BY DEF Size, IsSum
<1> HIDE DEF from
<1>3. QED
  BY <1>1, <1>2

\* The size is a natural number, and the same for bytes that agree.
LEMMA SizeAgrees ==
  ASSUME NEW p \in Seq(Byte), NEW q \in Seq(Byte), NEW n \in Nat,
         n <= Len(p), n <= Len(q), \A i \in 1 .. n : p[i] = q[i]
  PROVE  Size(p, n) \in Nat /\ Size(p, n) = Size(q, n)
<1>1. PICK f : IsSum(f, p, n) /\ Size(p, n) = f[1]
  BY SizeIsSum
<1>2. PICK g : IsSum(g, q, n) /\ Size(q, n) = g[1]
  BY SizeIsSum
<1> DEFINE S == {k \in Nat : k <= n => f[n + 1 - k] \in Nat /\ f[n + 1 - k] = g[n + 1 - k]}
<1>3. 0 \in S
  <2>1. f[n + 1] = 0 /\ g[n + 1] = 0
    BY <1>1, <1>2 DEF IsSum
  <2>2. QED
    BY <2>1
<1>4. ASSUME NEW k \in Nat, k \in S PROVE k + 1 \in S
  <2> SUFFICES ASSUME k + 1 <= n PROVE f[n - k] \in Nat /\ f[n - k] = g[n - k]
    OBVIOUS
  <2> DEFINE j == n - k
  <2>1. j \in 1 .. n /\ j + 1 = n + 1 - k
    OBVIOUS
  <2>2. /\ f[j] = (p[j] % Base) + Base * f[j + 1]
        /\ g[j] = (q[j] % Base) + Base * g[j + 1]
    BY <1>1, <1>2, <2>1 DEF IsSum
  <2>3. f[j + 1] \in Nat /\ f[j + 1] = g[j + 1]
    BY <1>4, <2>1
  <2>4. p[j] = q[j] /\ p[j] \in Nat
    BY <2>1, FrameAssumption DEF Byte
  <2>5. (p[j] % Base) + Base * f[j + 1] \in Nat
    BY <2>3, <2>4, FrameAssumption
  <2>6. QED
    BY <2>2, <2>3, <2>4, <2>5
<1> HIDE DEF S
<1>5. n \in S
  BY <1>3, <1>4, NatSetInduction
<1>6. QED
  BY <1>1, <1>2, <1>5 DEF S

-----------------------------------------------------------------------------
(***************************************************************************)
(* FlattenSeq puts sequences one after another.                            *)
(***************************************************************************)
IsFlattening(flatten, seqs, n) ==
  flatten = [i \in 1 .. n |-> IF i = 1 THEN seqs[i] ELSE flatten[i - 1] \o seqs[i]]

\* The recursion of FlattenSeq has a solution.
LEMMA FlatteningExists ==
  ASSUME NEW seqs
  PROVE  \A n \in Nat : \E flatten : IsFlattening(flatten, seqs, n)
<1> DEFINE S == {n \in Nat : \E flatten : IsFlattening(flatten, seqs, n)}
<1>1. 0 \in S
  <2> DEFINE f == [i \in 1 .. 0 |-> seqs[i]]
  <2>1. IsFlattening(f, seqs, 0)
    BY DEF IsFlattening
  <2>2. QED
    BY <2>1
<1>2. ASSUME NEW n \in Nat, n \in S PROVE n + 1 \in S
  <2>1. PICK f : IsFlattening(f, seqs, n)
    BY <1>2
  <2> DEFINE g == [i \in 1 .. n + 1 |-> IF i <= n THEN f[i]
                                        ELSE IF i = 1 THEN seqs[i] ELSE f[i - 1] \o seqs[i]]
             h == [i \in 1 .. n + 1 |-> IF i = 1 THEN seqs[i] ELSE g[i - 1] \o seqs[i]]
  <2>2. ASSUME NEW i \in 1 .. n + 1 PROVE g[i] = h[i]
    <3>1. CASE i = n + 1
      BY <3>1
    <3>2. CASE i \in 1 .. n
      <4>1. f[i] = IF i = 1 THEN seqs[i] ELSE f[i - 1] \o seqs[i]
        BY <2>1, <3>2 DEF IsFlattening
      <4>2. g[i] = f[i] /\ (i # 1 => g[i - 1] = f[i - 1])
        BY <3>2
      <4>3. QED
        BY <3>2, <4>1, <4>2
    <3>3. QED
      BY <3>1, <3>2
  <2>3. g = h
    BY <2>2
  <2>4. IsFlattening(g, seqs, n + 1)
    BY <2>3 DEF IsFlattening
  <2>5. QED
    BY <2>4
<1> HIDE DEF S
<1>3. \A n \in Nat : n \in S
  BY <1>1, <1>2, NatSetInduction
<1>4. QED
  BY <1>3 DEF S

LEMMA FlatteningStep ==
  ASSUME NEW f, NEW seqs, NEW n \in Nat, IsFlattening(f, seqs, n), NEW i \in Nat \ {0}, i + 1 <= n
  PROVE  f[i + 1] = f[i] \o seqs[i + 1]
<1> DEFINE e(j) == IF j = 1 THEN seqs[j] ELSE f[j - 1] \o seqs[j]
<1>1. f = [j \in 1 .. n |-> e(j)]
  BY DEF IsFlattening
<1>2. e(i + 1) = f[i] \o seqs[i + 1]
  <2>1. (i + 1) - 1 = i /\ i + 1 # 1
    OBVIOUS
  <2>2. QED
    BY <2>1, Zenon
<1> HIDE DEF e
<1>3. i + 1 \in 1 .. n
  OBVIOUS
<1>4. f[i + 1] = e(i + 1)
  BY <1>1, <1>3, Zenon
<1>5. QED
  BY <1>2, <1>4

LEMMA FlatteningFirst ==
  ASSUME NEW f, NEW seqs, NEW n \in Nat \ {0}, IsFlattening(f, seqs, n)
  PROVE  f[1] = seqs[1]
<1> DEFINE e(j) == IF j = 1 THEN seqs[j] ELSE f[j - 1] \o seqs[j]
<1>1. f = [j \in 1 .. n |-> e(j)]
  BY DEF IsFlattening
<1>2. e(1) = seqs[1]
  BY Zenon
<1> HIDE DEF e
<1>3. 1 \in 1 .. n
  OBVIOUS
<1>4. QED
  BY <1>1, <1>2, <1>3, Zenon

LEMMA FlattenIsFlattening ==
  ASSUME NEW seqs, Len(seqs) \in Nat \ {0}
  PROVE  \E flatten : /\ IsFlattening(flatten, seqs, Len(seqs))
                      /\ FlattenSeq(seqs) = flatten[Len(seqs)]
<1> DEFINE flatten == CHOOSE f : IsFlattening(f, seqs, Len(seqs))
<1>1. IsFlattening(flatten, seqs, Len(seqs))
  BY FlatteningExists
<1>2. FlattenSeq(seqs) = flatten[Len(seqs)]
  BY DEF FlattenSeq, IsFlattening
<1> HIDE DEF flatten
<1>3. QED
  BY <1>1, <1>2

LEMMA FlattenEmpty == FlattenSeq(<<>>) = <<>>
  BY DEF FlattenSeq

\* Sequences that agree are flattened alike.
LEMMA FlatteningAgrees ==
  ASSUME NEW f, NEW fs, NEW g, NEW gs, NEW m \in Nat, NEW n \in Nat, n <= m,
         IsFlattening(f, fs, n), IsFlattening(g, gs, m), \A i \in 1 .. n : gs[i] = fs[i]
  PROVE  \A i \in 1 .. n : g[i] = f[i]
<1> DEFINE S == {i \in Nat : i \in 1 .. n => g[i] = f[i]}
<1>1. 0 \in S
  OBVIOUS
<1>2. ASSUME NEW i \in Nat, i \in S PROVE i + 1 \in S
  <2> SUFFICES ASSUME i + 1 <= n PROVE g[i + 1] = f[i + 1]
    OBVIOUS
  <2>1. gs[i + 1] = fs[i + 1]
    OBVIOUS
  <2>2. CASE i = 0
    <3>1. f[1] = fs[1] /\ g[1] = gs[1]
      BY <2>2, FlatteningFirst
    <3>2. QED
      BY <2>1, <2>2, <3>1
  <2>3. CASE i # 0
    <3>1. i \in Nat \ {0} /\ i + 1 <= m
      BY <2>3
    <3>2. f[i + 1] = f[i] \o fs[i + 1]
      BY <3>1, FlatteningStep, Zenon
    <3>3. g[i + 1] = g[i] \o gs[i + 1]
      BY <3>1, FlatteningStep, Zenon
    <3>4. g[i] = f[i]
      BY <1>2, <2>3
    <3>5. QED
      BY <2>1, <3>2, <3>3, <3>4, Zenon
  <2>4. QED
    BY <2>2, <2>3
<1> HIDE DEF S
<1>3. \A i \in Nat : i \in S
  BY <1>1, <1>2, NatSetInduction
<1>4. QED
  BY <1>3 DEF S

\* One more sequence at the end.
LEMMA FlattenAppend ==
  ASSUME NEW fs \in Seq(Seq(Byte)), NEW q \in Seq(Byte)
  PROVE  FlattenSeq(Append(fs, q)) = FlattenSeq(fs) \o q
<1>1. PICK n \in Nat : n = Len(fs)
  BY LenProperties
<1>2. PICK gs : gs = Append(fs, q)
  OBVIOUS
<1>3. Len(gs) = n + 1 /\ gs[n + 1] = q /\ \A i \in 1 .. n : gs[i] = fs[i]
  BY <1>1, <1>2, AppendProperties
<1>4. PICK g : IsFlattening(g, gs, n + 1) /\ FlattenSeq(gs) = g[n + 1]
  BY <1>3, FlattenIsFlattening
<1>5. CASE n = 0
  <2>1. fs = <<>>
    BY <1>1, <1>5, EmptySeq
  <2>2. g[1] = q
    BY <1>3, <1>4, <1>5 DEF IsFlattening
  <2>3. <<>> \o q = q
    BY ConcatEmptySeq
  <2>4. QED
    BY <1>2, <1>4, <1>5, <2>1, <2>2, <2>3, FlattenEmpty
<1>6. CASE n # 0
  <2>1. PICK f : IsFlattening(f, fs, n) /\ FlattenSeq(fs) = f[n]
    BY <1>1, <1>6, FlattenIsFlattening
  <2>2. g[n] = f[n]
    BY <1>3, <1>4, <1>6, <2>1, FlatteningAgrees
  <2>3. g[n + 1] = g[n] \o gs[n + 1]
    <3>1. n \in Nat \ {0} /\ n + 1 \in Nat /\ n + 1 <= n + 1
      BY <1>6
    <3>2. QED
      BY <1>4, <3>1, FlatteningStep, Zenon
  <2>4. QED
    BY <1>2, <1>3, <1>4, <2>1, <2>2, <2>3, Zenon
<1>7. QED
  BY <1>5, <1>6

LEMMA BytesAssociative ==
  \A s, t, u \in Seq(Byte) : (s \o t) \o u = s \o (t \o u)
  BY ConcatAssociative

LEMMA FlattenType ==
  \A fs \in Seq(Seq(Byte)) : FlattenSeq(fs) \in Seq(Byte)
<1> DEFINE T == {fs \in Seq(Seq(Byte)) : FlattenSeq(fs) \in Seq(Byte)}
<1>1. <<>> \in T
  BY FlattenEmpty, EmptySeq
<1>2. ASSUME NEW fs \in Seq(Seq(Byte)), NEW q \in Seq(Byte), fs \in T
      PROVE  Append(fs, q) \in T
  BY <1>2, FlattenAppend, AppendProperties, ConcatProperties
<1> HIDE DEF T
<1>3. \A fs \in Seq(Seq(Byte)) : fs \in T
  BY <1>1, <1>2, SeqSetInduction
<1>4. QED
  BY <1>3 DEF T

\* Flattening goes over concatenation.
LEMMA FlattenConcat ==
  ASSUME NEW fs \in Seq(Seq(Byte))
  PROVE  \A gs \in Seq(Seq(Byte)) : FlattenSeq(fs \o gs) = FlattenSeq(fs) \o FlattenSeq(gs)
<1> DEFINE T == {gs \in Seq(Seq(Byte)) :
                   FlattenSeq(fs \o gs) = FlattenSeq(fs) \o FlattenSeq(gs)}
<1>1. <<>> \in T
  BY FlattenEmpty, FlattenType, EmptySeq, ConcatEmptySeq
<1>2. ASSUME NEW gs \in Seq(Seq(Byte)), NEW q \in Seq(Byte), gs \in T
      PROVE  Append(gs, q) \in T
  <2>1. fs \o gs \in Seq(Seq(Byte))
    BY ConcatProperties
  <2>2. fs \o Append(gs, q) = Append(fs \o gs, q)
    <3>1. <<q>> \in Seq(Seq(Byte))
      OBVIOUS
    <3>2. Append(gs, q) = gs \o <<q>> /\ Append(fs \o gs, q) = (fs \o gs) \o <<q>>
      BY <2>1, AppendIsConcat
    <3>3. QED
      BY <3>1, <3>2, ConcatAssociative
  <2>3. FlattenSeq(Append(fs \o gs, q)) = FlattenSeq(fs \o gs) \o q
    BY <2>1, FlattenAppend
  <2>4. FlattenSeq(fs \o gs) = FlattenSeq(fs) \o FlattenSeq(gs)
    BY <1>2
  <2>5. (FlattenSeq(fs) \o FlattenSeq(gs)) \o q = FlattenSeq(fs) \o (FlattenSeq(gs) \o q)
    BY FlattenType, BytesAssociative, Zenon
  <2>6. FlattenSeq(Append(gs, q)) = FlattenSeq(gs) \o q
    BY FlattenAppend
  <2>7. QED
    BY <2>2, <2>3, <2>4, <2>5, <2>6, AppendProperties
<1> HIDE DEF T
<1>3. \A gs \in Seq(Seq(Byte)) : gs \in T
  BY <1>1, <1>2, SeqSetInduction
<1>4. QED
  BY <1>3 DEF T

\* One sequence before the others.
LEMMA FlattenCons ==
  ASSUME NEW q \in Seq(Byte), NEW fs \in Seq(Seq(Byte))
  PROVE  FlattenSeq(<<q>> \o fs) = q \o FlattenSeq(fs)
<1>1. <<>> \in Seq(Seq(Byte)) /\ <<q>> \in Seq(Seq(Byte)) /\ Append(<<>>, q) = <<q>>
  OBVIOUS
<1>2. FlattenSeq(<<q>>) = q
  <2>1. FlattenSeq(Append(<<>>, q)) = FlattenSeq(<<>>) \o q
    BY <1>1, FlattenAppend
  <2>2. <<>> \o q = q
    BY ConcatEmptySeq
  <2>3. QED
    BY <1>1, <2>1, <2>2, FlattenEmpty
<1>3. QED
  BY <1>1, <1>2, FlattenConcat

-----------------------------------------------------------------------------
(***************************************************************************)
(* Frames are a prefix code: no frame begins another.                      *)
(***************************************************************************)

\* A length ends in one place.
LEMMA OneEnd ==
  ASSUME NEW p, NEW m \in PrefixEnds(p), NEW n \in PrefixEnds(p)
  PROVE  m = n
  BY FrameAssumption DEF PrefixEnds

\* What is the first bytes' length stays it, whatever follows.
LEMMA EndStays ==
  ASSUME NEW p \in Seq(Byte), NEW q \in Seq(Byte), Len(p) <= Len(q),
         \A i \in 1 .. Len(p) : p[i] = q[i], NEW n \in PrefixEnds(p)
  PROVE  n \in PrefixEnds(q) /\ Size(p, n) = Size(q, n) /\ Size(p, n) \in Nat
<1>1. n \in 1 .. MaxPrefix /\ n <= Len(p) /\ Len(p) \in Nat /\ Len(q) \in Nat /\ n \in Nat
  BY FrameAssumption, LenProperties DEF PrefixEnds
<1>2. \A i \in 1 .. n : p[i] = q[i]
  BY <1>1
<1>3. n \in PrefixEnds(q)
  BY <1>1, <1>2 DEF PrefixEnds
<1>4. Size(p, n) = Size(q, n) /\ Size(p, n) \in Nat
  BY <1>1, <1>2, SizeAgrees
<1>5. QED
  BY <1>3, <1>4

\* A frame by its length, as Absorb finds it.
LEMMA FrameByEnd ==
  ASSUME NEW f \in Seq(Byte)
  PROVE  IsFrame(f) <=>
           \E n \in PrefixEnds(f) : n < Len(f) /\ Len(f) <= MaxFrame /\ Len(f) = Total(f, n)
<1>1. Len(f) \in Nat
  BY LenProperties
<1>2. ASSUME IsFrame(f)
      PROVE  \E n \in PrefixEnds(f) :
               n < Len(f) /\ Len(f) <= MaxFrame /\ Len(f) = Total(f, n)
  <2>1. PICK n \in 1 .. MaxPrefix :
          /\ n < Len(f) /\ Len(f) <= MaxFrame
          /\ \A i \in 1 .. n : Marked(f[i]) <=> i < n
          /\ Len(f) - n = Size(f, n) \div 2
    BY <1>2 DEF IsFrame
  <2>2. n \in PrefixEnds(f)
    BY <1>1, <2>1, FrameAssumption DEF PrefixEnds
  <2>3. n \in Nat /\ Size(f, n) \in Nat
    BY <2>2, EndStays, FrameAssumption
  <2>4. Len(f) = Total(f, n)
    BY <1>1, <2>1, <2>3 DEF Total
  <2>5. QED
    BY <2>1, <2>2, <2>4
<1>3. ASSUME NEW n \in PrefixEnds(f), n < Len(f), Len(f) <= MaxFrame, Len(f) = Total(f, n)
      PROVE  IsFrame(f)
  <2>1. n \in 1 .. MaxPrefix /\ \A i \in 1 .. n : Marked(f[i]) <=> i < n
    BY FrameAssumption DEF PrefixEnds
  <2>2. n \in Nat /\ Size(f, n) \in Nat
    BY <2>1, EndStays, FrameAssumption
  <2>3. Len(f) - n = Size(f, n) \div 2
    BY <1>1, <1>3, <2>2 DEF Total
  <2>4. QED
    BY <1>3, <2>1, <2>3 DEF IsFrame
<1>4. QED
  BY <1>2, <1>3

LEMMA PrefixCode ==
  ASSUME NEW f \in Seq(Byte), NEW g \in Seq(Byte), IsFrame(f), IsFrame(g),
         Len(f) <= Len(g), \A i \in 1 .. Len(f) : f[i] = g[i]
  PROVE  f = g
<1>1. PICK n \in PrefixEnds(f) : Len(f) = Total(f, n)
  BY FrameByEnd
<1>2. PICK m \in PrefixEnds(g) : Len(g) = Total(g, m)
  BY FrameByEnd
<1>3. n \in PrefixEnds(g) /\ Size(f, n) = Size(g, n)
  BY EndStays
<1>4. m = n
  BY <1>2, <1>3, OneEnd
<1>5. Len(f) = Len(g)
  BY <1>1, <1>2, <1>3, <1>4 DEF Total
<1>6. QED
  BY <1>5, SeqEqual

-----------------------------------------------------------------------------
(***************************************************************************)
(* Cut, by what it returns: s is the frames fs and then r, which does not  *)
(* begin with a frame.                                                     *)
(***************************************************************************)
Partial(r) == \A j \in 1 .. Len(r) : ~ IsFrame(SubSeq(r, 1, j))

IsCut(s, fs, r) ==
  /\ s = FlattenSeq(fs) \o r
  /\ \A k \in 1 .. Len(fs) : IsFrame(fs[k])
  /\ Partial(r)

LEMMA EmptyCut == Partial(<<>>) /\ IsCut(<<>>, <<>>, <<>>)
<1>1. Len(<<>>) = 0 /\ <<>> \o <<>> = <<>>
  BY EmptySeq, ConcatEmptySeq
<1>2. Partial(<<>>)
  BY <1>1 DEF Partial
<1>3. QED
  BY <1>1, <1>2, FlattenEmpty DEF IsCut

\* One more byte ends a frame, or else follows what was left.
LEMMA CutAppend ==
  ASSUME NEW s \in Seq(Byte), NEW fs \in Seq(Seq(Byte)), NEW r \in Seq(Byte),
         IsCut(s, fs, r), NEW b \in Byte
  PROVE  /\ IsFrame(Append(r, b)) => IsCut(Append(s, b), Append(fs, Append(r, b)), <<>>)
         /\ ~ IsFrame(Append(r, b)) => IsCut(Append(s, b), fs, Append(r, b))
<1>1. PICK p : p = Append(r, b)
  OBVIOUS
<1>2. /\ p \in Seq(Byte) /\ Len(p) = Len(r) + 1 /\ Len(r) \in Nat
      /\ p = r \o <<b>> /\ <<b>> \in Seq(Byte)
  BY <1>1, AppendProperties, AppendIsConcat, LenProperties
<1>3. Append(s, b) = FlattenSeq(fs) \o p
  <2>1. Append(s, b) = s \o <<b>>
    BY AppendIsConcat
  <2>2. s = FlattenSeq(fs) \o r
    BY DEF IsCut
  <2>3. (FlattenSeq(fs) \o r) \o <<b>> = FlattenSeq(fs) \o (r \o <<b>>)
    BY <1>2, FlattenType, ConcatAssociative
  <2>4. QED
    BY <1>2, <2>1, <2>2, <2>3, Zenon
<1>4. ASSUME IsFrame(p) PROVE IsCut(Append(s, b), Append(fs, p), <<>>)
  <2>1. FlattenSeq(Append(fs, p)) = FlattenSeq(fs) \o p
    BY <1>2, FlattenAppend
  <2>2. FlattenSeq(fs) \o p \in Seq(Byte)
    BY <1>2, FlattenType, ConcatProperties
  <2>3. (FlattenSeq(fs) \o p) \o <<>> = FlattenSeq(fs) \o p
    BY <2>2, ConcatEmptySeq
  <2>4. Append(s, b) = FlattenSeq(Append(fs, p)) \o <<>>
    BY <1>3, <2>1, <2>3, Zenon
  <2>5. ASSUME NEW k \in 1 .. Len(Append(fs, p)) PROVE IsFrame(Append(fs, p)[k])
    <3>1. /\ Len(Append(fs, p)) = Len(fs) + 1 /\ Len(fs) \in Nat
          /\ \A i \in 1 .. Len(fs) : Append(fs, p)[i] = fs[i]
          /\ Append(fs, p)[Len(fs) + 1] = p
      BY <1>2, AppendProperties, LenProperties
    <3>2. k \in 1 .. Len(fs) \/ k = Len(fs) + 1
      BY <3>1
    <3>3. QED
      BY <1>4, <3>1, <3>2 DEF IsCut
  <2>6. QED
    BY <2>4, <2>5, EmptyCut DEF IsCut
<1>5. ASSUME ~ IsFrame(p) PROVE IsCut(Append(s, b), fs, p)
  <2>1. ASSUME NEW j \in 1 .. Len(p) PROVE ~ IsFrame(SubSeq(p, 1, j))
    <3>1. CASE j = Len(p)
      BY <1>2, <1>5, <3>1, SubSeqFull
    <3>2. CASE j # Len(p)
      <4>1. j \in 1 .. Len(r) /\ 1 \in 1 .. Len(r)
        BY <1>2, <3>2
      <4>2. SubSeq(p, 1, j) = SubSeq(r, 1, j)
        BY <1>2, <4>1, SubSeqOfConcat1
      <4>3. QED
        BY <4>1, <4>2 DEF IsCut, Partial
    <3>3. QED
      BY <3>1, <3>2
  <2>2. QED
    BY <1>3, <2>1 DEF IsCut, Partial
<1>6. QED
  BY <1>1, <1>4, <1>5

\* Every stream is cut somehow.
LEMMA CutExists ==
  \A s \in Seq(Byte) : \E fs \in Seq(Seq(Byte)), r \in Seq(Byte) : IsCut(s, fs, r)
<1> DEFINE T == {s \in Seq(Byte) : \E fs \in Seq(Seq(Byte)), r \in Seq(Byte) : IsCut(s, fs, r)}
<1>1. <<>> \in T
  BY EmptyCut, EmptySeq
<1>2. ASSUME NEW s \in Seq(Byte), NEW b \in Byte, s \in T PROVE Append(s, b) \in T
  <2>1. PICK fs \in Seq(Seq(Byte)) : \E r \in Seq(Byte) : IsCut(s, fs, r)
    BY <1>2
  <2>2. PICK r \in Seq(Byte) : IsCut(s, fs, r)
    BY <2>1
  <2>3. /\ Append(s, b) \in Seq(Byte) /\ Append(r, b) \in Seq(Byte) /\ <<>> \in Seq(Byte)
        /\ Append(fs, Append(r, b)) \in Seq(Seq(Byte))
    BY AppendProperties, EmptySeq
  <2>4. QED
    BY <2>2, <2>3, CutAppend
<1> HIDE DEF T
<1>3. \A s \in Seq(Byte) : s \in T
  BY <1>1, <1>2, SeqSetInduction
<1>4. QED
  BY <1>3 DEF T

\* What follows a cut is cut as if it followed what was left alone.
LEMMA CutConcat ==
  ASSUME NEW s \in Seq(Byte), NEW fs \in Seq(Seq(Byte)), NEW r \in Seq(Byte), IsCut(s, fs, r),
         NEW data \in Seq(Byte), NEW gs \in Seq(Seq(Byte)), NEW q \in Seq(Byte),
         IsCut(r \o data, gs, q)
  PROVE  IsCut(s \o data, fs \o gs, q)
<1>1. s \o data = FlattenSeq(fs \o gs) \o q
  <2>1. s = FlattenSeq(fs) \o r /\ r \o data = FlattenSeq(gs) \o q
    BY DEF IsCut
  <2>2. FlattenSeq(fs) \in Seq(Byte) /\ FlattenSeq(gs) \in Seq(Byte)
    BY FlattenType
  <2>3. (FlattenSeq(fs) \o r) \o data = FlattenSeq(fs) \o (r \o data)
    <3>1. \A u \in Seq(Byte) : (u \o r) \o data = u \o (r \o data)
      BY BytesAssociative, Zenon
    <3>2. QED
      BY <2>2, <3>1, Zenon
  <2>4. FlattenSeq(fs) \o (FlattenSeq(gs) \o q) = (FlattenSeq(fs) \o FlattenSeq(gs)) \o q
    BY <2>2, BytesAssociative, Zenon
  <2>5. FlattenSeq(fs \o gs) = FlattenSeq(fs) \o FlattenSeq(gs)
    BY FlattenConcat
  <2>6. QED
    BY <2>1, <2>3, <2>4, <2>5, Zenon
<1>2. ASSUME NEW k \in 1 .. Len(fs \o gs) PROVE IsFrame((fs \o gs)[k])
  <2>1. /\ Len(fs \o gs) = Len(fs) + Len(gs) /\ Len(fs) \in Nat /\ Len(gs) \in Nat
        /\ (fs \o gs)[k] = IF k <= Len(fs) THEN fs[k] ELSE gs[k - Len(fs)]
    BY ConcatProperties, LenProperties
  <2>2. QED
    BY <2>1 DEF IsCut
<1>3. QED
  BY <1>1, <1>2 DEF IsCut

-----------------------------------------------------------------------------
(***************************************************************************)
(* The recursion of Cut, and what it returns.                              *)
(***************************************************************************)
Ends(s, i) == {j \in i .. Len(s) : IsFrame(SubSeq(s, i, j))}

CutFrom(from, s, i) ==
  IF Ends(s, i) = {} THEN <<>>
  ELSE LET j == CHOOSE j \in Ends(s, i) : TRUE IN <<SubSeq(s, i, j)>> \o from[j + 1]

IsCutting(from, s, first) == from = [i \in first .. Len(s) + 1 |-> CutFrom(from, s, i)]

\* CutFrom reads what is later than i.
LEMMA CutFromLater ==
  ASSUME NEW s, NEW i \in Nat, Len(s) \in Nat, NEW f, NEW g,
         \A j \in i + 1 .. Len(s) + 1 : f[j] = g[j]
  PROVE  CutFrom(f, s, i) = CutFrom(g, s, i)
<1>1. CASE Ends(s, i) = {}
  BY <1>1 DEF CutFrom
<1>2. CASE Ends(s, i) # {}
  <2>1. PICK j : j = CHOOSE k \in Ends(s, i) : TRUE
    OBVIOUS
  <2>2. j \in Ends(s, i)
    BY <1>2, <2>1
  <2>3. j + 1 \in i + 1 .. Len(s) + 1
    BY <2>2 DEF Ends
  <2>4. f[j + 1] = g[j + 1]
    BY <2>3
  <2>5. \A h : CutFrom(h, s, i) = <<SubSeq(s, i, j)>> \o h[j + 1]
    BY <1>2, <2>1, Zenon DEF CutFrom
  <2>6. QED
    BY <2>4, <2>5, Zenon
<1>3. QED
  BY <1>1, <1>2

\* The recursion of Cut has a solution.
LEMMA CuttingExists ==
  ASSUME NEW s, Len(s) \in Nat
  PROVE  \E from : IsCutting(from, s, 1)
<1>1. PICK n \in Nat : n = Len(s)
  OBVIOUS
<1> DEFINE S == {k \in Nat : k <= n => \E f : IsCutting(f, s, n + 1 - k)}
<1>2. 0 \in S
  <2> DEFINE f == [i \in n + 1 .. n + 1 |-> <<>>]
  <2>1. Ends(s, n + 1) = {}
    BY <1>1 DEF Ends
  <2>2. \A g : CutFrom(g, s, n + 1) = <<>>
    BY <2>1 DEF CutFrom
  <2>3. IsCutting(f, s, n + 1)
    BY <1>1, <2>2 DEF IsCutting
  <2>4. QED
    BY <2>3
<1>3. ASSUME NEW k \in Nat, k \in S PROVE k + 1 \in S
  <2> SUFFICES ASSUME k + 1 <= n PROVE \E f : IsCutting(f, s, n + 1 - (k + 1))
    OBVIOUS
  <2>1. PICK m \in Nat : m = n - k
    OBVIOUS
  <2>2. n + 1 - k = m + 1 /\ n + 1 - (k + 1) = m /\ m >= 1 /\ m <= n
    BY <2>1
  <2>3. PICK f : IsCutting(f, s, m + 1)
    BY <1>3, <2>2
  <2> DEFINE g == [i \in m .. n + 1 |-> IF i = m THEN CutFrom(f, s, m) ELSE f[i]]
             h == [i \in m .. n + 1 |-> CutFrom(g, s, i)]
  <2>4. \A i \in m + 1 .. n + 1 : f[i] = g[i]
    OBVIOUS
  <2>5. ASSUME NEW i \in m .. n + 1 PROVE g[i] = CutFrom(g, s, i)
    <3>1. \A j \in i + 1 .. Len(s) + 1 : f[j] = g[j]
      BY <1>1, <2>4
    <3> HIDE DEF g
    <3>2. i \in Nat
      BY <2>2
    <3>3. CutFrom(f, s, i) = CutFrom(g, s, i)
      BY <1>1, <3>1, <3>2, CutFromLater
    <3>4. CASE i = m
      BY <3>3, <3>4 DEF g
    <3>5. CASE i # m
      <4>1. f[i] = CutFrom(f, s, i)
        BY <1>1, <2>2, <2>3, <3>5 DEF IsCutting
      <4>2. QED
        BY <2>4, <3>3, <3>5, <4>1
    <3>6. QED
      BY <3>4, <3>5
  <2>6. g = h
    BY <2>5
  <2>7. IsCutting(g, s, m)
    BY <1>1, <2>6 DEF IsCutting
  <2>8. QED
    BY <2>2, <2>7
<1> HIDE DEF S
<1>4. n \in S
  BY <1>2, <1>3, NatSetInduction
<1>5. QED
  BY <1>4 DEF S

LEMMA CutIsCutting ==
  ASSUME NEW s, Len(s) \in Nat
  PROVE  \E from : IsCutting(from, s, 1) /\ Cut(s) = from[1]
<1> DEFINE from == CHOOSE f : IsCutting(f, s, 1)
<1>1. IsCutting(from, s, 1)
  BY CuttingExists
<1>2. Cut(s) = from[1]
  BY DEF Cut, IsCutting, CutFrom, Ends
<1> HIDE DEF from
<1>3. QED
  BY <1>1, <1>2

\* A part of a sequence, by its elements.
LEMMA PartType ==
  ASSUME NEW s \in Seq(Byte), NEW i \in Nat \ {0}, NEW j \in Nat, j <= Len(s)
  PROVE  /\ SubSeq(s, i, j) \in Seq(Byte)
         /\ Len(SubSeq(s, i, j)) = IF i <= j THEN j - i + 1 ELSE 0
         /\ \A k \in 1 .. j - i + 1 : SubSeq(s, i, j)[k] = s[i + k - 1]
<1>1. \A k \in i .. j : s[k] \in Byte
  BY LenProperties
<1>2. QED
  BY <1>1, SubSeqProperties

\* Where no frame begins.
LEMMA NoEnds ==
  ASSUME NEW s \in Seq(Byte), NEW i \in 1 .. Len(s) + 1, Partial(SubSeq(s, i, Len(s)))
  PROVE  Ends(s, i) = {}
<1> SUFFICES ASSUME NEW j \in Ends(s, i) PROVE FALSE
  OBVIOUS
<1>1. PICK r : r = SubSeq(s, i, Len(s))
  OBVIOUS
<1>2. PICK g : g = SubSeq(s, i, j)
  OBVIOUS
<1>3. Len(s) \in Nat /\ i \in Nat \ {0} /\ j \in Nat /\ i <= j /\ j <= Len(s) /\ IsFrame(g)
  BY <1>2, LenProperties DEF Ends
<1>4. /\ r \in Seq(Byte) /\ Len(r) = Len(s) - i + 1
      /\ \A k \in 1 .. Len(s) - i + 1 : r[k] = s[i + k - 1]
  BY <1>1, <1>3, PartType
<1>5. /\ g \in Seq(Byte) /\ Len(g) = j - i + 1
      /\ \A k \in 1 .. j - i + 1 : g[k] = s[i + k - 1]
  BY <1>2, <1>3, PartType
<1>6. PICK m \in Nat : m = j - i + 1
  BY <1>3
<1>7. m \in 1 .. Len(r)
  BY <1>3, <1>4, <1>6
<1>8. PICK h : h = SubSeq(r, 1, m)
  OBVIOUS
<1>9. h \in Seq(Byte) /\ Len(h) = m /\ \A k \in 1 .. m : h[k] = r[k]
  BY <1>4, <1>7, <1>8, PartType
<1>10. \A k \in 1 .. m : h[k] = g[k]
  BY <1>3, <1>4, <1>5, <1>6, <1>7, <1>9
<1>11. h = g
  BY <1>5, <1>6, <1>9, <1>10, SeqEqual
<1>12. QED
  BY <1>1, <1>3, <1>7, <1>8, <1>11 DEF Partial

\* From place i on, s is f and then t.
Begins(s, i, f, t) == SubSeq(s, i, Len(s)) = f \o t

\* Where f, and no other frame, ends.
EndsAt(s, i, f, t, j) ==
  Ends(s, i) = {j} /\ SubSeq(s, i, j) = f /\ SubSeq(s, j + 1, Len(s)) = t

\* Where a frame begins.
LEMMA OneFrame ==
  ASSUME NEW s \in Seq(Byte), NEW i \in 1 .. Len(s) + 1, NEW f \in Seq(Byte), IsFrame(f),
         NEW t \in Seq(Byte), Begins(s, i, f, t)
  PROVE  \E j \in i .. Len(s) : EndsAt(s, i, f, t, j)
<1>1. PICK j : j = i + Len(f) - 1
  OBVIOUS
<1>2. Len(f) \in Nat \ {0}
  BY LenProperties, FrameAssumption DEF IsFrame
<1>3. Len(s) \in Nat /\ Len(t) \in Nat /\ i \in Nat \ {0}
  BY LenProperties
<1>4. /\ Len(f \o t) = Len(f) + Len(t)
      /\ \A k \in 1 .. Len(f) + Len(t) :
           (f \o t)[k] = IF k <= Len(f) THEN f[k] ELSE t[k - Len(f)]
  BY ConcatProperties
<1>5. /\ Len(f) + Len(t) = Len(s) - i + 1
      /\ \A k \in 1 .. Len(s) - i + 1 : (f \o t)[k] = s[i + k - 1]
  <2>1. /\ Len(SubSeq(s, i, Len(s))) = Len(s) - i + 1
        /\ \A k \in 1 .. Len(s) - i + 1 : SubSeq(s, i, Len(s))[k] = s[i + k - 1]
    BY <1>3, PartType
  <2>2. SubSeq(s, i, Len(s)) = f \o t
    BY Zenon DEF Begins
  <2>3. Len(f) + Len(t) = Len(s) - i + 1
    BY <1>4, <2>1, <2>2
  <2>4. \A k \in 1 .. Len(s) - i + 1 : (f \o t)[k] = s[i + k - 1]
    BY <2>1, <2>2, Zenon
  <2>5. QED
    BY <2>3, <2>4
<1>6. j \in i .. Len(s) /\ j \in Nat /\ j + 1 \in Nat \ {0}
  BY <1>1, <1>2, <1>3, <1>5
<1>7. ASSUME NEW k \in 1 .. Len(f) PROVE f[k] = s[i + k - 1]
  <2>1. k \in 1 .. Len(f) + Len(t) /\ k \in 1 .. Len(s) - i + 1 /\ k <= Len(f)
    BY <1>2, <1>3, <1>5
  <2>2. (f \o t)[k] = f[k]
    BY <1>4, <2>1, Zenon
  <2>3. (f \o t)[k] = s[i + k - 1]
    BY <1>5, <2>1, Zenon
  <2>4. QED
    BY <2>2, <2>3, Zenon
<1>8. SubSeq(s, i, j) = f
  <2>1. PICK g : g = SubSeq(s, i, j)
    OBVIOUS
  <2>2. /\ g \in Seq(Byte) /\ Len(g) = j - i + 1
        /\ \A k \in 1 .. j - i + 1 : g[k] = s[i + k - 1]
    BY <1>3, <1>6, <2>1, PartType
  <2>3. j - i + 1 = Len(f)
    BY <1>1, <1>2, <1>3
  <2>4. \A k \in 1 .. Len(f) : g[k] = f[k]
    BY <1>7, <2>2, <2>3
  <2>5. QED
    BY <2>1, <2>2, <2>3, <2>4, SeqEqual
<1>9. SubSeq(s, j + 1, Len(s)) = t
  <2>1. PICK g : g = SubSeq(s, j + 1, Len(s))
    OBVIOUS
  <2>2. /\ g \in Seq(Byte) /\ Len(g) = Len(t)
        /\ \A k \in 1 .. Len(s) - (j + 1) + 1 : g[k] = s[(j + 1) + k - 1]
    BY <1>1, <1>2, <1>3, <1>5, <1>6, <2>1, PartType
  <2>3. ASSUME NEW k \in 1 .. Len(t) PROVE g[k] = t[k]
    <3>1. PICK m \in Nat : m = Len(f) + k
      BY <1>2
    <3>2. m \in 1 .. Len(f) + Len(t) /\ ~ (m <= Len(f)) /\ m - Len(f) = k
      BY <1>2, <1>3, <3>1
    <3>3. (f \o t)[m] = t[k] /\ (f \o t)[m] = s[i + m - 1]
      BY <1>4, <1>5, <3>2
    <3>4. (j + 1) + k - 1 = i + m - 1 /\ k \in 1 .. Len(s) - (j + 1) + 1
      BY <1>1, <1>2, <1>3, <1>5, <3>1
    <3>5. g[k] = s[(j + 1) + k - 1]
      BY <2>2, <3>4
    <3>6. QED
      BY <3>3, <3>4, <3>5
  <2>4. QED
    BY <2>1, <2>2, <2>3, SeqEqual
<1>10. j \in Ends(s, i)
  BY <1>6, <1>8 DEF Ends
<1>11. ASSUME NEW m \in Ends(s, i) PROVE m = j
  <2>1. PICK g : g = SubSeq(s, i, m)
    OBVIOUS
  <2>2. m \in Nat /\ i <= m /\ m <= Len(s) /\ IsFrame(g)
    BY <1>3, <2>1 DEF Ends
  <2>3. /\ g \in Seq(Byte) /\ Len(g) = m - i + 1
        /\ \A k \in 1 .. m - i + 1 : g[k] = s[i + k - 1]
    BY <1>3, <2>1, <2>2, PartType
  <2>4. \A k \in 1 .. Len(f) : k <= Len(g) => f[k] = g[k]
    BY <1>2, <1>3, <1>7, <2>2, <2>3
  <2>5. f = g
    <3>1. CASE Len(f) <= Len(g)
      <4>1. \A k \in 1 .. Len(f) : f[k] = g[k]
        BY <1>2, <1>3, <2>2, <2>3, <2>4, <3>1
      <4>2. QED
        BY <2>2, <2>3, <3>1, <4>1, PrefixCode
    <3>2. CASE Len(g) <= Len(f)
      <4>1. \A k \in 1 .. Len(g) : g[k] = f[k]
        BY <1>2, <1>3, <2>2, <2>3, <2>4, <3>2
      <4>2. QED
        BY <2>2, <2>3, <3>2, <4>1, PrefixCode
    <3>3. QED
      BY <1>2, <1>3, <2>2, <2>3, <3>1, <3>2
  <2>6. QED
    BY <1>1, <1>2, <1>3, <2>2, <2>3, <2>5
<1>12. QED
  <2>1. Ends(s, i) = {j}
    BY <1>10, <1>11
  <2>2. QED
    BY <1>6, <1>8, <1>9, <2>1 DEF EndsAt

(***************************************************************************)
(* A stream is cut in one way, and Cut finds it: whenever the stream is    *)
(* these frames and bytes that begin with no frame, these are its frames.  *)
(***************************************************************************)
THEOREM CutIs ==
  ASSUME NEW s \in Seq(Byte), NEW fs \in Seq(Seq(Byte)), NEW r \in Seq(Byte), IsCut(s, fs, r)
  PROVE  Cut(s) = fs
<1>1. Len(s) \in Nat
  BY LenProperties
<1>2. PICK from : IsCutting(from, s, 1) /\ Cut(s) = from[1]
  BY <1>1, CutIsCutting
<1>3. \A i \in 1 .. Len(s) + 1 : from[i] = CutFrom(from, s, i)
  BY <1>2 DEF IsCutting
<1> DEFINE Rest(i, gs) == /\ SubSeq(s, i, Len(s)) = FlattenSeq(gs) \o r
                          /\ \A k \in 1 .. Len(gs) : IsFrame(gs[k])
           N == {n \in Nat : \A gs \in Seq(Seq(Byte)), i \in 1 .. Len(s) + 1 :
                               Len(gs) = n /\ Rest(i, gs) => from[i] = gs}
<1>4. 0 \in N
  <2> SUFFICES ASSUME NEW gs \in Seq(Seq(Byte)), NEW i \in 1 .. Len(s) + 1,
                      Len(gs) = 0, Rest(i, gs)
               PROVE  from[i] = gs
    OBVIOUS
  <2>1. gs = <<>>
    BY EmptySeq
  <2>2. SubSeq(s, i, Len(s)) = r
    BY <2>1, FlattenEmpty, ConcatEmptySeq
  <2>3. Ends(s, i) = {}
    BY <2>2, NoEnds DEF IsCut
  <2>4. QED
    BY <1>3, <2>1, <2>3 DEF CutFrom
<1>5. ASSUME NEW n \in Nat, n \in N PROVE n + 1 \in N
  <2> HIDE DEF Rest
  <2> SUFFICES ASSUME NEW gs \in Seq(Seq(Byte)), NEW i \in 1 .. Len(s) + 1,
                      Len(gs) = n + 1, Rest(i, gs)
               PROVE  from[i] = gs
    OBVIOUS
  <2> USE DEF Rest
  <2>1. PICK f : f = Head(gs)
    OBVIOUS
  <2>2. PICK hs : hs = Tail(gs)
    OBVIOUS
  <2>3. gs # <<>>
    BY EmptySeq
  <2>4. /\ f \in Seq(Byte) /\ hs \in Seq(Seq(Byte)) /\ Len(hs) = n /\ f = gs[1]
        /\ \A k \in 1 .. n : hs[k] = gs[k + 1]
    BY <2>1, <2>2, <2>3, HeadTailProperties
  <2>5. gs = <<f>> \o hs
    <3>1. <<f>> \in Seq(Seq(Byte)) /\ Len(<<f>>) = 1 /\ <<f>>[1] = f
      BY <2>4
    <3>2. /\ <<f>> \o hs \in Seq(Seq(Byte)) /\ Len(<<f>> \o hs) = n + 1
          /\ \A k \in 1 .. n + 1 :
               (<<f>> \o hs)[k] = IF k <= 1 THEN <<f>>[k] ELSE hs[k - 1]
      BY <2>4, <3>1, ConcatProperties
    <3>3. \A k \in 1 .. n + 1 : gs[k] = (<<f>> \o hs)[k]
      BY <2>4, <3>1, <3>2
    <3>4. QED
      BY <3>2, <3>3, SeqEqual
  <2>6. PICK t : t = FlattenSeq(hs) \o r
    OBVIOUS
  <2>7. t \in Seq(Byte)
    BY <2>4, <2>6, FlattenType, ConcatProperties
  <2>8. Begins(s, i, f, t)
    <3>1. FlattenSeq(gs) = f \o FlattenSeq(hs)
      BY <2>4, <2>5, FlattenCons
    <3>2. FlattenSeq(hs) \in Seq(Byte)
      BY <2>4, FlattenType
    <3>3. (f \o FlattenSeq(hs)) \o r = f \o (FlattenSeq(hs) \o r)
      BY <2>4, <3>2, BytesAssociative, Zenon
    <3>4. SubSeq(s, i, Len(s)) = FlattenSeq(gs) \o r
      OBVIOUS
    <3>5. QED
      BY <2>6, <3>1, <3>3, <3>4, Zenon DEF Begins
  <2>9. IsFrame(f)
    BY <2>4
  <2>10. f \in Seq(Byte)
    BY <2>4
  <2>11. PICK j \in i .. Len(s) : EndsAt(s, i, f, t, j)
    <3> HIDE DEF Rest, N
    <3>1. QED
      BY <2>7, <2>8, <2>9, <2>10, OneFrame
  <2>12. Ends(s, i) = {j} /\ SubSeq(s, i, j) = f /\ SubSeq(s, j + 1, Len(s)) = t
    BY <2>11, Zenon DEF EndsAt
  <2>13. from[j + 1] = hs
    <3>1. j + 1 \in 1 .. Len(s) + 1
      BY <1>1
    <3>2. SubSeq(s, j + 1, Len(s)) = FlattenSeq(hs) \o r
      BY <2>6, <2>12, Zenon
    <3>3. \A k \in 1 .. Len(hs) : IsFrame(hs[k])
      BY <2>4
    <3>4. Rest(j + 1, hs)
      BY <3>2, <3>3
    <3> HIDE DEF Rest
    <3>5. QED
      BY <1>5, <2>4, <3>1, <3>4
  <2>14. from[i] = <<f>> \o from[j + 1]
    <3>1. j = CHOOSE k \in Ends(s, i) : TRUE
      BY <2>12
    <3>2. from[i] = CutFrom(from, s, i) /\ Ends(s, i) # {}
      BY <1>3, <2>12
    <3>3. CutFrom(from, s, i) = <<SubSeq(s, i, j)>> \o from[j + 1]
      BY <3>1, <3>2, Zenon DEF CutFrom
    <3>4. QED
      BY <2>12, <3>2, <3>3, Zenon
  <2>15. QED
    BY <2>5, <2>13, <2>14, Zenon
<1>6. Rest(1, fs)
  <2>1. SubSeq(s, 1, Len(s)) = s
    BY SubSeqFull
  <2>2. QED
    BY <2>1, Zenon DEF IsCut
<1> HIDE DEF N, Rest
<1>7. \A n \in Nat : n \in N
  BY <1>4, <1>5, NatSetInduction
<1>8. Len(fs) \in Nat /\ 1 \in 1 .. Len(s) + 1
  BY <1>1, LenProperties
<1>9. from[1] = fs
  BY <1>6, <1>7, <1>8 DEF N
<1>10. QED
  BY <1>2, <1>9

-----------------------------------------------------------------------------
(***************************************************************************)
(* Absorb ends a frame, waits for its rest, or knows that there is none.   *)
(***************************************************************************)

\* Too many marked bytes: a length without end.
LEMMA EndlessIsHopeless ==
  ASSUME NEW p \in Seq(Byte), PrefixEnds(p) = {}, Len(p) >= MaxPrefix
  PROVE  Hopeless(p)
<1> SUFFICES ASSUME \E i \in 1 .. MaxPrefix : ~ Marked(p[i]) PROVE FALSE
  BY DEF Hopeless
<1> DEFINE T == {i \in 1 .. MaxPrefix : ~ Marked(p[i])}
<1>1. T \in SUBSET Nat /\ T # {}
  BY FrameAssumption
<1>2. PICK m \in T : \A k \in T : m <= k
  BY <1>1, Least
<1>3. \A i \in 1 .. m - 1 : Marked(p[i])
  BY <1>2, FrameAssumption
<1>4. m \in PrefixEnds(p)
  BY <1>2, <1>3, FrameAssumption, LenProperties DEF PrefixEnds
<1>5. QED
  BY <1>4

\* No byte makes a hopeless beginning a frame.
LEMMA HopelessStays ==
  ASSUME NEW r \in Seq(Byte), NEW b \in Byte, Hopeless(r)
  PROVE  Hopeless(Append(r, b))
<1>1. PICK p : p = Append(r, b)
  OBVIOUS
<1>2. p \in Seq(Byte) /\ Len(p) = Len(r) + 1 /\ Len(r) \in Nat /\ \A i \in 1 .. Len(r) : p[i] = r[i]
  BY <1>1, AppendProperties, LenProperties
<1>3. CASE Len(r) >= MaxPrefix /\ \A i \in 1 .. MaxPrefix : Marked(r[i])
  <2>1. Len(p) >= MaxPrefix /\ \A i \in 1 .. MaxPrefix : Marked(p[i])
    BY <1>2, <1>3, FrameAssumption
  <2>2. QED
    BY <1>1, <2>1 DEF Hopeless
<1>4. ASSUME NEW n \in PrefixEnds(r), Size(r, n) < 2 \/ n + Size(r, n) \div 2 > MaxFrame
      PROVE  Hopeless(p)
  <2>1. n \in PrefixEnds(p) /\ Size(r, n) = Size(p, n)
    BY <1>2, EndStays
  <2>2. QED
    BY <1>4, <2>1 DEF Hopeless
<1>5. QED
  BY <1>1, <1>3, <1>4 DEF Hopeless

LEMMA EmptyIsOpen == ~ Hopeless(<<>>)
<1>1. Len(<<>>) = 0 /\ PrefixEnds(<<>>) = {}
  BY EmptySeq DEF PrefixEnds
<1>2. QED
  BY <1>1, FrameAssumption DEF Hopeless

\* The byte makes p of what was pending, and the buffer a.
Outcome(buffer, p, a) ==
  \/ a.bad /\ a.pending = p /\ Hopeless(p)
  \/ /\ ~ a.bad /\ a.pending = p /\ a.frames = buffer.frames
     /\ ~ Hopeless(p) /\ ~ IsFrame(p)
  \/ /\ ~ a.bad /\ a.pending = <<>> /\ a.frames = Append(buffer.frames, p)
     /\ ~ Hopeless(p) /\ IsFrame(p)

LEMMA AbsorbOutcome ==
  ASSUME NEW buffer \in Buffer, ~ buffer.bad, NEW b \in Byte,
         NEW p, p = Append(buffer.pending, b), NEW a, a = Absorb(buffer, b)
  PROVE  Outcome(buffer, p, a)
<1> USE DEF Outcome
<1>1. p \in Seq(Byte) /\ Len(p) \in Nat
  BY AppendProperties, LenProperties DEF Buffer
<1>2. CASE PrefixEnds(p) = {}
  <2>1. ~ IsFrame(p)
    BY <1>1, <1>2, FrameByEnd
  <2>2. a = [buffer EXCEPT !.pending = p, !.bad = Len(p) >= MaxPrefix]
    BY <1>2, Zenon DEF Absorb
  <2>3. \A e \in BOOLEAN :
          LET c == [buffer EXCEPT !.pending = p, !.bad = e] IN
          c.pending = p /\ c.frames = buffer.frames /\ (c.bad <=> e)
    BY DEF Buffer
  <2>4. CASE Len(p) >= MaxPrefix
    <3>1. a = [buffer EXCEPT !.pending = p, !.bad = TRUE]
      BY <2>2, <2>4, Zenon
    <3>2. Hopeless(p)
      BY <1>1, <1>2, <2>4, EndlessIsHopeless
    <3>3. QED
      BY <2>3, <3>1, <3>2
  <2>5. CASE ~ (Len(p) >= MaxPrefix)
    <3>1. a = [buffer EXCEPT !.pending = p, !.bad = FALSE]
      <4>1. (Len(p) >= MaxPrefix) = FALSE
        BY <2>5
      <4>2. QED
        BY <2>2, <4>1, Zenon
    <3>2. ~ Hopeless(p)
      BY <1>2, <2>5 DEF Hopeless
    <3>3. QED
      BY <2>1, <2>3, <3>1, <3>2
  <2>6. QED
    BY <2>4, <2>5
<1>3. CASE PrefixEnds(p) # {}
  <2>1. PICK n : n = CHOOSE m \in PrefixEnds(p) : TRUE
    OBVIOUS
  <2>2. n \in PrefixEnds(p)
    BY <1>3, <2>1
  <2>3. \A m \in PrefixEnds(p) : m = n
    BY <2>2, OneEnd
  <2>4. PICK size : size = Size(p, n)
    OBVIOUS
  <2>5. n \in Nat /\ size \in Nat /\ n \in 1 .. MaxPrefix /\ ~ Marked(p[n])
    <3>1. n \in 1 .. MaxPrefix /\ n \in Nat /\ n <= Len(p) /\ ~ Marked(p[n])
      BY <2>2, FrameAssumption DEF PrefixEnds
    <3>2. Size(p, n) \in Nat
      BY <1>1, <3>1, SizeAgrees
    <3>3. QED
      BY <2>4, <3>1, <3>2
  <2>6. PICK total : total = n + size \div 2
    OBVIOUS
  <2>7. total \in Nat /\ total >= n /\ (total = n <=> size < 2)
    BY <2>5, <2>6
  <2>8. total = Total(p, n)
    BY <2>4, <2>6 DEF Total
  <2>9. Hopeless(p) <=> size < 2 \/ total > MaxFrame
    <3>1. ~ (\A i \in 1 .. MaxPrefix : Marked(p[i]))
      BY <2>5
    <3>2. QED
      BY <2>2, <2>3, <2>4, <2>6, <3>1 DEF Hopeless
  <2>10. IsFrame(p) <=> n < Len(p) /\ Len(p) <= MaxFrame /\ Len(p) = total
    BY <1>1, <2>2, <2>3, <2>8, FrameByEnd
  <2>11. a = IF total \in PrefixEnds(p) \/ total > MaxFrame
             THEN [buffer EXCEPT !.pending = p, !.bad = TRUE]
             ELSE IF Len(p) = total
                  THEN [buffer EXCEPT !.pending = <<>>, !.frames = Append(@, p)]
                  ELSE [buffer EXCEPT !.pending = p]
    BY <1>3, <2>1, <2>8, Zenon DEF Absorb
  <2>12. total \in PrefixEnds(p) <=> size < 2
    BY <2>2, <2>3, <2>7
  <2>13. CASE Hopeless(p)
    <3>1. a = [buffer EXCEPT !.pending = p, !.bad = TRUE]
      BY <2>9, <2>11, <2>12, <2>13
    <3>2. a.bad /\ a.pending = p
      BY <3>1 DEF Buffer
    <3>3. QED
      BY <2>13, <3>2
  <2>14. CASE ~ Hopeless(p) /\ Len(p) = total
    <3>1. IsFrame(p)
      <4>1. n < total /\ total <= MaxFrame
        BY <2>5, <2>7, <2>9, <2>14, FrameAssumption
      <4>2. QED
        BY <2>10, <2>14, <4>1
    <3>2. a = [buffer EXCEPT !.pending = <<>>, !.frames = Append(@, p)]
      BY <2>9, <2>11, <2>12, <2>14
    <3>3. ~ a.bad /\ a.pending = <<>> /\ a.frames = Append(buffer.frames, p)
      BY <3>2 DEF Buffer
    <3>4. QED
      BY <2>14, <3>1, <3>3
  <2>15. CASE ~ Hopeless(p) /\ Len(p) # total
    <3>1. ~ IsFrame(p)
      BY <2>10, <2>15
    <3>2. a = [buffer EXCEPT !.pending = p]
      BY <2>9, <2>11, <2>12, <2>15
    <3>3. ~ a.bad /\ a.pending = p /\ a.frames = buffer.frames
      BY <3>2 DEF Buffer
    <3>4. QED
      BY <2>15, <3>1, <3>3
  <2>16. QED
    BY <2>13, <2>14, <2>15
<1>4. QED
  BY <1>2, <1>3

-----------------------------------------------------------------------------
(***************************************************************************)
(* What the loop has after i bytes: the cut of what it was given, or an    *)
(* error, and what will never be a frame.                                  *)
(***************************************************************************)
LoopCuts(a, s) ==
  /\ a \in Buffer
  /\ ~ a.bad => IsCut(s, a.frames, a.pending) /\ ~ Hopeless(a.pending)
  /\ a.bad => Hopeless(a.pending)

LEMMA AbsorbCuts ==
  ASSUME NEW a, NEW s \in Seq(Byte), LoopCuts(a, s), NEW b \in Byte
  PROVE  LoopCuts(Absorb(a, b), Append(s, b))
<1>1. a \in Buffer
  BY DEF LoopCuts
<1>2. PICK c : c = Absorb(a, b)
  OBVIOUS
<1>3. c \in Buffer
  BY <1>1, <1>2, AbsorbType
<1>4. CASE a.bad
  <2>1. c = a
    BY <1>2, <1>4 DEF Absorb
  <2>2. QED
    BY <1>2, <1>4, <2>1 DEF LoopCuts
<1>5. CASE ~ a.bad
  <2>1. PICK p : p = Append(a.pending, b)
    OBVIOUS
  <2>2. Outcome(a, p, c)
    BY <1>1, <1>2, <1>5, <2>1, AbsorbOutcome, Zenon
  <2>3. /\ IsFrame(p) => IsCut(Append(s, b), Append(a.frames, p), <<>>)
        /\ ~ IsFrame(p) => IsCut(Append(s, b), a.frames, p)
    <3>1. a.frames \in Seq(Seq(Byte)) /\ a.pending \in Seq(Byte)
      BY <1>1 DEF Buffer
    <3>2. IsCut(s, a.frames, a.pending)
      BY <1>5 DEF LoopCuts
    <3>3. QED
      BY <2>1, <3>1, <3>2, CutAppend
  <2>4. QED
    BY <1>2, <1>3, <2>2, <2>3, EmptyIsOpen DEF LoopCuts, Outcome
<1>6. QED
  BY <1>4, <1>5

LEMMA LoopIsCut ==
  ASSUME NEW pending \in Seq(Byte), NEW data \in Seq(Byte), NEW after,
         IsLoop(after, pending, data, Len(data)), Partial(pending), ~ Hopeless(pending)
  PROVE  LoopCuts(after[Len(data)], pending \o data)
<1>1. PICK n \in Nat : n = Len(data)
  BY LenProperties
<1> DEFINE Read(i) == pending \o SubSeq(data, 1, i)
           S == {i \in Nat : i <= n => LoopCuts(after[i], Read(i))}
<1>2. 0 \in S
  <2>1. SubSeq(data, 1, 0) = <<>> /\ pending \o <<>> = pending
    BY SubSeqEmpty, ConcatEmptySeq
  <2>2. after[0] = NewBuffer(pending)
    BY <1>1 DEF IsLoop
  <2>3. NewBuffer(pending) \in Buffer
    BY EmptySeq DEF NewBuffer, Buffer
  <2>4. IsCut(pending, <<>>, pending)
    <3>1. <<>> \o pending = pending /\ Len(<<>>) = 0
      BY ConcatEmptySeq, EmptySeq
    <3>2. QED
      BY <3>1, FlattenEmpty DEF IsCut
  <2>5. LoopCuts(NewBuffer(pending), pending)
    BY <2>3, <2>4 DEF LoopCuts, NewBuffer
  <2>6. Read(0) = pending
    BY <2>1, Zenon
  <2> HIDE DEF Read
  <2>7. QED
    BY <2>2, <2>5, <2>6
<1>3. ASSUME NEW i \in Nat, i \in S PROVE i + 1 \in S
  <2> HIDE DEF Read
  <2> SUFFICES ASSUME i + 1 <= n PROVE LoopCuts(after[i + 1], Read(i + 1))
    OBVIOUS
  <2>1. after[i + 1] = Absorb(after[i], data[i + 1])
    BY <1>1 DEF IsLoop
  <2>2. data[i + 1] \in Byte /\ LoopCuts(after[i], Read(i))
    BY <1>1, <1>3
  <2>3. Read(i) \in Seq(Byte) /\ Read(i + 1) = Append(Read(i), data[i + 1])
    <3>1. PICK b \in Byte : b = data[i + 1]
      BY <2>2
    <3>2. PICK s : s = SubSeq(data, 1, i)
      OBVIOUS
    <3>3. s \in Seq(Byte) /\ <<b>> \in Seq(Byte)
      BY <1>1, <3>2, PartType
    <3>4. SubSeq(data, 1, i + 1) = s \o <<b>>
      <4>1. i + 1 \in 1 .. Len(data) /\ 1 \in 1 .. Len(data) /\ (i + 1) - 1 = i
        BY <1>1
      <4>2. SubSeq(data, 1, i + 1) = SubSeq(data, 1, (i + 1) - 1) \o <<data[i + 1]>>
        BY <4>1, SubSeqRecursiveSecond
      <4>3. QED
        BY <3>1, <3>2, <4>1, <4>2, Zenon
    <3>5. pending \o s \in Seq(Byte)
      BY <3>3, ConcatProperties
    <3>6. pending \o (s \o <<b>>) = (pending \o s) \o <<b>>
      BY <3>3, BytesAssociative, Zenon
    <3>7. Append(pending \o s, b) = (pending \o s) \o <<b>>
      BY <3>5, AppendIsConcat
    <3>8. Read(i) = pending \o s /\ Read(i + 1) = pending \o (s \o <<b>>)
      BY <3>2, <3>4, Zenon DEF Read
    <3>9. QED
      BY <3>1, <3>5, <3>6, <3>7, <3>8, Zenon
  <2>4. QED
    BY <2>1, <2>2, <2>3, AbsorbCuts
<1> HIDE DEF S
<1>4. n \in S
  BY <1>2, <1>3, NatSetInduction
<1>5. Read(n) = pending \o data
  <2>1. SubSeq(data, 1, n) = data
    BY <1>1, SubSeqFull
  <2>2. QED
    BY <2>1, Zenon
<1> HIDE DEF Read
<1>6. LoopCuts(after[n], Read(n))
  BY <1>4 DEF S
<1>7. QED
  BY <1>1, <1>5, <1>6, Zenon

(***************************************************************************)
(* Feed, from a beginning of a frame: without an error the frames of the   *)
(* call and what is kept cut the bytes kept before and those of the call;  *)
(* after an error there are no frames, and there will be none.             *)
(***************************************************************************)
FeedFrom(pending, data, buffer) ==
  /\ buffer \in Buffer
  /\ ~ buffer.bad => /\ IsCut(pending \o data, buffer.frames, buffer.pending)
                     /\ ~ Hopeless(buffer.pending)
  /\ buffer.bad => Hopeless(buffer.pending) /\ buffer.frames = <<>>

\* What the end of Feed makes of the buffer after the last byte.
LEMMA FeedEnds ==
  ASSUME NEW buffer, NEW a \in Buffer,
         buffer = IF a.bad THEN [a EXCEPT !.frames = <<>>] ELSE a
  PROVE  /\ buffer \in Buffer /\ buffer.pending = a.pending /\ buffer.bad = a.bad
         /\ a.bad => buffer.frames = <<>>
         /\ ~ a.bad => buffer.frames = a.frames
<1>1. <<>> \in Seq(Seq(Byte))
  BY EmptySeq
<1>2. QED
  BY <1>1 DEF Buffer

(***************************************************************************)
(* FrameBuffer.Append cuts: from bytes that begin with no frame it goes on *)
(* with the cut, or meets a length that no frame has.                      *)
(***************************************************************************)
THEOREM FeedCuts ==
  ASSUME NEW pending \in Seq(Byte), NEW data \in Seq(Byte),
         Partial(pending), ~ Hopeless(pending)
  PROVE  FeedFrom(pending, data, Feed(pending, data))
<1>1. PICK after :
        /\ IsLoop(after, pending, data, Len(data))
        /\ Feed(pending, data) =
             IF after[Len(data)].bad THEN [after[Len(data)] EXCEPT !.frames = <<>>]
                                     ELSE after[Len(data)]
  BY FeedIsLoop, LenProperties
<1>2. PICK a : a = after[Len(data)]
  OBVIOUS
<1>3. PICK s : s = pending \o data
  OBVIOUS
<1>4. LoopCuts(a, s)
  BY <1>1, <1>2, <1>3, LoopIsCut, Zenon
<1>5. PICK buffer : buffer = Feed(pending, data)
  OBVIOUS
<1>6. a \in Buffer
  BY <1>4 DEF LoopCuts
<1>7. buffer = IF a.bad THEN [a EXCEPT !.frames = <<>>] ELSE a
  BY <1>1, <1>2, <1>5, Zenon
<1>8. /\ buffer \in Buffer /\ buffer.pending = a.pending /\ buffer.bad = a.bad
      /\ a.bad => buffer.frames = <<>>
      /\ ~ a.bad => buffer.frames = a.frames
  BY <1>6, <1>7, FeedEnds
<1>9. /\ ~ buffer.bad => IsCut(s, buffer.frames, buffer.pending) /\ ~ Hopeless(buffer.pending)
      /\ buffer.bad => Hopeless(buffer.pending) /\ buffer.frames = <<>>
  BY <1>4, <1>8 DEF LoopCuts
<1>10. QED
  BY <1>3, <1>5, <1>8, <1>9, Zenon DEF FeedFrom

\* After bytes that begin no frame each byte is an error.
LEMMA AbsorbHopeless ==
  ASSUME NEW a \in Buffer, Hopeless(a.pending), NEW b \in Byte
  PROVE  Absorb(a, b).bad /\ Hopeless(Absorb(a, b).pending)
<1>1. CASE a.bad
  BY <1>1 DEF Absorb
<1>2. CASE ~ a.bad
  <2>1. PICK p : p = Append(a.pending, b)
    OBVIOUS
  <2>2. PICK c : c = Absorb(a, b)
    OBVIOUS
  <2>3. Outcome(a, p, c)
    BY <1>2, <2>1, <2>2, AbsorbOutcome, Zenon
  <2>4. Hopeless(p)
    <3>1. a.pending \in Seq(Byte)
      BY DEF Buffer
    <3>2. QED
      BY <2>1, <3>1, HopelessStays
  <2>5. QED
    BY <2>2, <2>3, <2>4 DEF Outcome
<1>3. QED
  BY <1>1, <1>2

(***************************************************************************)
(* FrameBuffer.Append after its error: whatever follows is an error again, *)
(* and no frame is made up from it.                                        *)
(***************************************************************************)
THEOREM FeedHopeless ==
  ASSUME NEW pending \in Seq(Byte), NEW data \in Seq(Byte), data # <<>>, Hopeless(pending)
  PROVE  LET buffer == Feed(pending, data) IN
         buffer.bad /\ Hopeless(buffer.pending) /\ buffer.frames = <<>>
<1>1. PICK n \in Nat : n = Len(data)
  BY LenProperties
<1>2. PICK after :
        /\ IsLoop(after, pending, data, n)
        /\ Feed(pending, data) =
             IF after[n].bad THEN [after[n] EXCEPT !.frames = <<>>] ELSE after[n]
  BY <1>1, FeedIsLoop
<1>3. \A i \in 0 .. n : after[i] \in Buffer
  BY <1>1, <1>2, LoopType
<1> DEFINE S == {i \in Nat : i <= n => /\ Hopeless(after[i].pending)
                                       /\ i > 0 => after[i].bad}
<1>4. 0 \in S
  <2>1. after[0] = NewBuffer(pending)
    BY <1>1, <1>2 DEF IsLoop
  <2>2. QED
    BY <2>1 DEF NewBuffer
<1>5. ASSUME NEW i \in Nat, i \in S PROVE i + 1 \in S
  <2> SUFFICES ASSUME i + 1 <= n
               PROVE  Hopeless(after[i + 1].pending) /\ after[i + 1].bad
    OBVIOUS
  <2>1. after[i + 1] = Absorb(after[i], data[i + 1])
    BY <1>1, <1>2 DEF IsLoop
  <2>2. data[i + 1] \in Byte /\ after[i] \in Buffer /\ Hopeless(after[i].pending)
    BY <1>1, <1>3, <1>5
  <2>3. QED
    BY <2>1, <2>2, AbsorbHopeless
<1> HIDE DEF S
<1>6. n \in S
  BY <1>4, <1>5, NatSetInduction
<1>7. n > 0
  BY <1>1, EmptySeq
<1>8. PICK a : a = after[n]
  OBVIOUS
<1>9. a \in Buffer /\ Hopeless(a.pending) /\ a.bad
  BY <1>3, <1>6, <1>7, <1>8 DEF S
<1>10. PICK buffer : buffer = Feed(pending, data)
  OBVIOUS
<1>11. buffer = IF a.bad THEN [a EXCEPT !.frames = <<>>] ELSE a
  BY <1>2, <1>8, <1>10, Zenon
<1>12. buffer.bad /\ Hopeless(buffer.pending) /\ buffer.frames = <<>>
  BY <1>9, <1>11, FeedEnds
<1>13. QED
  BY <1>10, <1>12

(***************************************************************************)
(* What is read later ends no frame earlier: a stream has the frames that  *)
(* its beginning had.                                                      *)
(***************************************************************************)
LEMMA CutGrows ==
  ASSUME NEW s \in Seq(Byte), NEW data \in Seq(Byte)
  PROVE  /\ Cut(s) \in Seq(Seq(Byte))
         /\ \E gs \in Seq(Seq(Byte)) : Cut(s \o data) = Cut(s) \o gs
<1>1. PICK fs \in Seq(Seq(Byte)), r \in Seq(Byte) : IsCut(s, fs, r)
  BY CutExists
<1>2. Cut(s) = fs
  BY <1>1, CutIs
<1>3. PICK d \in Seq(Byte) : d = r \o data
  BY ConcatProperties
<1>4. PICK gs \in Seq(Seq(Byte)), q \in Seq(Byte) : IsCut(d, gs, q)
  BY CutExists
<1>5. PICK t \in Seq(Byte) : t = s \o data
  BY ConcatProperties
<1>6. PICK hs \in Seq(Seq(Byte)) : hs = fs \o gs
  BY ConcatProperties
<1>7. IsCut(s \o data, fs \o gs, q)
  BY <1>1, <1>3, <1>4, CutConcat, Zenon
<1>8. IsCut(t, hs, q)
  BY <1>5, <1>6, <1>7, Zenon
<1>9. Cut(t) = hs
  BY <1>8, CutIs
<1>10. QED
  BY <1>2, <1>5, <1>6, <1>9, Zenon
=============================================================================
