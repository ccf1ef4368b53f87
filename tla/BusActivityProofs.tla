-------------------------- MODULE BusActivityProofs --------------------------
(***************************************************************************)
(* What a driver sends goes out whole, and what comes in is read in order: *)
(* whatever is submitted at a time, however the polls cut the stream, and  *)
(* however the polls and the byte times are interleaved.                   *)
(***************************************************************************)
EXTENDS BusActivity, SequenceTheorems, FiniteSetTheorems, TLAPS

\* The fields of a driver that sending depends on, and a sequence of any elements.
IsPhy(p) ==
  p = [driver |-> p.driver, mode |-> p.mode, buffer |-> p.buffer, unread |-> p.unread,
       unsent |-> p.unsent, queue |-> p.queue, wait |-> p.wait]

IsList(q) == q \in Seq(Range(q))

\* The same driver, as far as sending is concerned.
SendsAlike(p, q) ==
  /\ IsPhy(p)
  /\ p.driver = q.driver /\ p.mode = q.mode /\ p.unsent = q.unsent /\ p.queue = q.queue

-----------------------------------------------------------------------------
(* Sequences. *)

\* A sequence may be cut in two anywhere.
LEMMA CutInTwo ==
  ASSUME NEW q, IsList(q), NEW n \in 0 .. Len(q)
  PROVE  /\ SubSeq(q, 1, n) \o SubSeq(q, n + 1, Len(q)) = q
         /\ IsList(SubSeq(q, 1, n)) /\ IsList(SubSeq(q, n + 1, Len(q)))
<1> DEFINE S == Range(q)
           a == SubSeq(q, 1, n)
           b == SubSeq(q, n + 1, Len(q))
<1>1. q \in Seq(S) /\ Len(q) \in Nat /\ \A i \in 1 .. Len(q) : q[i] \in S
  BY DEF IsList
<1> HIDE DEF S
<1>2. a \o b = q
  <2>1. 1 \in 1 .. Len(q) + 1 /\ n \in 1 - 1 .. Len(q) /\ Len(q) \in n .. Len(q)
    BY <1>1
  <2>2. a \o b = SubSeq(q, 1, Len(q))
    BY <1>1, <2>1, ConcatAdjacentSubSeq
  <2>3. SubSeq(q, 1, Len(q)) = q
    BY <1>1, SubSeqFull
  <2> QED  BY <2>2, <2>3
<1>3. a \in Seq(S) /\ b \in Seq(S)
  <2>1. (\A i \in 1 .. n : q[i] \in S) /\ (\A i \in n + 1 .. Len(q) : q[i] \in S)
    BY <1>1
  <2> QED  BY <1>1, <2>1, SubSeqProperties
<1> HIDE DEF a, b
<1>4. ASSUME NEW r \in Seq(S) PROVE IsList(r)
  BY <1>4 DEF IsList, Range
<1> QED  BY <1>2, <1>3, <1>4 DEF a, b

\* Sequences put together are a sequence.
LEMMA PutTogether ==
  ASSUME NEW q, IsList(q), NEW r, IsList(r)
  PROVE  IsList(q \o r) /\ q \o <<>> = q /\ <<>> \o r = r
<1> DEFINE S == Range(q) \cup Range(r)
<1>1. q \in Seq(S) /\ r \in Seq(S)
  BY DEF IsList
<1>2. Range(q \o r) = S
  BY <1>1, RangeConcatenation
<1>3. q \o r \in Seq(S)
  BY <1>1
<1>4. q \o <<>> = q /\ <<>> \o r = r
  BY <1>1, ConcatEmptySeq
<1> QED  BY <1>2, <1>3, <1>4 DEF IsList

\* Sequences are put together from either end.
LEMMA Regroup ==
  ASSUME NEW q, IsList(q), NEW r, IsList(r), NEW s, IsList(s)
  PROVE  (q \o r) \o s = q \o (r \o s)
<1> DEFINE S == Range(q) \cup Range(r) \cup Range(s)
<1>1. q \in Seq(S) /\ r \in Seq(S) /\ s \in Seq(S)
  BY DEF IsList
<1> QED  BY <1>1, ConcatAssociative

\* The empty sequence, and those written down.
LEMMA Written ==
  /\ IsList(<<>>)
  /\ \A a : IsList(<<a>>)
  /\ \A a, b : IsList(<<a, b>>)
  /\ \A a, b, c : IsList(<<a, b, c>>)
  /\ \A a, b, c, d : IsList(<<a, b, c, d>>)
  BY DEF IsList, Range

\* The first element of a sequence is that of it with another one behind it.
LEMMA FirstGoes ==
  ASSUME NEW q, IsList(q), q # <<>>, NEW r, IsList(r)
  PROVE  /\ SubSeq(q \o r, 2, Len(q \o r)) = SubSeq(q, 2, Len(q)) \o r
         /\ IsList(SubSeq(q, 2, Len(q)))
<1> DEFINE S == Range(q) \cup Range(r)
<1>1. q \in Seq(S) /\ r \in Seq(S) /\ Len(q) \in Nat /\ Len(r) \in Nat /\ Len(q) # 0
  BY DEF IsList
<1> HIDE DEF S
<1>2. /\ q \o r \in Seq(S) /\ Len(q \o r) = Len(q) + Len(r)
      /\ q \o r # <<>>
  BY <1>1
<1>3. SubSeq(q, 2, Len(q)) = Tail(q) /\ SubSeq(q \o r, 2, Len(q \o r)) = Tail(q \o r)
  BY <1>1, <1>2
<1>4. Tail(q \o r) = Tail(q) \o r
  BY <1>1
<1>5. 1 \in 0 .. Len(q) /\ 1 + 1 = 2
  BY <1>1
<1>6. IsList(SubSeq(q, 1 + 1, Len(q)))
  BY <1>5, CutInTwo
<1> QED  BY <1>3, <1>4, <1>5, <1>6

\* Head and Tail of two sequences, when the first is not empty.
LEMMA FirstAndRest ==
  ASSUME NEW T, NEW q \in Seq(T), NEW r \in Seq(T), q # <<>>
  PROVE  q \o r # <<>> /\ Head(q \o r) = Head(q) /\ Tail(q \o r) = Tail(q) \o r
  OBVIOUS

\* Three sequences, put together from either end.
Grouped(S, q, r, s) == r \o s \in Seq(S) /\ (q \o r) \o s = q \o (r \o s)

\* They are the same.
LEMMA ThreeTogether ==
  ASSUME NEW S, NEW q \in Seq(S), NEW r \in Seq(S), NEW s \in Seq(S)
  PROVE  Grouped(S, q, r, s)
<1>1. r \o s \in Seq(S)
  OBVIOUS
<1>2. (q \o r) \o s = q \o (r \o s)
  BY ConcatAssociative
<1> QED  BY <1>1, <1>2 DEF Grouped

\* Bytes behind bytes.
LEMMA MoreBytes ==
  ASSUME NEW q \in Seq(Bytes), NEW r \in Seq(Bytes)
  PROVE  q \o r \in Seq(Bytes) /\ Len(q \o r) = Len(q) + Len(r)
  OBVIOUS

\* What comes first stays where it is.
LEMMA FirstBytes ==
  ASSUME NEW q \in Seq(Bytes), NEW r \in Seq(Bytes)
  PROVE  /\ Len(q \o r) = Len(q) + Len(r)
         /\ \A i \in 1 .. Len(q) : (q \o r)[i] = q[i]
<1>1. Len(q) \in Nat /\ Len(r) \in Nat
  BY LenProperties
<1>2. \A i \in 1 .. Len(q) + Len(r) : (q \o r)[i] = IF i <= Len(q) THEN q[i] ELSE r[i - Len(q)]
  BY ConcatProperties
<1>3. \A i \in 1 .. Len(q) : i \in 1 .. Len(q) + Len(r) /\ i <= Len(q)
  BY <1>1
<1> QED  BY <1>2, <1>3, MoreBytes

\* A stream that is cut in two ways: the shorter first part is the beginning of the other,
\* and what the longer one has more is the beginning of what follows the other.
Cuts(q, r, s, u) ==
  /\ Len(q) < Len(s) => q = SubSeq(s, 1, Len(q))
  /\ Len(q) >= Len(s) => /\ q = s \o SubSeq(q, Len(s) + 1, Len(q))
                         /\ SubSeq(q, Len(s) + 1, Len(q)) \in Seq(Bytes)
                         /\ SubSeq(q, Len(s) + 1, Len(q)) \o r = u

\* That is what two cuts of one stream are.
LEMMA CutTwice ==
  ASSUME NEW q \in Seq(Bytes), NEW r \in Seq(Bytes), NEW s \in Seq(Bytes), NEW u \in Seq(Bytes),
         q \o r = s \o u
  PROVE  Cuts(q, r, s, u)
<1>1. Len(q) \in Nat /\ Len(s) \in Nat
  BY LenProperties
<1>2. /\ \A i \in 1 .. Len(q) : (q \o r)[i] = q[i]
      /\ \A i \in 1 .. Len(s) : (s \o u)[i] = s[i]
  BY FirstBytes
<1>3. \A i \in 1 .. Len(q) : i \in 1 .. Len(s) => q[i] = s[i]
  BY <1>2
<1>4. ASSUME NEW a \in Seq(Bytes), NEW n \in 0 .. Len(a)
      PROVE  /\ SubSeq(a, 1, n) \in Seq(Bytes) /\ Len(SubSeq(a, 1, n)) = n
             /\ \A i \in 1 .. n : SubSeq(a, 1, n)[i] = a[i]
  <2> DEFINE c == SubSeq(a, 1, n)
  <2>1. Len(a) \in Nat /\ n \in Nat /\ n <= Len(a)
    BY <1>4, LenProperties
  <2>2. \A i \in 1 .. n : a[i] \in Bytes
    BY <1>4, <2>1
  <2>3. /\ c \in Seq(Bytes) /\ Len(c) = (IF 1 <= n THEN n - 1 + 1 ELSE 0)
        /\ \A i \in 1 .. n - 1 + 1 : c[i] = a[1 + i - 1]
    BY <2>1, <2>2, SubSeqProperties
  <2>4. \A i \in 1 .. n : 1 + i - 1 = i
    BY <2>1
  <2> HIDE DEF c
  <2>5. c \in Seq(Bytes) /\ Len(c) = n /\ \A i \in 1 .. n : c[i] = a[i]
    BY <2>1, <2>3, <2>4
  <2> QED  BY <2>5 DEF c
<1>5. ASSUME Len(q) < Len(s) PROVE q = SubSeq(s, 1, Len(q))
  <2> DEFINE n == Len(q)
             c == SubSeq(s, 1, n)
  <2>1. n \in 0 .. Len(s) /\ \A i \in 1 .. n : i \in 1 .. Len(s)
    BY <1>1, <1>5
  <2>2. c \in Seq(Bytes) /\ Len(c) = n /\ \A i \in 1 .. n : c[i] = s[i]
    <3> HIDE DEF n
    <3> QED  BY <1>4, <2>1
  <2> HIDE DEF c
  <2>3. \A i \in 1 .. Len(q) : q[i] = c[i]
    BY <1>3, <2>1, <2>2
  <2>4. q = c
    BY <2>2, <2>3, SeqEqual
  <2> QED  BY <2>4 DEF c
<1>6. ASSUME Len(q) >= Len(s)
      PROVE  /\ q = s \o SubSeq(q, Len(s) + 1, Len(q))
             /\ SubSeq(q, Len(s) + 1, Len(q)) \in Seq(Bytes)
             /\ SubSeq(q, Len(s) + 1, Len(q)) \o r = u
  <2> DEFINE n == Len(s)
             c == SubSeq(q, 1, n)
             v == SubSeq(q, n + 1, Len(q))
  <2>1. n \in 0 .. Len(q) /\ \A i \in 1 .. n : i \in 1 .. Len(q)
    BY <1>1, <1>6
  <2>2. c \in Seq(Bytes) /\ Len(c) = n /\ \A i \in 1 .. n : c[i] = q[i]
    <3> HIDE DEF n
    <3> QED  BY <1>4, <2>1
  <2>3. c = s
    <3> HIDE DEF c
    <3>1. \A i \in 1 .. Len(s) : c[i] = s[i]
      BY <1>3, <2>1, <2>2
    <3> QED  BY <2>2, <3>1, SeqEqual
  <2>4. c \o v = q
    <3>1. IsList(q)
      BY DEF IsList, Range
    <3> HIDE DEF n
    <3> QED  BY <2>1, <3>1, CutInTwo
  <2>5. v \in Seq(Bytes)
    <3>1. \A i \in n + 1 .. Len(q) : q[i] \in Bytes
      BY <1>1
    <3> HIDE DEF n
    <3>2. n + 1 \in Int /\ Len(q) \in Int
      BY <1>1, <2>1
    <3> QED  BY <3>1, <3>2, SubSeqProperties
  <2> HIDE DEF c, v
  <2>6. s \o (v \o r) = s \o u
    <3>1. (s \o v) \o r = s \o (v \o r)
      BY <2>5, ConcatAssociative
    <3> QED  BY <2>3, <2>4, <3>1
  <2>7. v \o r = u
    <3> DEFINE w == v \o r
    <3>1. w \in Seq(Bytes) /\ s \o w = s \o u
      BY <2>5, <2>6, MoreBytes
    <3> HIDE DEF w
    <3>2. w = u
      BY <3>1, ConcatSimplifications
    <3> QED  BY <3>2 DEF w
  <2>8. q = s \o v
    BY <2>3, <2>4
  <2> QED  BY <2>5, <2>7, <2>8 DEF v
<1> QED  BY <1>5, <1>6 DEF Cuts

-----------------------------------------------------------------------------
(* FlattenSeq puts the sequences of a sequence one behind the other. *)

PutBehind(seqs, flat, i) == IF i = 1 THEN seqs[i] ELSE flat \o seqs[i]
Anything(seqs, flat) == TRUE
Frames == INSTANCE FoldInduction WITH Op <- PutBehind, Inv <- Anything

\* FlattenSeq puts sequences one behind the other: how its value comes about.
Flattens(seqs, n, flat) ==
  /\ flat = [i \in 1 .. n |-> IF i = 1 THEN seqs[1] ELSE flat[i - 1] \o seqs[i]]
  /\ FlattenSeq(seqs) = flat[n]

LEMMA FlattenSteps ==
  ASSUME NEW n \in Nat, NEW seqs, Len(seqs) = n, n > 0
  PROVE  \E flat : Flattens(seqs, n, flat)
<1> DEFINE Step(flat, i) == IF i = 1 THEN seqs[i] ELSE flat[i - 1] \o seqs[i]
           first == [i \in 1 .. n |-> Frames!Count(seqs, <<>>)[i]]
           flatten == CHOOSE flat : flat = [i \in 1 .. n |-> Step(flat, i)]
<1>1. \A i \in Nat : Frames!Count(seqs, <<>>)[i] =
                       IF i = 0 THEN <<>> ELSE PutBehind(seqs, Frames!Count(seqs, <<>>)[i - 1], i)
  <2> DEFINE all == Frames!Count(seqs, <<>>)
  <2>1. all = [i \in Nat |-> IF i = 0 THEN <<>> ELSE PutBehind(seqs, all[i - 1], i)]
    BY Frames!CountSteps
  <2> HIDE DEF all
  <2>2. \A i \in Nat : all[i] = IF i = 0 THEN <<>> ELSE PutBehind(seqs, all[i - 1], i)
    BY <2>1
  <2> QED  BY <2>2 DEF all
<1>2. first = [i \in 1 .. n |-> Step(first, i)]
  <2> DEFINE all == Frames!Count(seqs, <<>>)
  <2>1. ASSUME NEW i \in 1 .. n PROVE all[i] = Step(first, i)
    <3> HIDE DEF all
    <3>1. i \in Nat /\ i # 0
      OBVIOUS
    <3>2. all[i] = PutBehind(seqs, all[i - 1], i)
      BY <1>1, <3>1 DEF all
    <3>3. i # 1 => i - 1 \in 1 .. n /\ first[i - 1] = all[i - 1]
      BY DEF all
    <3> HIDE DEF first
    <3> QED  BY <3>2, <3>3 DEF PutBehind
  <2> QED  BY <2>1
<1> HIDE DEF first
<1>3. flatten = [i \in 1 .. n |-> Step(flatten, i)]
  BY <1>2
<1>4. FlattenSeq(seqs) = flatten[n]
  BY DEF FlattenSeq
<1> HIDE DEF flatten
<1>5. flatten = [i \in 1 .. n |-> IF i = 1 THEN seqs[1] ELSE flatten[i - 1] \o seqs[i]]
  BY <1>3
<1>6. Flattens(seqs, n, flatten)
  BY <1>4, <1>5 DEF Flattens
<1> QED  BY <1>6

\* What is put together is a sequence.
LEMMA FlattenKeeps ==
  ASSUME NEW S, NEW n \in Nat, NEW seqs, DOMAIN seqs = 1 .. n, Len(seqs) = n, n > 0,
         \A i \in 1 .. n : seqs[i] \in Seq(S)
  PROVE  FlattenSeq(seqs) \in Seq(S)
<1>1. PICK flat : Flattens(seqs, n, flat)
  BY FlattenSteps
<1>2. flat = [i \in 1 .. n |-> IF i = 1 THEN seqs[1] ELSE flat[i - 1] \o seqs[i]]
  BY <1>1 DEF Flattens
<1> DEFINE T == {i \in 1 .. n : flat[i] \notin Seq(S)}
<1>3. ASSUME T # {} PROVE FALSE
  <2>0. T \in SUBSET Nat
    OBVIOUS
  <2>1. PICK m \in T : \A x \in T : m <= x
    <3> HIDE DEF T
    <3> QED  BY <1>3, <2>0, Frames!Least
  <2>2. m \in 1 .. n /\ seqs[m] \in Seq(S)
    BY <2>1
  <2>3. CASE m = 1
    BY <1>2, <2>1, <2>2, <2>3
  <2>4. CASE m # 1
    <3>1. m - 1 \in 1 .. n /\ m - 1 \notin T
      BY <2>1, <2>2, <2>4
    <3>2. flat[m - 1] \in Seq(S)
      BY <3>1
    <3>3. flat[m] = flat[m - 1] \o seqs[m]
      BY <1>2, <2>2, <2>4
    <3>4. flat[m - 1] \o seqs[m] \in Seq(S)
      BY <2>2, <3>2
    <3> QED  BY <2>1, <3>3, <3>4
  <2> QED  BY <2>3, <2>4
<1>4. n \in 1 .. n
  OBVIOUS
<1>5. flat[n] \in Seq(S)
  BY <1>3, <1>4
<1>6. FlattenSeq(seqs) = flat[n]
  BY <1>1 DEF Flattens
<1> QED  BY <1>5, <1>6

\* Nothing flattens to nothing, one sequence to itself.
LEMMA FlattenFew ==
  /\ FlattenSeq(<<>>) = <<>>
  /\ \A seq : FlattenSeq(<<seq>>) = seq
<1>1. FlattenSeq(<<>>) = <<>>
  BY DEF FlattenSeq
<1>2. ASSUME NEW seq PROVE FlattenSeq(<<seq>>) = seq
  <2>1. Len(<<seq>>) = 1 /\ 1 \in Nat /\ 1 > 0 /\ <<seq>>[1] = seq
    OBVIOUS
  <2>2. PICK flat : Flattens(<<seq>>, 1, flat)
    BY <2>1, FlattenSteps
  <2> QED  BY <2>1, <2>2 DEF Flattens
<1> QED  BY <1>1, <1>2

\* The first sequence comes first.
FirstComesFirst(seqs, tail) == FlattenSeq(seqs) = seqs[1] \o FlattenSeq(tail)

\* Several sequences: the first one comes first, then what the others flatten to.
LEMMA FlattenCons ==
  ASSUME NEW S, NEW n \in Nat, NEW seqs, DOMAIN seqs = 1 .. n + 1, Len(seqs) = n + 1,
         \A i \in 1 .. n + 1 : seqs[i] \in Seq(S),
         NEW tail, tail = [i \in 1 .. n |-> seqs[i + 1]]
  PROVE  FirstComesFirst(seqs, tail)
<1>1. seqs[1] \in Seq(S) /\ DOMAIN tail = 1 .. n /\ Len(tail) = n
  OBVIOUS
<1>2. CASE n = 0
  <2>1. tail = <<>> /\ Len(tail) = 0
    BY <1>1, <1>2
  <2>2. FlattenSeq(tail) = <<>>
    BY <2>1, FlattenFew
  <2>3. Len(seqs) = 1 /\ 1 \in Nat /\ 1 > 0
    BY <1>2
  <2>4. PICK flat : Flattens(seqs, 1, flat)
    BY <2>3, FlattenSteps
  <2>5. FlattenSeq(seqs) = seqs[1]
    BY <2>4 DEF Flattens
  <2> QED  BY <1>1, <2>2, <2>5, ConcatEmptySeq DEF FirstComesFirst
<1>3. CASE n > 0
  <2>1. n + 1 \in Nat /\ n + 1 > 0
    OBVIOUS
  <2>2. PICK f : Flattens(seqs, n + 1, f)
    BY <2>1, FlattenSteps
  <2>3. PICK g : Flattens(tail, n, g)
    BY <1>1, <1>3, FlattenSteps
  <2>4. /\ f[1] = seqs[1]
        /\ \A i \in 1 .. n : f[i + 1] = f[i] \o seqs[i + 1]
        /\ FlattenSeq(seqs) = f[n + 1]
    <3>1. f = [i \in 1 .. n + 1 |-> IF i = 1 THEN seqs[1] ELSE f[i - 1] \o seqs[i]]
      BY <2>2 DEF Flattens
    <3>2. \A i \in 1 .. n : i + 1 \in 1 .. n + 1 /\ i + 1 # 1 /\ (i + 1) - 1 = i
      OBVIOUS
    <3>3. \A i \in 1 .. n : f[i + 1] = f[(i + 1) - 1] \o seqs[i + 1]
      BY <3>1, <3>2
    <3>4. f[1] = seqs[1] /\ 1 \in 1 .. n + 1
      BY <3>1
    <3> QED  BY <2>2, <3>2, <3>3, <3>4 DEF Flattens
  <2>5. /\ g[1] = seqs[2]
        /\ \A i \in 1 .. n - 1 : g[i + 1] = g[i] \o seqs[(i + 1) + 1]
        /\ FlattenSeq(tail) = g[n]
    <3>1. g = [i \in 1 .. n |-> IF i = 1 THEN tail[1] ELSE g[i - 1] \o tail[i]]
      BY <2>3 DEF Flattens
    <3>2. \A i \in 1 .. n - 1 : i + 1 \in 1 .. n /\ i + 1 # 1 /\ (i + 1) - 1 = i
      OBVIOUS
    <3>3. \A i \in 1 .. n - 1 : g[i + 1] = g[(i + 1) - 1] \o tail[i + 1]
      BY <3>1, <3>2
    <3>4. g[1] = tail[1] /\ tail[1] = seqs[2]
      BY <1>3, <3>1
    <3>5. \A i \in 1 .. n - 1 : tail[i + 1] = seqs[(i + 1) + 1]
      BY <3>2
    <3> QED  BY <2>3, <3>2, <3>3, <3>4, <3>5 DEF Flattens
  <2> DEFINE Fits(i) == g[i] \in Seq(S) /\ f[i + 1] = seqs[1] \o g[i]
             T == {i \in 1 .. n : ~Fits(i)}
  <2> HIDE DEF Fits
  <2>6. ASSUME T # {} PROVE FALSE
    <3>0. T \in SUBSET Nat
      OBVIOUS
    <3>1. PICK m \in T : \A x \in T : m <= x
      <4> HIDE DEF T
      <4> QED  BY <2>6, <3>0, Frames!Least
    <3>2. m \in 1 .. n
      BY <3>1
    <3>3. CASE m = 1
      <4>1. g[1] \in Seq(S) /\ 1 \in 1 .. n /\ 1 + 1 = 2 /\ 2 \in 1 .. n + 1
        BY <1>3, <2>5
      <4>2. f[1 + 1] = f[1] \o seqs[1 + 1]
        BY <2>4, <4>1
      <4>3. f[1 + 1] = seqs[1] \o g[1]
        BY <2>4, <2>5, <4>1, <4>2
      <4>4. Fits(m)
        BY <3>3, <4>1, <4>3 DEF Fits
      <4> QED  BY <3>1, <4>4
    <3>4. CASE m # 1
      <4> DEFINE k == m - 1
      <4>1. k \in 1 .. n - 1 /\ k \in 1 .. n /\ k + 1 = m /\ k \notin T /\ m + 1 \in 1 .. n + 1
        BY <3>1, <3>2, <3>4
      <4>2. g[k] \in Seq(S) /\ f[m] = seqs[1] \o g[k]
        <5>1. Fits(k)
          BY <4>1
        <5> QED  BY <4>1, <5>1 DEF Fits
      <4> HIDE DEF k
      <4>3. g[m] = g[k] \o seqs[m + 1] /\ f[m + 1] = f[m] \o seqs[m + 1]
        BY <2>4, <2>5, <3>2, <4>1
      <4> DEFINE s == seqs[m + 1]
      <4>4. s \in Seq(S)
        BY <4>1
      <4> HIDE DEF s
      <4>5. g[k] \o s \in Seq(S) /\ (seqs[1] \o g[k]) \o s = seqs[1] \o (g[k] \o s)
        <5> DEFINE q == seqs[1]
                   r == g[k]
        <5>1. q \in Seq(S) /\ r \in Seq(S) /\ s \in Seq(S)
          BY <1>1, <4>2, <4>4
        <5> HIDE DEF q, r
        <5>2. Grouped(S, q, r, s)
          BY <5>1, ThreeTogether, Zenon
        <5> QED  BY <5>2 DEF q, r, Grouped
      <4>6. g[m] \in Seq(S) /\ f[m + 1] = seqs[1] \o g[m]
        BY <4>2, <4>3, <4>5 DEF s
      <4>7. Fits(m)
        BY <4>6 DEF Fits
      <4> QED  BY <3>1, <4>7
    <3> QED  BY <3>3, <3>4
  <2>7. n \in 1 .. n
    BY <1>3
  <2>8. f[n + 1] = seqs[1] \o g[n]
    <3>1. Fits(n)
      BY <2>6, <2>7
    <3> QED  BY <3>1 DEF Fits
  <2> QED  BY <2>4, <2>5, <2>8 DEF FirstComesFirst
<1> QED  BY <1>2, <1>3

\* Any sequences, unless there are none: likewise.
LEMMA FlattenFirst ==
  ASSUME NEW S, NEW seqs \in Seq(Seq(S)), seqs # <<>>
  PROVE  /\ FlattenSeq(seqs) = Head(seqs) \o FlattenSeq(Tail(seqs))
         /\ Head(seqs) \in Seq(S) /\ Tail(seqs) \in Seq(Seq(S))
         /\ Len(seqs) = Len(Tail(seqs)) + 1
<1> DEFINE T == Seq(S)
           tail == Tail(seqs)
           n == Len(tail)
<1>1. seqs \in Seq(T)
  OBVIOUS
<1> HIDE DEF T
<1>2. tail \in Seq(T) /\ n \in Nat /\ Len(seqs) = n + 1 /\ Head(seqs) = seqs[1]
  BY <1>1
<1>3. tail = [i \in 1 .. n |-> seqs[i + 1]]
  <2>1. DOMAIN tail = 1 .. n /\ \A i \in 1 .. n : tail[i] = seqs[i + 1]
    BY <1>1
  <2> HIDE DEF n, tail
  <2>2. tail = [i \in 1 .. n |-> tail[i]]
    BY <1>2, <2>1
  <2> QED  BY <2>1, <2>2
<1> HIDE DEF n, tail
<1>4. DOMAIN seqs = 1 .. n + 1 /\ \A i \in 1 .. n + 1 : seqs[i] \in T
  BY <1>1, <1>2
<1>5. FirstComesFirst(seqs, tail)
  <2>1. \A i \in 1 .. n + 1 : seqs[i] \in Seq(S)
    BY <1>4 DEF T
  <2>2. n \in Nat /\ DOMAIN seqs = 1 .. n + 1 /\ Len(seqs) = n + 1
    BY <1>2, <1>4
  <2> QED  BY <1>3, <2>1, <2>2, FlattenCons, Zenon
<1>6. seqs[1] \in T
  BY <1>2, <1>4
<1> QED  BY <1>2, <1>5, <1>6 DEF FirstComesFirst, T, tail, n

\* What sequences flatten to is a sequence.
LEMMA FlattenIsSeq ==
  ASSUME NEW S, NEW seqs \in Seq(Seq(S))
  PROVE  FlattenSeq(seqs) \in Seq(S)
<1> DEFINE T == Seq(S)
           n == Len(seqs)
<1>1. seqs \in Seq(T)
  OBVIOUS
<1>2. CASE seqs = <<>>
  <2>1. FlattenSeq(seqs) = <<>>
    BY <1>2, FlattenFew
  <2> QED  BY <2>1
<1>3. CASE seqs # <<>>
  <2> HIDE DEF T
  <2>1. n \in Nat /\ n > 0 /\ DOMAIN seqs = 1 .. n /\ \A i \in 1 .. n : seqs[i] \in T
    BY <1>1, <1>3
  <2> HIDE DEF n
  <2>2. Len(seqs) = n
    BY DEF n
  <2> QED  BY <2>1, <2>2, FlattenKeeps DEF T
<1> QED  BY <1>2, <1>3

\* and two of them together flatten to what they flatten to, together.
FlattensTogether(q, r) == FlattenSeq(q \o r) = FlattenSeq(q) \o FlattenSeq(r)

\* They flatten to what each of them flattens to.
LEMMA FlattenTogether ==
  ASSUME NEW S, NEW r \in Seq(Seq(S))
  PROVE  \A q \in Seq(Seq(S)) : FlattensTogether(q, r)
<1> DEFINE T == Seq(S)
           Fits(n) == \A q \in Seq(T) : Len(q) = n => FlattensTogether(q, r)
           Bad == {n \in Nat : ~Fits(n)}
<1>0. r \in Seq(T)
  OBVIOUS
<1> HIDE DEF T, Fits
<1>1. ASSUME Bad # {} PROVE FALSE
  <2>0. Bad \in SUBSET Nat
    OBVIOUS
  <2>1. PICK m \in Bad : \A x \in Bad : m <= x
    <3> HIDE DEF Bad
    <3> QED  BY <1>1, <2>0, Frames!Least
  <2>2. PICK q \in Seq(T) : Len(q) = m /\ ~FlattensTogether(q, r)
    BY <2>1 DEF Fits
  <2>3. CASE q = <<>>
    <3>1. q \o r = r /\ FlattenSeq(q) = <<>>
      BY <1>0, <2>3, FlattenFew
    <3>2. FlattenSeq(r) \in Seq(S)
      BY <1>0, FlattenIsSeq DEF T
    <3>3. \A s \in Seq(S) : <<>> \o s = s
      OBVIOUS
    <3> QED  BY <2>2, <3>1, <3>2, <3>3, Zenon DEF FlattensTogether
  <2>4. CASE q # <<>>
    <3> DEFINE tail == Tail(q)
               first == Head(q)
               a == FlattenSeq(tail)
               b == FlattenSeq(r)
               k == Len(tail)
    <3>1. /\ FlattenSeq(q) = first \o a /\ first \in Seq(S) /\ tail \in Seq(T)
          /\ Len(q) = k + 1
      BY <2>2, <2>4, FlattenFirst DEF T
    <3>2. q \o r \in Seq(T) /\ q \o r # <<>> /\ Head(q \o r) = first /\ Tail(q \o r) = tail \o r
      BY <1>0, <2>2, <2>4, FirstAndRest
    <3> HIDE DEF first, tail
    <3>3. k \in Nat /\ k < m
      BY <2>2, <3>1, LenProperties
    <3>4. k \notin Bad
      <4> HIDE DEF Bad, k
      <4> QED  BY <2>0, <2>1, <3>3
    <3>5. Fits(k)
      BY <3>3, <3>4
    <3>6. FlattensTogether(tail, r)
      BY <3>1, <3>5 DEF Fits
    <3>7. FlattenSeq(q \o r) = first \o (a \o b)
      <4> DEFINE both == q \o r
      <4>1. both \in Seq(Seq(S)) /\ both # <<>>
        BY <3>2 DEF T
      <4>2. FlattenSeq(both) = Head(both) \o FlattenSeq(Tail(both))
        <5> HIDE DEF both
        <5> QED  BY <4>1, FlattenFirst
      <4> QED  BY <3>2, <3>6, <4>2 DEF FlattensTogether
    <3>8. a \in Seq(S) /\ b \in Seq(S)
      BY <1>0, <3>1, FlattenIsSeq DEF T
    <3> HIDE DEF a, b
    <3>9. Grouped(S, first, a, b)
      BY <3>1, <3>8, ThreeTogether, Zenon
    <3>10. FlattenSeq(q \o r) = FlattenSeq(q) \o b
      BY <3>1, <3>7, <3>9 DEF Grouped
    <3> QED  BY <2>2, <3>10 DEF FlattensTogether, b
  <2> QED  BY <2>3, <2>4
<1>2. ASSUME NEW q \in Seq(T) PROVE FlattensTogether(q, r)
  <2> DEFINE n == Len(q)
  <2>1. n \in Nat /\ Len(q) = n
    BY LenProperties
  <2> HIDE DEF n
  <2>2. Fits(n)
    BY <1>1, <2>1
  <2> QED  BY <2>1, <2>2 DEF Fits
<1> QED  BY <1>2 DEF T

-----------------------------------------------------------------------------
(* The wire format: what is written and read are bytes. *)

\* What the telegrams of the other stations and of this one are on the wire: bytes.
AddByte(body, sum, n) == (sum + body[n]) % 256
IsByte(body, sum) == sum \in Bytes
Sums == INSTANCE FoldInduction WITH Op <- AddByte, Inv <- IsByte

LEMMA ChecksumIsByte ==
  ASSUME NEW body \in Seq(Bytes)
  PROVE  Checksum(body) \in Bytes
<1> DEFINE sum == Sums!Count(body, 0)
           byte == [i \in Nat |-> IF i \in 1 .. Len(body) THEN body[i] ELSE 0]
<1>1. SumOfFirst(body) = sum
  BY DEF SumOfFirst, Sums!Count, AddByte
<1>2. \A n \in Nat : sum[n] = IF n = 0 THEN 0 ELSE (sum[n - 1] + body[n]) % 256
  <2>1. sum = [n \in Nat |-> IF n = 0 THEN 0 ELSE AddByte(body, sum[n - 1], n)]
    BY Sums!CountSteps
  <2> HIDE DEF sum
  <2> QED  BY <2>1 DEF AddByte
<1> HIDE DEF sum
<1> DEFINE T == {n \in 0 .. Len(body) : sum[n] \notin Bytes}
<1>3. ASSUME T # {} PROVE FALSE
  <2>0. T \in SUBSET Nat
    OBVIOUS
  <2>1. PICK m \in T : \A x \in T : m <= x
    <3> HIDE DEF T
    <3> QED  BY <1>3, <2>0, Sums!Least
  <2>2. m # 0 /\ m - 1 \in 0 .. Len(body) /\ m \in 1 .. Len(body)
    <3>1. sum[0] = 0 /\ 0 \in Bytes
      <4>1. sum[0] = IF 0 = 0 THEN 0 ELSE (sum[0 - 1] + body[0]) % 256
        BY <1>2, Zenon
      <4> QED  BY <4>1 DEF Bytes
    <3>2. m \in 0 .. Len(body) /\ sum[m] \notin Bytes
      BY <2>1
    <3> QED  BY <3>1, <3>2
  <2>3. sum[m - 1] \in Bytes /\ body[m] \in Bytes
    BY <2>1, <2>2
  <2>4. (sum[m - 1] + body[m]) % 256 \in Bytes
    <3>1. \A x, y \in 0 .. 255 : (x + y) % 256 \in 0 .. 255
      OBVIOUS
    <3> QED  BY <2>3, <3>1 DEF Bytes
  <2>5. sum[m] = (sum[m - 1] + body[m]) % 256
    BY <1>2, <2>2
  <2> QED  BY <2>1, <2>4, <2>5
<1>4. Len(body) \in 0 .. Len(body)
  OBVIOUS
<1>5. sum[Len(body)] \in Bytes
  BY <1>3, <1>4
<1> QED  BY <1>1, <1>5 DEF Checksum

\* Sequences of bytes that are written down.
LEMMA WrittenBytes ==
  ASSUME NEW a \in Bytes, NEW b \in Bytes, NEW c \in Bytes, NEW d \in Bytes
  PROVE  /\ <<>> \in Seq(Bytes) /\ <<a>> \in Seq(Bytes) /\ <<a, b>> \in Seq(Bytes)
         /\ <<a, b, c>> \in Seq(Bytes) /\ <<a, b, c, d>> \in Seq(Bytes)
  OBVIOUS

\* A function code is a byte.
LEMMA FunctionCodeIsByte ==
  ASSUME NEW fc \in FunctionCodes
  PROVE  FunctionCodeToByte(fc) \in Bytes
<1>1. ASSUME NEW bit \in FrameCountBits, NEW req \in RequestTypes, fc = Request(bit, req)
      PROVE  FunctionCodeToByte(fc) \in Bytes
  <2>1. req \in 0 .. 128 /\ fc.kind = "Request" /\ fc.req = req /\ fc.fcb = bit
    BY <1>1 DEF RequestTypes, Request
  <2>2. Fcv(bit) \in 0 .. 1 /\ Fcb(bit) \in 0 .. 1
    BY DEF Fcv, Fcb
  <2> QED  BY <2>1, <2>2 DEF FunctionCodeToByte, Bytes
<1>2. ASSUME NEW st \in ResponseStates, NEW status \in ResponseStatuses, fc = Response(st, status)
      PROVE  FunctionCodeToByte(fc) \in Bytes
  <2>1. st \in 0 .. 3 /\ status \in 0 .. 13 /\ fc.kind = "Response" /\ fc.state = st /\ fc.status = status
    BY <1>2 DEF ResponseStates, ResponseStatuses, Response
  <2> QED  BY <2>1 DEF FunctionCodeToByte, Bytes
<1> QED  BY <1>1, <1>2 DEF FunctionCodes

\* What a telegram is made of.
LEMMA TelegramKinds ==
  ASSUME NEW t, IsTelegram(t)
  PROVE  \/ t = ShortConfirmation /\ t.kind = "ShortConfirmation"
         \/ t = TokenTelegram(t.da, t.sa) /\ t.kind = "Token" /\ t.da \in Bytes /\ t.sa \in Bytes
         \/ /\ t = DataTelegram(t.da, t.sa, t.dsap, t.ssap, t.fc, t.pdu) /\ t.kind = "Data"
            /\ t.da \in 0 .. 127 /\ t.sa \in 0 .. 127 /\ t.fc \in FunctionCodes
            /\ t.dsap \in Seq(Bytes) /\ t.ssap \in Seq(Bytes) /\ t.pdu \in Seq(Bytes)
            /\ Len(t.dsap) <= 1 /\ Len(t.ssap) <= 1
            /\ 3 + Len(t.dsap) + Len(t.ssap) + Len(t.pdu) <= 249
<1>1. ShortConfirmation.kind = "ShortConfirmation"
  BY DEF ShortConfirmation
<1>2. \A da, sa : TokenTelegram(da, sa).kind = "Token"
  BY DEF TokenTelegram
<1>4. CASE t = ShortConfirmation
  BY <1>1, <1>4
<1>5. CASE t = TokenTelegram(t.da, t.sa) /\ {t.da, t.sa} \subseteq Bytes
  <2>1. t.kind = "Token"
    BY <1>2, <1>5, Zenon
  <2> QED  BY <1>5, <2>1
<1>6. CASE /\ t = DataTelegram(t.da, t.sa, t.dsap, t.ssap, t.fc, t.pdu)
           /\ {t.da, t.sa} \subseteq 0 .. 127 /\ t.fc \in FunctionCodes
           /\ {t.dsap, t.ssap, t.pdu} \subseteq Seq(Bytes) /\ Len(t.dsap) <= 1 /\ Len(t.ssap) <= 1
           /\ 3 + Len(t.dsap) + Len(t.ssap) + Len(t.pdu) <= 249
  <2>1. t.kind = "Data"
    <3> DEFINE u == DataTelegram(t.da, t.sa, t.dsap, t.ssap, t.fc, t.pdu)
    <3>1. u.kind = "Data"
      BY DEF DataTelegram
    <3>2. t = u
      BY <1>6
    <3> HIDE DEF u
    <3> QED  BY <3>1, <3>2
  <2>2. t.da \in 0 .. 127 /\ t.sa \in 0 .. 127
    BY <1>6, Zenon
  <2>3. t.dsap \in Seq(Bytes) /\ t.ssap \in Seq(Bytes) /\ t.pdu \in Seq(Bytes)
    BY <1>6, Zenon
  <2> QED  BY <1>6, <2>1, <2>2, <2>3, Zenon
<1> QED  BY <1>4, <1>5, <1>6, Zenon DEF IsTelegram

\* A telegram is sent as bytes.
LEMMA SerializeBytes ==
  ASSUME NEW t, IsTelegram(t)
  PROVE  Serialize(t) \in Seq(Bytes)
<1>0. {SD1, SD2, SD3, SD4, ED, SC} \subseteq Bytes
  BY DEF SD1, SD2, SD3, SD4, ED, SC, Bytes
<1>1. CASE t.kind = "Token"
  <2>2. t.da \in Bytes /\ t.sa \in Bytes
    BY <1>1, TelegramKinds, Zenon
  <2> QED  BY <1>0, <1>1, <2>2, WrittenBytes DEF Serialize
<1>2. CASE t.kind = "ShortConfirmation"
  BY <1>0, <1>2, WrittenBytes DEF Serialize
<1>3. CASE t.kind = "Data"
  <2>2. /\ t.da \in 0 .. 127 /\ t.sa \in 0 .. 127 /\ t.fc \in FunctionCodes
        /\ t.dsap \in Seq(Bytes) /\ t.ssap \in Seq(Bytes) /\ t.pdu \in Seq(Bytes)
        /\ 3 + Len(t.dsap) + Len(t.ssap) + Len(t.pdu) <= 249
    BY <1>3, TelegramKinds, Zenon
  <2> DEFINE da == Flagged(t.da, t.dsap)
             sa == Flagged(t.sa, t.ssap)
             fc == FunctionCodeToByte(t.fc)
             header == <<da, sa, fc>>
             body == header \o t.dsap \o t.ssap \o t.pdu
             length == Len(body)
             head == CASE length = 3 -> <<SD1>> [] length = 11 -> <<SD3>>
                       [] OTHER -> <<SD2, length, length, SD2>>
             sum == Checksum(body)
             tail == <<sum, ED>>
  <2>3. da \in Bytes /\ sa \in Bytes /\ fc \in Bytes
    <3>1. \A address \in 0 .. 127 : address \in Bytes /\ address + 128 \in Bytes
      BY DEF Bytes
    <3> QED  BY <2>2, <3>1, FunctionCodeIsByte DEF Flagged
  <2>4. header \in Seq(Bytes) /\ Len(header) = 3
    <3> HIDE DEF da, sa, fc
    <3> QED  BY <2>3
  <2>5. body \in Seq(Bytes) /\ length \in 0 .. 249
    <3> DEFINE one == header \o t.dsap
               two == one \o t.ssap
    <3> HIDE DEF header
    <3>1. one \in Seq(Bytes) /\ Len(one) = 3 + Len(t.dsap)
      BY <2>2, <2>4, MoreBytes
    <3> HIDE DEF one
    <3>2. two \in Seq(Bytes) /\ Len(two) = 3 + Len(t.dsap) + Len(t.ssap)
      BY <2>2, <3>1, MoreBytes
    <3> HIDE DEF two
    <3>3. body \in Seq(Bytes) /\ length = 3 + Len(t.dsap) + Len(t.ssap) + Len(t.pdu)
      <4>1. body = two \o t.pdu
        BY DEF two, one
      <4> HIDE DEF body
      <4>2. two \o t.pdu \in Seq(Bytes) /\ Len(two \o t.pdu) = Len(two) + Len(t.pdu)
        BY <2>2, <3>2, MoreBytes
      <4> QED  BY <3>2, <4>1, <4>2
    <3> HIDE DEF body, length
    <3>4. Len(t.dsap) \in Nat /\ Len(t.ssap) \in Nat /\ Len(t.pdu) \in Nat
      BY <2>2
    <3>5. length \in 0 .. 249
      <4> DEFINE d == Len(t.dsap)
                 c == Len(t.ssap)
                 l == Len(t.pdu)
      <4>1. length = 3 + d + c + l /\ d \in Nat /\ c \in Nat /\ l \in Nat
        BY <3>3, <3>4
      <4>2. 3 + d + c + l <= 249
        BY <2>2
      <4> HIDE DEF d, c, l
      <4> QED  BY <4>1, <4>2
    <3> QED  BY <3>3, <3>5
  <2>6. sum \in Bytes
    <3> HIDE DEF body
    <3> QED  BY <2>5, ChecksumIsByte
  <2>7. Serialize(t) = head \o body \o tail
    BY <1>3 DEF Serialize, SerializeData
  <2> HIDE DEF body, sum
  <2>8. length \in Bytes
    BY <2>5 DEF Bytes
  <2>9. head \in Seq(Bytes) /\ tail \in Seq(Bytes)
    <3> HIDE DEF length
    <3> QED  BY <1>0, <2>6, <2>8, WrittenBytes
  <2> HIDE DEF head, tail
  <2>10. head \o body \in Seq(Bytes)
    BY <2>5, <2>9, MoreBytes
  <2>11. (head \o body) \o tail \in Seq(Bytes)
    BY <2>9, <2>10, MoreBytes
  <2> QED  BY <2>7, <2>11, Zenon
<1>5. t.kind = "Token" \/ t.kind = "ShortConfirmation" \/ t.kind = "Data"
  BY TelegramKinds, Zenon
<1> QED  BY <1>1, <1>2, <1>3, <1>5, Zenon

\* The source of a decoded data telegram.
LEMMA DecodedSource ==
  ASSUME NEW body, NEW x \in DecodeBody(body)
  PROVE  x.sa = body[2] % 128
<1> DEFINE da == body[1] % 128
           sa == body[2] % 128
           saps == SubSeq(body, 4, 3 + body[1] \div 128 + body[2] \div 128)
           dsap == SubSeq(saps, 1, body[1] \div 128)
           ssap == SubSeq(saps, 1 + body[1] \div 128, Len(saps))
           pdu == SubSeq(body, 4 + Len(saps), Len(body))
<1>1. \E fc : x = DataTelegram(da, sa, dsap, ssap, fc, pdu)
  BY Zenon DEF DecodeBody
<1> HIDE DEF da, sa, dsap, ssap, pdu
<1>2. x.sa = sa
  BY <1>1 DEF DataTelegram
<1> QED  BY <1>2 DEF sa

\* What a buffer is taken for has a length, and a data telegram the addresses of stations.
LEMMA DeserializeFits ==
  ASSUME NEW b \in Seq(Bytes), Deserialize(b).result = "telegram"
  PROVE  /\ Deserialize(b).length \in Nat
         /\ Deserialize(b).telegram.kind = "Data" => Deserialize(b).telegram.sa \in 0 .. 127
<1> DEFINE got == Deserialize(b)
<1>1. ASSUME NEW t, NEW length, got = Telegram(t, length)
      PROVE  got.length = length /\ got.telegram = t
  BY <1>1 DEF Telegram
<1>2. Incomplete.result # "telegram" /\ Invalid.result # "telegram"
  BY DEF Incomplete, Invalid
<1>3. CASE got = Telegram(ShortConfirmation, 1)
  <2> HIDE DEF got
  <2>1. ShortConfirmation.kind # "Data"
    BY DEF ShortConfirmation
  <2> QED  BY <1>1, <1>3, <2>1 DEF got
<1>4. CASE got = Telegram(TokenTelegram(b[2], b[3]), 3)
  <2>1. TokenTelegram(b[2], b[3]).kind # "Data"
    BY DEF TokenTelegram
  <2> HIDE DEF got
  <2> QED  BY <1>1, <1>4, <2>1 DEF got
<1>5. CASE got = DeserializeData(b) /\ b[1] \in {SD1, SD2, SD3}
  <2> DEFINE head == IF b[1] = SD2 THEN 4 ELSE 1
             size == CASE b[1] = SD1 -> 3 [] b[1] = SD3 -> 11 [] OTHER -> b[2]
             body == SubSeq(b, head + 1, head + size)
             length == head + size + 2
             t == CHOOSE x \in DecodeBody(body) : TRUE
  <2>1. /\ got = Telegram(t, length) /\ DecodeBody(body) # {} /\ Len(b) >= 6 /\ ~(Len(b) < length)
    BY <1>2, <1>5 DEF DeserializeData
  <2>2. head \in {1, 4} /\ size \in Nat
    <3>1. b[2] \in Bytes
      BY <2>1
    <3>2. b[2] \in Nat
      <4>1. \A x \in Bytes : x \in Nat
        BY DEF Bytes
      <4> QED  BY <3>1, <4>1
    <3> QED  BY <3>2
  <2>3. length \in Nat
    <3> HIDE DEF head, size
    <3> QED  BY <2>2
  <2>4. body \in Seq(Bytes) /\ Len(body) = size
    <3> HIDE DEF head, size
    <3>1. head + 1 \in 1 .. Len(b) + 1 /\ head + size \in head .. Len(b)
      BY <2>1, <2>2
    <3>2. \A i \in head + 1 .. head + size : b[i] \in Bytes
      BY <2>2, <3>1
    <3> QED  BY <2>2, <3>1, <3>2, SubSeqProperties
  <2>5. ASSUME NEW x \in DecodeBody(body) PROVE x.sa = body[2] % 128
    BY <2>5, DecodedSource
  <2>6. t.sa = body[2] % 128
    BY <2>1, <2>5
  <2>7. size >= 2
    <3>1. b[1] = SD2 => ~(b[2] < 3)
      <4>1. DeserializeData(b) # Invalid
        BY <1>2, <1>5
      <4>2. ~(Len(b) < 6)
        BY <2>1
      <4>3. ASSUME b[1] = SD2, b[2] < 3 PROVE DeserializeData(b) = Invalid
        BY <4>2, <4>3, Zenon DEF DeserializeData
      <4> QED  BY <4>1, <4>3, Zenon
    <3> QED  BY <1>5, <2>2, <3>1
  <2>8. body[2] % 128 \in 0 .. 127
    <3> HIDE DEF size, body
    <3>1. body[2] \in Bytes
      BY <2>2, <2>4, <2>7
    <3>2. \A x \in Bytes : x % 128 \in 0 .. 127
      BY DEF Bytes
    <3> QED  BY <3>1, <3>2
  <2> HIDE DEF got, t, length
  <2>9. got.length = length /\ got.telegram = t
    BY <1>1, <2>1
  <2>10. got.length \in Nat /\ got.telegram.sa \in 0 .. 127
    BY <2>3, <2>6, <2>8, <2>9
  <2> QED  BY <2>10 DEF got
<1>6. got # Incomplete /\ got # Invalid
  BY <1>2
<1>7. \/ got = Telegram(ShortConfirmation, 1)
      \/ got = Telegram(TokenTelegram(b[2], b[3]), 3)
      \/ got = DeserializeData(b) /\ b[1] \in {SD1, SD2, SD3}
  BY <1>6 DEF Deserialize
<1> QED  BY <1>3, <1>4, <1>5, <1>7

-----------------------------------------------------------------------------
(* What is written is read back. *)

\* A function code is read as the one that was sent.
LEMMA FunctionCodeRoundTrip ==
  ASSUME NEW fc \in FunctionCodes
  PROVE  FunctionCodeOfByte(FunctionCodeToByte(fc)) = {fc}
<1>1. ASSUME NEW bit \in FrameCountBits, NEW req \in RequestTypes, fc = Request(bit, req)
      PROVE  FunctionCodeOfByte(FunctionCodeToByte(fc)) = {fc}
  <2> DEFINE v == Fcv(bit)
             f == Fcb(bit)
             byte == 64 + req + 16 * v + 32 * f
  <2>1. fc.kind = "Request" /\ fc.req = req /\ fc.fcb = bit
    BY <1>1 DEF Request
  <2>2. FunctionCodeToByte(fc) = byte
    BY <2>1 DEF FunctionCodeToByte
  <2>3. req \in 0 .. 15 \/ req = 128
    BY DEF RequestTypes
  <2>4. v \in 0 .. 1 /\ f \in 0 .. 1
    BY DEF Fcv, Fcb
  <2>5. /\ (byte \div 64) % 2 = 1 /\ (byte \div 16) % 4 = v + 2 * f
        /\ (byte % 16) + 128 * (byte \div 128) = req
    <3> HIDE DEF v, f
    <3>1. CASE req = 128
      BY <2>4, <3>1
    <3>2. CASE req \in 0 .. 15
      BY <2>4, <3>2
    <3> QED  BY <2>3, <3>1, <3>2
  <2>6. {c \in FrameCountBits : v + 2 * f = Fcv(c) + 2 * Fcb(c)} = {bit}
    BY DEF FrameCountBits, Fcv, Fcb
  <2>7. RequestTypes \cap {req} = {req}
    OBVIOUS
  <2> HIDE DEF byte, v, f
  <2>8. FunctionCodeOfByte(byte) = {Request(c, r) : c \in {bit}, r \in {req}}
    BY <2>5, <2>6, <2>7 DEF FunctionCodeOfByte
  <2> QED  BY <1>1, <2>2, <2>8
<1>2. ASSUME NEW st \in ResponseStates, NEW status \in ResponseStatuses, fc = Response(st, status)
      PROVE  FunctionCodeOfByte(FunctionCodeToByte(fc)) = {fc}
  <2> DEFINE byte == 16 * st + status
  <2>1. fc.kind = "Response" /\ fc.state = st /\ fc.status = status
    BY <1>2 DEF Response
  <2>2. FunctionCodeToByte(fc) = byte
    BY <2>1 DEF FunctionCodeToByte
  <2>3. st \in 0 .. 3 /\ status \in 0 .. 15
    BY DEF ResponseStates, ResponseStatuses
  <2>4. (byte \div 64) % 2 = 0 /\ (byte \div 16) % 4 = st /\ byte % 16 = status
    BY <2>3
  <2>5. ResponseStatuses \cap {status} = {status}
    OBVIOUS
  <2> HIDE DEF byte
  <2>6. FunctionCodeOfByte(byte) = {Response(st, s) : s \in {status}}
    BY <2>4, <2>5 DEF FunctionCodeOfByte
  <2> QED  BY <1>2, <2>2, <2>6
<1> QED  BY <1>1, <1>2 DEF FunctionCodes

\* Bytes between bytes: where each of three sequences lies when they are put together.
Lies(q, r, s) ==
  /\ Len(q \o r \o s) = Len(q) + Len(r) + Len(s)
  /\ \A i \in 1 .. Len(q) : (q \o r \o s)[i] = q[i]
  /\ \A i \in 1 .. Len(r) : (q \o r \o s)[Len(q) + i] = r[i]
  /\ \A i \in 1 .. Len(s) : (q \o r \o s)[Len(q) + Len(r) + i] = s[i]
  /\ SubSeq(q \o r \o s, Len(q) + 1, Len(q) + Len(r)) = r

\* That is where they lie.
LEMMA Between ==
  ASSUME NEW q \in Seq(Bytes), NEW r \in Seq(Bytes), NEW s \in Seq(Bytes)
  PROVE  Lies(q, r, s)
<1> DEFINE a == q \o r
           b == a \o s
<1>1. /\ a \in Seq(Bytes) /\ Len(a) = Len(q) + Len(r)
      /\ \A i \in 1 .. Len(a) : a[i] = IF i <= Len(q) THEN q[i] ELSE r[i - Len(q)]
  BY ConcatProperties
<1> HIDE DEF a
<1>2. /\ b \in Seq(Bytes) /\ Len(b) = Len(a) + Len(s)
      /\ \A i \in 1 .. Len(b) : b[i] = IF i <= Len(a) THEN a[i] ELSE s[i - Len(a)]
  <2>1. /\ b \in Seq(Bytes) /\ Len(b) = Len(a) + Len(s)
        /\ \A i \in 1 .. Len(a) + Len(s) : b[i] = IF i <= Len(a) THEN a[i] ELSE s[i - Len(a)]
    <3>1. a \in Seq(Bytes) /\ s \in Seq(Bytes)
      BY <1>1
    <3>2. b \in Seq(Bytes)
      BY <3>1, ConcatProperties
    <3>3. Len(b) = Len(a) + Len(s)
      BY <3>1, ConcatProperties
    <3>4. \A i \in 1 .. Len(a) + Len(s) : b[i] = IF i <= Len(a) THEN a[i] ELSE s[i - Len(a)]
      BY <3>1, ConcatProperties
    <3> QED  BY <3>2, <3>3, <3>4
  <2> HIDE DEF b
  <2> QED  BY <2>1
<1> HIDE DEF b
<1>3. Len(q) \in Nat /\ Len(r) \in Nat /\ Len(s) \in Nat
  OBVIOUS
<1>4. \A i \in 1 .. Len(q) : b[i] = q[i]
  <2> TAKE i \in 1 .. Len(q)
  <2>1. i \in 1 .. Len(a) /\ i \in 1 .. Len(b) /\ i <= Len(a) /\ i <= Len(q)
    BY <1>1, <1>2, <1>3
  <2> QED  BY <1>1, <1>2, <2>1
<1>5. \A i \in 1 .. Len(r) : b[Len(q) + i] = r[i]
  <2> TAKE i \in 1 .. Len(r)
  <2> DEFINE k == Len(q) + i
  <2>1. k \in 1 .. Len(a) /\ k \in 1 .. Len(b) /\ k <= Len(a) /\ ~(k <= Len(q)) /\ k - Len(q) = i
    BY <1>1, <1>2, <1>3
  <2> HIDE DEF k
  <2>2. b[k] = r[i]
    BY <1>1, <1>2, <2>1
  <2> QED  BY <2>2 DEF k
<1>6. \A i \in 1 .. Len(s) : b[Len(q) + Len(r) + i] = s[i]
  <2> TAKE i \in 1 .. Len(s)
  <2> DEFINE k == Len(q) + Len(r) + i
  <2>1. k \in 1 .. Len(b) /\ ~(k <= Len(a)) /\ k - Len(a) = i
    BY <1>1, <1>2, <1>3
  <2> HIDE DEF k
  <2>2. b[k] = s[i]
    BY <1>2, <2>1
  <2> QED  BY <2>2 DEF k
<1>7. SubSeq(b, Len(q) + 1, Len(q) + Len(r)) = r
  <2> DEFINE m == Len(q) + 1
             n == Len(q) + Len(r)
             c == SubSeq(b, m, n)
  <2>1. m \in 1 .. Len(b) + 1 /\ n \in m - 1 .. Len(b) /\ n - m + 1 = Len(r)
    BY <1>1, <1>2, <1>3
  <2>2. \A i \in m .. n : b[i] \in Bytes
    BY <1>2, <1>3, <2>1
  <2>3. c \in Seq(Bytes) /\ Len(c) = Len(r) /\ \A i \in 1 .. Len(r) : c[i] = b[m + i - 1]
    <3> HIDE DEF m, n
    <3> QED  BY <1>2, <2>1, <2>2, SubSeqProperties
  <2>4. \A i \in 1 .. Len(r) : m + i - 1 = Len(q) + i
    BY <1>3
  <2> HIDE DEF c, m
  <2>5. \A i \in 1 .. Len(r) : c[i] = r[i]
    BY <1>5, <2>3, <2>4
  <2>6. c = r
    BY <2>3, <2>5, SeqEqual
  <2> QED  BY <2>6 DEF c, m
<1> QED  BY <1>1, <1>2, <1>4, <1>5, <1>6, <1>7 DEF a, b, Lies

\* The parts of a data telegram on the wire.
BodyOf(t) ==
  <<Flagged(t.da, t.dsap), Flagged(t.sa, t.ssap), FunctionCodeToByte(t.fc)>>
    \o t.dsap \o t.ssap \o t.pdu

HeadOf(length) ==
  CASE length = 3 -> <<SD1>> [] length = 11 -> <<SD3>> [] OTHER -> <<SD2, length, length, SD2>>

\* An address byte says the address, and whether there is a service access point.
Flags(address, sap) ==
  /\ Flagged(address, sap) \in Bytes /\ Flagged(address, sap) \div 128 = Len(sap)
  /\ Flagged(address, sap) % 128 = address

\* The body of a data telegram says what the telegram is.
LEMMA BodyRoundTrip ==
  ASSUME NEW t, IsTelegram(t), t.kind = "Data"
  PROVE  /\ BodyOf(t) \in Seq(Bytes) /\ Len(BodyOf(t)) \in 3 .. 249
         /\ DecodeBody(BodyOf(t)) = {t}
<1>1. /\ t = DataTelegram(t.da, t.sa, t.dsap, t.ssap, t.fc, t.pdu)
      /\ t.da \in 0 .. 127 /\ t.sa \in 0 .. 127 /\ t.fc \in FunctionCodes
      /\ t.dsap \in Seq(Bytes) /\ t.ssap \in Seq(Bytes) /\ t.pdu \in Seq(Bytes)
      /\ Len(t.dsap) <= 1 /\ Len(t.ssap) <= 1
      /\ 3 + Len(t.dsap) + Len(t.ssap) + Len(t.pdu) <= 249
  BY TelegramKinds, Zenon
<1> DEFINE da == Flagged(t.da, t.dsap)
           sa == Flagged(t.sa, t.ssap)
           fc == FunctionCodeToByte(t.fc)
           header == <<da, sa, fc>>
           saps == t.dsap \o t.ssap
           d == Len(t.dsap)
           s == Len(t.ssap)
           l == Len(t.pdu)
           body == header \o saps \o t.pdu
<1>2. d \in 0 .. 1 /\ s \in 0 .. 1 /\ l \in Nat
  <2>1. Len(t.dsap) \in Nat /\ Len(t.ssap) \in Nat /\ Len(t.pdu) \in Nat
    BY <1>1, LenProperties
  <2>2. \A n \in Nat : n <= 1 => n \in 0 .. 1
    OBVIOUS
  <2> QED  BY <1>1, <2>1, <2>2
<1>3. /\ da \in Bytes /\ da \div 128 = d /\ da % 128 = t.da
      /\ sa \in Bytes /\ sa \div 128 = s /\ sa % 128 = t.sa
  <2>1. ASSUME NEW address \in 0 .. 127, NEW sap \in Seq(Bytes), Len(sap) <= 1
        PROVE  Flags(address, sap)
    <3>1. CASE sap = <<>>
      <4>1. Flagged(address, sap) = address /\ Len(sap) = 0
        BY <3>1 DEF Flagged
      <4>2. address \in Bytes /\ address \div 128 = 0 /\ address % 128 = address
        BY DEF Bytes
      <4> QED  BY <4>1, <4>2 DEF Flags
    <3>2. CASE sap # <<>>
      <4>1. Len(sap) = 1
        <5>1. sap \in Seq(Bytes) /\ Len(sap) \in Nat /\ Len(sap) # 0
          BY <2>1, <3>2, EmptySeq
        <5> DEFINE n == Len(sap)
        <5>2. n \in Nat /\ n # 0 /\ n <= 1
          BY <2>1, <5>1
        <5> HIDE DEF n
        <5>3. n = 1
          BY <5>2
        <5> QED  BY <5>3 DEF n
      <4>2. Flagged(address, sap) = address + 128
        BY <3>2 DEF Flagged
      <4>3. address + 128 \in Bytes /\ (address + 128) \div 128 = 1 /\ (address + 128) % 128 = address
        BY DEF Bytes
      <4> QED  BY <4>1, <4>2, <4>3 DEF Flags
    <3> QED  BY <3>1, <3>2
  <2>2. Flags(t.da, t.dsap) /\ Flags(t.sa, t.ssap)
    BY <1>1, <2>1
  <2> QED  BY <2>2 DEF Flags
<1>4. fc \in Bytes /\ FunctionCodeOfByte(fc) = {t.fc}
  BY <1>1, FunctionCodeIsByte, FunctionCodeRoundTrip
<1> HIDE DEF da, sa, fc
<1>5. /\ header \in Seq(Bytes) /\ Len(header) = 3
      /\ header[1] = da /\ header[2] = sa /\ header[3] = fc
  BY <1>3, <1>4
<1> HIDE DEF header
<1>6. saps \in Seq(Bytes) /\ Len(saps) = d + s
  BY <1>1, MoreBytes
<1>7. SubSeq(saps, 1, d) = t.dsap /\ SubSeq(saps, 1 + d, d + s) = t.ssap
  <2> DEFINE nothing == <<>>
  <2>1. nothing \in Seq(Bytes) /\ Len(nothing) = 0
    BY EmptySeq
  <2>2. saps = nothing \o t.dsap \o t.ssap /\ saps = t.dsap \o t.ssap \o nothing
    BY <1>1, <1>6, ConcatEmptySeq
  <2> HIDE DEF nothing
  <2>3. SubSeq(nothing \o t.dsap \o t.ssap, Len(nothing) + 1, Len(nothing) + d) = t.dsap
    <3>1. Lies(nothing, t.dsap, t.ssap)
      BY <1>1, <2>1, Between, Zenon
    <3> QED  BY <3>1 DEF Lies
  <2>4. SubSeq(t.dsap \o t.ssap \o nothing, d + 1, d + s) = t.ssap
    <3>1. Lies(t.dsap, t.ssap, nothing)
      BY <1>1, <2>1, Between, Zenon
    <3> QED  BY <3>1 DEF Lies
  <2> HIDE DEF saps
  <2>5. SubSeq(saps, 0 + 1, 0 + d) = t.dsap
    BY <2>1, <2>2, <2>3
  <2>6. SubSeq(saps, d + 1, d + s) = t.ssap
    BY <2>2, <2>4
  <2>7. 0 + 1 = 1 /\ 0 + d = d /\ d + 1 = 1 + d
    BY <1>2
  <2> QED  BY <2>5, <2>6, <2>7
<1> HIDE DEF saps
<1>8. /\ Len(body) = 3 + (d + s) + l
      /\ \A i \in 1 .. 3 : body[i] = header[i]
      /\ SubSeq(body, 3 + 1, 3 + (d + s)) = saps
  <2>1. /\ Len(body) = Len(header) + Len(saps) + Len(t.pdu)
        /\ \A i \in 1 .. Len(header) : body[i] = header[i]
        /\ SubSeq(body, Len(header) + 1, Len(header) + Len(saps)) = saps
    <3>1. Lies(header, saps, t.pdu)
      BY <1>1, <1>5, <1>6, Between, Zenon
    <3> QED  BY <3>1 DEF Lies
  <2> HIDE DEF body
  <2> QED  BY <1>5, <1>6, <2>1
<1>9. body \in Seq(Bytes)
  <2>1. header \o saps \in Seq(Bytes)
    BY <1>5, <1>6, MoreBytes
  <2> QED  BY <1>1, <2>1, MoreBytes
<1>10. SubSeq(body, 4 + (d + s), Len(body)) = t.pdu
  <2> DEFINE nothing == <<>>
             before == header \o saps
  <2>1. nothing \in Seq(Bytes) /\ Len(nothing) = 0
    BY EmptySeq
  <2>2. before \in Seq(Bytes) /\ Len(before) = 3 + (d + s)
    BY <1>5, <1>6, MoreBytes
  <2>3. body = before \o t.pdu \o nothing
    BY <1>9, <2>2, ConcatEmptySeq
  <2> HIDE DEF nothing, before
  <2>4. SubSeq(before \o t.pdu \o nothing, Len(before) + 1, Len(before) + l) = t.pdu
    <3>1. Lies(before, t.pdu, nothing)
      BY <1>1, <2>1, <2>2, Between, Zenon
    <3> QED  BY <3>1 DEF Lies
  <2>5. Len(before) + 1 = 4 + (d + s) /\ Len(before) + l = Len(body)
    <3> HIDE DEF body, d, s, l
    <3> QED  BY <1>2, <1>8, <2>2
  <2> HIDE DEF body
  <2> QED  BY <2>3, <2>4, <2>5
<1>11. body = BodyOf(t)
  <2>1. (header \o t.dsap) \o t.ssap = header \o saps
    <3> DEFINE q == t.dsap
               r == t.ssap
    <3>1. q \in Seq(Bytes) /\ r \in Seq(Bytes) /\ header \in Seq(Bytes)
      BY <1>1, <1>5
    <3>2. saps = q \o r
      BY DEF saps
    <3> HIDE DEF q, r
    <3>3. (header \o q) \o r = header \o (q \o r)
      BY <3>1, ConcatAssociative
    <3>4. (header \o q) \o r = header \o saps
      BY <3>2, <3>3
    <3> QED  BY <3>4 DEF q, r
  <2> QED  BY <2>1 DEF BodyOf, header, da, sa, fc
<1> HIDE DEF body
<1>12. body[1] = da /\ body[2] = sa /\ body[3] = fc
  <2>1. 1 \in 1 .. 3 /\ 2 \in 1 .. 3 /\ 3 \in 1 .. 3
    OBVIOUS
  <2>2. body[1] = header[1] /\ body[2] = header[2] /\ body[3] = header[3]
    BY <1>8, <2>1, Zenon
  <2> QED  BY <1>5, <2>2
<1>13. Len(body) \in 3 .. 249 /\ 3 + d + s <= Len(body)
  <2>1. 3 + d + s + l <= 249
    BY <1>1
  <2> HIDE DEF d, s, l
  <2> QED  BY <1>2, <1>8, <2>1
<1>14. DecodeBody(body) = {t}
  <2> HIDE DEF d, s, l
  <2>1. 3 + d + s = 3 + (d + s) /\ 3 + 1 = 4
    BY <1>2
  <2>2. SubSeq(body, 4, 3 + d + s) = saps
    BY <1>8, <2>1
  <2>3. {c \in {t.fc} : 3 + d + s <= Len(body)} = {t.fc}
    BY <1>13
  <2>4. Len(saps) = d + s
    BY <1>6 DEF d, s
  <2>5. DecodeBody(body) =
          {DataTelegram(t.da, t.sa, SubSeq(saps, 1, d), SubSeq(saps, 1 + d, Len(saps)), c,
                        SubSeq(body, 4 + Len(saps), Len(body))) : c \in {t.fc}}
    BY <1>3, <1>4, <1>12, <2>2, <2>3 DEF DecodeBody, d, s
  <2>6. SubSeq(saps, 1, d) = t.dsap /\ SubSeq(saps, 1 + d, d + s) = t.ssap
    BY <1>7 DEF d, s
  <2>7. SubSeq(body, 4 + (d + s), Len(body)) = t.pdu
    BY <1>10 DEF d, s
  <2>8. DecodeBody(body) = {DataTelegram(t.da, t.sa, t.dsap, t.ssap, c, t.pdu) : c \in {t.fc}}
    BY <2>4, <2>5, <2>6, <2>7
  <2> QED  BY <1>1, <2>8
<1> QED  BY <1>9, <1>11, <1>13, <1>14

\* The bytes of a data telegram, and of what follows it.
HeadLength(length) == IF length \in {3, 11} THEN 1 ELSE 4
OnWire(t, length, b) ==
  /\ b \in Seq(Bytes) /\ length \in 3 .. 249 /\ Len(b) >= HeadLength(length) + length + 2
  /\ b[1] = (IF length = 3 THEN SD1 ELSE IF length = 11 THEN SD3 ELSE SD2)
  /\ b[1] = SD2 => b[2] = length /\ b[3] = length
  /\ SubSeq(b, HeadLength(length) + 1, HeadLength(length) + length) = BodyOf(t)
  /\ b[HeadLength(length) + length + 1] = Checksum(BodyOf(t))
  /\ b[HeadLength(length) + length + 2] = ED

\* This is where the parts of a data telegram are.
LEMMA DataOnWire ==
  ASSUME NEW t, IsTelegram(t), t.kind = "Data", NEW rest \in Seq(Bytes),
         NEW length, length = Len(BodyOf(t))
  PROVE  /\ OnWire(t, length, Serialize(t) \o rest)
         /\ Len(Serialize(t)) = HeadLength(length) + length + 2
<1> DEFINE body == BodyOf(t)
           head == HeadOf(length)
           sum == Checksum(body)
           tail == <<sum, ED>>
           h == HeadLength(length)
           frame == head \o body \o tail
           b == frame \o rest
           behind == tail \o rest
<1>1. body \in Seq(Bytes) /\ length \in 3 .. 249 /\ length = Len(body)
  BY BodyRoundTrip
<1>2. Serialize(t) = frame
  BY DEF Serialize, SerializeData, BodyOf, HeadOf
<1>3. /\ {SD1, SD2, SD3, ED} \subseteq Bytes /\ length \in Bytes /\ sum \in Bytes
      /\ SD1 # SD2 /\ SD3 # SD2
  <2>1. {SD1, SD2, SD3, ED} \subseteq Bytes /\ SD1 # SD2 /\ SD3 # SD2
    BY DEF SD1, SD2, SD3, ED, Bytes
  <2>2. \A n \in 3 .. 249 : n \in Bytes
    BY DEF Bytes
  <2> HIDE DEF body
  <2> QED  BY <1>1, <2>1, <2>2, ChecksumIsByte
<1> HIDE DEF body, sum
<1>4. /\ head \in Seq(Bytes) /\ Len(head) = h /\ h \in {1, 4}
      /\ head[1] = (IF length = 3 THEN SD1 ELSE IF length = 11 THEN SD3 ELSE SD2)
      /\ head[1] = SD2 => head[2] = length /\ head[3] = length /\ h = 4
  <2>1. CASE length = 3
    BY <1>3, <2>1 DEF HeadOf, HeadLength
  <2>2. CASE length = 11
    BY <1>3, <2>2 DEF HeadOf, HeadLength
  <2>3. CASE length # 3 /\ length # 11
    <3>1. head = <<SD2, length, length, SD2>> /\ h = 4
      BY <2>3 DEF HeadOf, HeadLength
    <3> HIDE DEF head, h
    <3>2. head \in Seq(Bytes) /\ Len(head) = 4
      BY <1>3, <3>1
    <3>3. head[1] = SD2 /\ head[2] = length /\ head[3] = length
      BY <3>1
    <3> QED  BY <2>3, <3>1, <3>2, <3>3
  <2> QED  BY <2>1, <2>2, <2>3
<1> HIDE DEF head, h
<1>5. tail \in Seq(Bytes) /\ Len(tail) = 2 /\ tail[1] = sum /\ tail[2] = ED
  BY <1>3
<1> HIDE DEF tail
<1>6. /\ behind \in Seq(Bytes) /\ Len(behind) = 2 + Len(rest)
      /\ behind[1] = sum /\ behind[2] = ED
  <2>1. 1 \in 1 .. Len(tail) /\ 2 \in 1 .. Len(tail)
    BY <1>5
  <2>2. behind \in Seq(Bytes) /\ Len(behind) = Len(tail) + Len(rest)
    BY <1>5, MoreBytes
  <2>3. \A i \in 1 .. Len(tail) : behind[i] = tail[i]
    BY <1>5, FirstBytes
  <2> HIDE DEF behind
  <2>4. behind[1] = tail[1] /\ behind[2] = tail[2]
    BY <2>1, <2>3, Zenon
  <2> QED  BY <1>5, <2>2, <2>4
<1>7. b = head \o body \o behind
  <2>1. head \o body \in Seq(Bytes)
    BY <1>1, <1>4, MoreBytes
  <2> DEFINE q == head \o body
  <2> HIDE DEF q
  <2>2. q \in Seq(Bytes)
    BY <2>1 DEF q
  <2>3. (q \o tail) \o rest = q \o (tail \o rest)
    BY <1>5, <2>2, ConcatAssociative
  <2> QED  BY <2>3 DEF q
<1> HIDE DEF behind
<1>8. Lies(head, body, behind) /\ Lies(head, body, tail)
  BY <1>1, <1>4, <1>5, <1>6, Between, Zenon
<1>9. Len(frame) = h + length + 2
  BY <1>1, <1>4, <1>5, <1>8 DEF Lies
<1>10. frame \in Seq(Bytes) /\ b \in Seq(Bytes)
  <2>1. head \o body \in Seq(Bytes)
    BY <1>1, <1>4, MoreBytes
  <2>2. frame \in Seq(Bytes)
    BY <1>5, <2>1, MoreBytes
  <2> HIDE DEF frame
  <2> QED  BY <2>2, MoreBytes
<1> HIDE DEF frame, b
<1>11. /\ Len(b) = h + length + Len(behind)
       /\ \A i \in 1 .. h : b[i] = head[i]
       /\ \A i \in 1 .. Len(behind) : b[h + length + i] = behind[i]
       /\ SubSeq(b, h + 1, h + length) = body
  BY <1>1, <1>4, <1>7, <1>8 DEF Lies
<1>12. Len(rest) \in Nat /\ 1 \in 1 .. Len(behind) /\ 2 \in 1 .. Len(behind)
  BY <1>6
<1>13. b[h + length + 1] = sum /\ b[h + length + 2] = ED
  BY <1>6, <1>11, <1>12
<1>14. Len(b) >= h + length + 2
  <2> DEFINE n == Len(rest)
  <2>1. n \in Nat /\ Len(b) = h + length + (2 + n)
    BY <1>6, <1>11, <1>12
  <2> HIDE DEF n
  <2> QED  BY <1>1, <1>4, <2>1
<1>15. b[1] = head[1] /\ (h = 4 => b[2] = head[2] /\ b[3] = head[3])
  <2>1. 1 \in 1 .. h /\ (h = 4 => 2 \in 1 .. h /\ 3 \in 1 .. h)
    BY <1>4
  <2> QED  BY <1>11, <2>1
<1>16. OnWire(t, length, b)
  BY <1>1, <1>4, <1>10, <1>11, <1>13, <1>14, <1>15 DEF OnWire, h, body, sum
<1> QED  BY <1>2, <1>9, <1>16 DEF b, h

\* What the drivers hand over is what was sent: a telegram that a buffer begins with is read
\* as itself, whatever has been received behind it (Telegram::serialize() and deserialize()).
THEOREM TelegramRoundTrip ==
  ASSUME NEW t, IsTelegram(t), NEW rest \in Seq(Bytes)
  PROVE  Deserialize(Serialize(t) \o rest) = Telegram(t, Len(Serialize(t)))
<1> DEFINE frame == Serialize(t)
           b == frame \o rest
<1>0. SC # SD4 /\ SD4 \notin {SD1, SD2, SD3} /\ SC \notin {SD1, SD2, SD3}
  BY DEF SC, SD4, SD1, SD2, SD3
<1>1. CASE t = ShortConfirmation /\ t.kind = "ShortConfirmation"
  <2>1. frame = <<SC>>
    BY <1>1 DEF Serialize
  <2>2. frame \in Seq(Bytes) /\ Len(frame) = 1 /\ frame[1] = SC
    BY <2>1, SerializeBytes
  <2> HIDE DEF frame
  <2>3. Len(b) > 0 /\ b[1] = SC /\ b # <<>>
    BY <2>2, ConcatProperties
  <2> HIDE DEF b
  <2>4. Deserialize(b) = Telegram(ShortConfirmation, 1)
    BY <1>0, <2>3 DEF Deserialize
  <2> QED  BY <1>1, <2>2, <2>4 DEF b, frame
<1>2. CASE t = TokenTelegram(t.da, t.sa) /\ t.kind = "Token" /\ t.da \in Bytes /\ t.sa \in Bytes
  <2>1. frame = <<SD4, t.da, t.sa>>
    BY <1>2 DEF Serialize
  <2>2. /\ frame \in Seq(Bytes) /\ Len(frame) = 3 /\ frame[1] = SD4
        /\ frame[2] = t.da /\ frame[3] = t.sa
    <3>1. frame \in Seq(Bytes)
      BY SerializeBytes
    <3> HIDE DEF frame
    <3> QED  BY <2>1, <3>1
  <2> HIDE DEF frame
  <2>3. /\ Len(b) >= 3 /\ Len(b) \in Nat /\ b # <<>>
        /\ b[1] = SD4 /\ b[2] = t.da /\ b[3] = t.sa
    <3>1. Len(rest) \in Nat /\ \A n \in Nat : 3 + n >= 3 /\ 3 + n \in Nat /\ 3 + n # 0
      BY LenProperties
    <3>2. Len(b) = 3 + Len(rest) /\ \A i \in 1 .. 3 : b[i] = frame[i]
      BY <2>2, FirstBytes
    <3> HIDE DEF b
    <3>3. Len(b) >= 3 /\ Len(b) \in Nat /\ Len(b) # 0
      BY <3>1, <3>2
    <3>4. 1 \in 1 .. 3 /\ 2 \in 1 .. 3 /\ 3 \in 1 .. 3
      OBVIOUS
    <3>5. b[1] = frame[1] /\ b[2] = frame[2] /\ b[3] = frame[3]
      BY <3>2, <3>4, Zenon
    <3>6. b # <<>>
      BY <3>3
    <3> QED  BY <2>2, <3>3, <3>5, <3>6
  <2> HIDE DEF b
  <2>4. ~(Len(b) < 3) /\ Len(b) > 0
    BY <2>3
  <2>5. Deserialize(b) = Telegram(TokenTelegram(b[2], b[3]), 3)
    BY <1>0, <2>3, <2>4 DEF Deserialize
  <2>6. Deserialize(b) = Telegram(t, 3)
    BY <1>2, <2>3, <2>5
  <2> QED  BY <2>2, <2>6 DEF b, frame
<1>3. CASE t.kind = "Data"
  <2> DEFINE length == Len(BodyOf(t))
             h == HeadLength(length)
  <2>1. OnWire(t, length, b) /\ Len(frame) = h + length + 2
    BY <1>3, DataOnWire
  <2>2. DecodeBody(BodyOf(t)) = {t}
    BY <1>3, BodyRoundTrip
  <2> HIDE DEF frame, b, length
  <2> DEFINE head == IF b[1] = SD2 THEN 4 ELSE 1
             size == CASE b[1] = SD1 -> 3 [] b[1] = SD3 -> 11 [] OTHER -> b[2]
             body == SubSeq(b, head + 1, head + size)
             all == head + size + 2
  <2>3. SD1 # SD2 /\ SD3 # SD2 /\ SD1 # SD3
    BY DEF SD1, SD2, SD3
  <2>4. head = h /\ size = length
    BY <2>1, <2>3 DEF OnWire, HeadLength
  <2>5. /\ length \in 3 .. 249 /\ h \in {1, 4} /\ Len(b) \in Nat /\ Len(b) >= h + length + 2
        /\ b[1] \in {SD1, SD2, SD3}
        /\ b[1] = SD2 => b[2] = length /\ b[3] = length
    BY <2>1 DEF OnWire, HeadLength
  <2> HIDE DEF h, head, size
  <2>6. body = BodyOf(t) /\ b[all - 1] = Checksum(BodyOf(t)) /\ b[all] = ED
    <3>1. all - 1 = h + length + 1
      BY <2>4, <2>5
    <3> QED  BY <2>1, <2>4, <3>1 DEF OnWire, h
  <2>7. ~(Len(b) < 6) /\ ~(Len(b) < all)
    BY <2>4, <2>5
  <2>8. ~(b[1] = SD2 /\ (b[2] # b[3] \/ b[2] < 3))
    BY <2>5
  <2>9. DeserializeData(b) = Telegram(CHOOSE x \in DecodeBody(body) : TRUE, all)
    <3>1. ~(DecodeBody(body) = {} \/ Checksum(body) # b[all - 1] \/ b[all] # ED)
      BY <2>2, <2>6
    <3> QED  BY <2>7, <2>8, <3>1, Zenon DEF DeserializeData, head, size
  <2>10. (CHOOSE x \in DecodeBody(body) : TRUE) = t
    <3>1. DecodeBody(body) = {t}
      BY <2>2, <2>6
    <3> HIDE DEF body
    <3> QED  BY <3>1
  <2>11. DeserializeData(b) = Telegram(t, Len(frame))
    BY <2>1, <2>4, <2>9, <2>10
  <2>12. Deserialize(b) = DeserializeData(b)
    <3>1. b # <<>> /\ Len(b) > 0
      BY <2>7, <2>5
    <3> QED  BY <1>0, <2>5, <3>1 DEF Deserialize
  <2> QED  BY <2>11, <2>12 DEF b, frame
<1> QED  BY <1>1, <1>2, <1>3, TelegramKinds, Zenon

\* A part of a telegram is not taken for anything: the drivers wait for the rest of it
\* (Telegram::deserialize() on a buffer that has not been received completely).
THEOREM PartIsIncomplete ==
  ASSUME NEW t, IsTelegram(t), NEW n \in 0 .. Len(Serialize(t)) - 1
  PROVE  Deserialize(SubSeq(Serialize(t), 1, n)) = Incomplete
<1> DEFINE frame == Serialize(t)
           c == SubSeq(frame, 1, n)
<1>0. SC # SD4 /\ SD4 \notin {SD1, SD2, SD3} /\ SC \notin {SD1, SD2, SD3}
  BY DEF SC, SD4, SD1, SD2, SD3
<1>1. frame \in Seq(Bytes) /\ Len(frame) \in Nat
  BY SerializeBytes, LenProperties
<1>2. /\ c \in Seq(Bytes) /\ Len(c) = n /\ n \in Nat /\ n < Len(frame)
      /\ \A i \in 1 .. n : c[i] = frame[i]
  <2> HIDE DEF frame
  <2>1. n \in Nat /\ n < Len(frame) /\ \A i \in 1 .. n : frame[i] \in Bytes
    BY <1>1 DEF frame
  <2>2. \A i \in 1 .. n : 1 + i - 1 = i
    BY <2>1
  <2>3. /\ c \in Seq(Bytes) /\ Len(c) = (IF 1 <= n THEN n - 1 + 1 ELSE 0)
        /\ \A i \in 1 .. n - 1 + 1 : c[i] = frame[1 + i - 1]
    BY <2>1, SubSeqProperties
  <2> HIDE DEF c
  <2> QED  BY <2>1, <2>2, <2>3
<1>3. CASE n = 0
  <2>1. c = <<>>
    BY <1>2, <1>3
  <2>2. Deserialize(<<>>) = Incomplete
    BY DEF Deserialize
  <2> QED  BY <2>1, <2>2
<1>4. ASSUME n # 0 PROVE c[1] = frame[1] /\ c # <<>> /\ Len(c) > 0
  BY <1>2, <1>4
<1>5. CASE t = ShortConfirmation /\ t.kind = "ShortConfirmation"
  <2>1. frame = <<SC>>
    BY <1>5 DEF Serialize
  <2>2. Len(frame) = 1
    BY <2>1
  <2> QED  BY <1>2, <1>3, <2>2
<1>6. CASE t.kind = "Token" /\ n # 0
  <2>1. frame = <<SD4, t.da, t.sa>>
    BY <1>6 DEF Serialize
  <2>2. Len(frame) = 3 /\ frame[1] = SD4
    BY <2>1
  <2> HIDE DEF frame, c
  <2>3. c[1] = SD4 /\ c # <<>> /\ Len(c) > 0 /\ Len(c) < 3
    BY <1>2, <1>4, <1>6, <2>2
  <2>4. Deserialize(c) = Incomplete
    BY <1>0, <2>3 DEF Deserialize
  <2> QED  BY <2>4 DEF c, frame
<1>7. CASE t.kind = "Data" /\ n # 0
  <2> DEFINE length == Len(BodyOf(t))
             h == HeadLength(length)
  <2>1. OnWire(t, length, frame) /\ Len(frame) = h + length + 2
    <3> DEFINE nothing == <<>>
    <3>1. nothing \in Seq(Bytes) /\ frame \o nothing = frame
      BY <1>1, EmptySeq, ConcatEmptySeq
    <3> HIDE DEF nothing, length
    <3>2. OnWire(t, length, frame \o nothing) /\ Len(frame) = h + length + 2
      BY <1>7, <3>1, DataOnWire DEF length
    <3> QED  BY <3>1, <3>2
  <2> HIDE DEF frame, length
  <2>2. /\ length \in 3 .. 249 /\ h \in {1, 4} /\ Len(frame) \in Nat
        /\ frame[1] = (IF length = 3 THEN SD1 ELSE IF length = 11 THEN SD3 ELSE SD2)
        /\ frame[1] = SD2 => frame[2] = length /\ frame[3] = length
        /\ (h = 4 <=> frame[1] = SD2)
    BY <1>1, <2>1 DEF OnWire, HeadLength, SD1, SD2, SD3
  <2> HIDE DEF h, c
  <2>3. c[1] = frame[1] /\ c # <<>> /\ Len(c) > 0 /\ c[1] \in {SD1, SD2, SD3}
    BY <1>4, <1>7, <2>2
  <2>4. Deserialize(c) = DeserializeData(c)
    BY <1>0, <2>3 DEF Deserialize
  <2>5. CASE n < 6
    <3>1. DeserializeData(c) = Incomplete
      BY <1>2, <2>5 DEF DeserializeData
    <3> QED  BY <2>4, <3>1 DEF c, frame
  <2>6. CASE ~(n < 6)
    <3> DEFINE head == IF c[1] = SD2 THEN 4 ELSE 1
               size == CASE c[1] = SD1 -> 3 [] c[1] = SD3 -> 11 [] OTHER -> c[2]
    <3>1. c[2] = frame[2] /\ c[3] = frame[3]
      BY <1>2, <2>6
    <3>2. head = h /\ size = length
      BY <2>2, <2>3, <3>1 DEF SD1, SD2, SD3
    <3>3. ~(c[1] = SD2 /\ (c[2] # c[3] \/ c[2] < 3))
      BY <2>2, <2>3, <3>1
    <3> HIDE DEF head, size
    <3>4. Len(c) < head + size + 2 /\ ~(Len(c) < 6)
      BY <1>2, <2>1, <2>6, <3>2
    <3>5. DeserializeData(c) = Incomplete
      BY <3>3, <3>4, Zenon DEF DeserializeData, head, size
    <3> QED  BY <2>4, <3>5 DEF c, frame
  <2> QED  BY <2>5, <2>6
<1> QED  BY <1>3, <1>5, <1>6, <1>7, TelegramKinds, Zenon

\* There is no telegram in nothing, and nothing is no telegram.
LEMMA NothingIsIncomplete == Deserialize(<<>>) = Incomplete
  BY DEF Deserialize

\* No telegram is sent as nothing.
LEMMA SerializeNonEmpty ==
  ASSUME NEW t, IsTelegram(t)
  PROVE  Serialize(t) # <<>>
<1> SUFFICES ASSUME Serialize(t) = <<>> PROVE FALSE
  OBVIOUS
<1> DEFINE nothing == <<>>
<1>1. nothing \in Seq(Bytes) /\ nothing \o nothing = nothing
  OBVIOUS
<1>2. Serialize(t) = nothing /\ Deserialize(nothing) = Incomplete
  BY NothingIsIncomplete
<1> HIDE DEF nothing
<1>3. Deserialize(nothing \o nothing) = Telegram(t, Len(nothing))
  BY <1>1, <1>2, TelegramRoundTrip
<1>4. Incomplete = Telegram(t, Len(nothing))
  BY <1>1, <1>2, <1>3
<1> QED  BY <1>4 DEF Incomplete, Telegram

-----------------------------------------------------------------------------
(* The bytes of several telegrams. *)

\* A list of telegrams.
Listed(telegrams) == IsList(telegrams) /\ \A t \in Range(telegrams) : IsTelegram(t)
Frame(telegrams) == [i \in DOMAIN telegrams |-> Serialize(telegrams[i])]

\* The frames of the telegrams.
LEMMA FrameListed ==
  ASSUME NEW ts, Listed(ts)
  PROVE  /\ Frame(ts) \in Seq(Seq(Bytes)) /\ Sent(ts) = FlattenSeq(Frame(ts))
         /\ Len(Frame(ts)) = Len(ts)
<1> DEFINE T == Seq(Bytes)
           n == Len(ts)
<1>1. n \in Nat /\ DOMAIN ts = 1 .. n /\ \A i \in 1 .. n : IsTelegram(ts[i])
  <2> DEFINE S == Range(ts)
  <2>1. ts \in Seq(S) /\ \A t \in S : IsTelegram(t)
    BY DEF Listed, IsList
  <2> HIDE DEF S
  <2> QED  BY <2>1
<1>2. Frame(ts) = [i \in 1 .. n |-> Serialize(ts[i])]
  BY <1>1 DEF Frame
<1> HIDE DEF n
<1>3. \A i \in 1 .. n : Serialize(ts[i]) \in T
  BY <1>1, SerializeBytes
<1> HIDE DEF T
<1>4. [i \in 1 .. n |-> Serialize(ts[i])] \in Seq(T)
  BY <1>1, <1>3
<1>5. Len([i \in 1 .. n |-> Serialize(ts[i])]) = n
  BY <1>1
<1> QED  BY <1>2, <1>4, <1>5 DEF Sent, Frame, T, n

\* What is sent is bytes.
LEMMA SentBytes ==
  ASSUME NEW ts, Listed(ts)
  PROVE  Sent(ts) \in Seq(Bytes)
  BY FrameListed, FlattenIsSeq

\* Where nothing is sent there are no bytes.
LEMMA SentNothing == Sent(<<>>) = <<>> /\ Listed(<<>>)
<1>1. Frame(<<>>) = <<>>
  BY DEF Frame
<1>2. Listed(<<>>)
  BY DEF Listed, IsList, Range
<1> QED  BY <1>1, <1>2, FlattenFew, FrameListed

\* The first of several telegrams, and the others.
LEMMA ListedFirst ==
  ASSUME NEW ts, Listed(ts), ts # <<>>
  PROVE  /\ IsTelegram(Head(ts)) /\ Listed(Tail(ts)) /\ ts = <<Head(ts)>> \o Tail(ts)
         /\ Listed(<<Head(ts)>>) /\ Len(ts) = Len(Tail(ts)) + 1
         /\ Head(Frame(ts)) = Serialize(Head(ts)) /\ Tail(Frame(ts)) = Frame(Tail(ts))
<1> DEFINE S == Range(ts)
           tail == Tail(ts)
           one == <<Head(ts)>>
<1>1. ts \in Seq(S) /\ \A t \in S : IsTelegram(t)
  BY DEF Listed, IsList
<1> HIDE DEF S
<1>2. tail \in Seq(S) /\ Head(ts) \in S /\ one \in Seq(S) /\ Len(ts) = Len(tail) + 1
  BY <1>1
<1>3. ts = one \o tail
  BY <1>1
<1>4. ASSUME NEW q \in Seq(S) PROVE Listed(q)
  <2>1. Range(q) \subseteq S /\ q \in Seq(Range(q))
    BY DEF Range
  <2> QED  BY <1>1, <2>1 DEF Listed, IsList
<1>5. Listed(tail) /\ Listed(one)
  <2> HIDE DEF tail, one
  <2> QED  BY <1>2, <1>4
<1>6. Head(Frame(ts)) = Serialize(Head(ts)) /\ Tail(Frame(ts)) = Frame(tail)
  <2> DEFINE n == Len(tail)
             f == Frame(ts)
             g == Frame(tail)
  <2>1. /\ n \in Nat /\ DOMAIN ts = 1 .. n + 1 /\ DOMAIN tail = 1 .. n
        /\ \A i \in 1 .. n : tail[i] = ts[i + 1]
        /\ Head(ts) = ts[1]
    BY <1>1, <1>2
  <2>2. f = [i \in 1 .. n + 1 |-> Serialize(ts[i])] /\ g = [i \in 1 .. n |-> Serialize(tail[i])]
    BY <2>1 DEF Frame
  <2>3. f \in Seq(Seq(Bytes)) /\ Len(f) = n + 1
    BY <1>2, FrameListed
  <2> HIDE DEF n, tail, f, g
  <2>4. Head(f) = Serialize(ts[1]) /\ Tail(f) = [i \in 1 .. n |-> f[i + 1]]
    BY <2>1, <2>2, <2>3
  <2>5. ASSUME NEW i \in 1 .. n PROVE f[i + 1] = Serialize(tail[i])
    BY <2>1, <2>2
  <2>6. [i \in 1 .. n |-> f[i + 1]] = [i \in 1 .. n |-> Serialize(tail[i])]
    BY <2>5
  <2> QED  BY <2>1, <2>2, <2>4, <2>6 DEF f, g
<1>7. IsTelegram(Head(ts))
  BY <1>1, <1>2
<1> QED  BY <1>2, <1>3, <1>5, <1>6, <1>7

\* The first telegram is sent first.
LEMMA SentFirst ==
  ASSUME NEW ts, Listed(ts), ts # <<>>
  PROVE  Sent(ts) = Serialize(Head(ts)) \o Sent(Tail(ts))
<1> DEFINE f == Frame(ts)
<1>1. f \in Seq(Seq(Bytes)) /\ Sent(ts) = FlattenSeq(f) /\ Len(f) = Len(ts)
  BY FrameListed
<1>2. /\ Len(ts) = Len(Tail(ts)) + 1 /\ Listed(Tail(ts))
      /\ Head(f) = Serialize(Head(ts)) /\ Tail(f) = Frame(Tail(ts))
  BY ListedFirst
<1> HIDE DEF f
<1>3. f # <<>>
  <2> DEFINE n == Len(Tail(ts))
  <2>1. n \in Nat
    <3> DEFINE S == Range(Tail(ts))
    <3>1. Tail(ts) \in Seq(S)
      BY <1>2 DEF Listed, IsList
    <3> HIDE DEF S
    <3> QED  BY <3>1, LenProperties
  <2>2. Len(f) = n + 1
    BY <1>1, <1>2
  <2> HIDE DEF n
  <2> QED  BY <2>1, <2>2
<1>4. FlattenSeq(f) = Head(f) \o FlattenSeq(Tail(f))
  BY <1>1, <1>3, FlattenFirst
<1>5. FlattenSeq(Tail(f)) = Sent(Tail(ts))
  BY <1>2, FrameListed
<1> QED  BY <1>1, <1>2, <1>4, <1>5

\* One telegram is sent as its bytes.
LEMMA SentOne ==
  ASSUME NEW t, IsTelegram(t)
  PROVE  Sent(<<t>>) = Serialize(t) /\ Listed(<<t>>)
<1>1. Listed(<<t>>)
  BY DEF Listed, IsList, Range
<1>2. Frame(<<t>>) = <<Serialize(t)>>
  BY DEF Frame
<1> QED  BY <1>1, <1>2, FlattenFew, FrameListed

\* What is sent later comes later.
LEMMA SentTogether ==
  ASSUME NEW a, Listed(a), NEW b, Listed(b)
  PROVE  Listed(a \o b) /\ Sent(a \o b) = Sent(a) \o Sent(b)
<1> DEFINE S == Range(a) \cup Range(b)
           both == a \o b
<1>1. a \in Seq(S) /\ b \in Seq(S) /\ \A t \in S : IsTelegram(t)
  BY DEF Listed, IsList
<1> HIDE DEF S
<1>2. both \in Seq(S)
  BY <1>1
<1>3. Listed(both)
  <2> HIDE DEF both
  <2>1. Range(both) \subseteq S /\ both \in Seq(Range(both))
    BY <1>2 DEF Range
  <2> QED  BY <1>1, <2>1 DEF Listed, IsList
<1>4. Frame(both) = Frame(a) \o Frame(b)
  <2>1. DOMAIN Frame(both) = 1 .. Len(a) + Len(b)
    BY <1>1 DEF Frame
  <2>2. \A i \in 1 .. Len(a) + Len(b) :
          Frame(both)[i] = IF i <= Len(a) THEN Frame(a)[i] ELSE Frame(b)[i - Len(a)]
    BY <1>1 DEF Frame
  <2>3. Frame(both) \in Seq(Seq(Bytes)) /\ Frame(a) \in Seq(Seq(Bytes))
        /\ Frame(b) \in Seq(Seq(Bytes))
        /\ Len(Frame(a)) = Len(a) /\ Len(Frame(b)) = Len(b)
    BY <1>3, FrameListed
  <2> DEFINE f == Frame(both)
             g == Frame(a)
             h == Frame(b)
             T == Seq(Bytes)
  <2>4. /\ f \in Seq(T) /\ g \in Seq(T) /\ h \in Seq(T)
        /\ DOMAIN f = 1 .. Len(g) + Len(h)
        /\ \A i \in 1 .. Len(g) + Len(h) : f[i] = IF i <= Len(g) THEN g[i] ELSE h[i - Len(g)]
    BY <2>1, <2>2, <2>3
  <2> HIDE DEF f, g, h, T
  <2>5. f = g \o h
    BY <2>4
  <2> QED  BY <2>5 DEF f, g, h
<1>5. FlattensTogether(Frame(a), Frame(b))
  BY FrameListed, FlattenTogether
<1>6. Sent(both) = Sent(a) \o Sent(b)
  <2>1. /\ Sent(both) = FlattenSeq(Frame(both)) /\ Sent(a) = FlattenSeq(Frame(a))
        /\ Sent(b) = FlattenSeq(Frame(b))
    BY <1>3, FrameListed, Zenon
  <2>2. FlattenSeq(Frame(a) \o Frame(b)) = FlattenSeq(Frame(a)) \o FlattenSeq(Frame(b))
    BY <1>5 DEF FlattensTogether
  <2> HIDE DEF both
  <2> QED  BY <1>4, <2>1, <2>2
<1> QED  BY <1>3, <1>6

\* The telegrams of the model are telegrams.
LEMMA Telegrams ==
  /\ IsTelegram(Token) /\ IsTelegram(TokenPass) /\ IsTelegram(StatusRequest)
  /\ IsTelegram(DataRequest)
  /\ \A da \in 0 .. 127 : IsTelegram(StatusResponse(da))
  /\ \A i \in 1 .. 2 : IsTelegram(OtherTraffic[i])
<1> DEFINE a == <<>>
           c == <<1>>
<1>1. /\ a \in Seq(Bytes) /\ Len(a) = 0 /\ c \in Seq(Bytes) /\ Len(c) = 1
  BY DEF Bytes
<1>2. /\ Own \in 0 .. 127 /\ Peer \in 0 .. 127 /\ Slave \in 0 .. 127
      /\ Own \in Bytes /\ Peer \in Bytes
  BY BusAssumption DEF Bytes
<1>3. /\ Request("Inactive", FdlStatus) \in FunctionCodes
      /\ Request("High", SrdLow) \in FunctionCodes
  BY DEF FunctionCodes, FrameCountBits, RequestTypes, FdlStatus, SrdLow
<1>4. \A st \in ResponseStates : Response(st, 0) \in FunctionCodes
  BY DEF FunctionCodes, ResponseStatuses
<1> HIDE DEF a, c
<1>5. ASSUME NEW da \in 0 .. 127, NEW sa \in 0 .. 127, NEW fc \in FunctionCodes, NEW pdu \in {a, c}
      PROVE  IsTelegram(DataTelegram(da, sa, a, a, fc, pdu))
  <2> DEFINE t == DataTelegram(da, sa, a, a, fc, pdu)
  <2>1. /\ t.kind = "Data" /\ t.da = da /\ t.sa = sa /\ t.dsap = a /\ t.ssap = a
        /\ t.fc = fc /\ t.pdu = pdu
    BY DEF DataTelegram
  <2> HIDE DEF t
  <2>2. pdu \in Seq(Bytes) /\ 3 + Len(a) + Len(a) + Len(pdu) <= 249 /\ Len(a) <= 1
    <3> DEFINE m == Len(a)
               n == Len(pdu)
    <3>1. pdu \in Seq(Bytes) /\ m = 0 /\ n \in 0 .. 1
      <4>1. CASE pdu = a
        BY <1>1, <4>1
      <4>2. CASE pdu = c
        BY <1>1, <4>2
      <4> QED  BY <1>5, <4>1, <4>2
    <3> HIDE DEF m, n
    <3>2. 3 + m + m + n <= 249 /\ m <= 1
      BY <3>1
    <3> QED  BY <3>1, <3>2 DEF m, n
  <2> QED  BY <1>1, <2>1, <2>2 DEF IsTelegram, t
<1>6. ASSUME NEW da \in Bytes, NEW sa \in Bytes PROVE IsTelegram(TokenTelegram(da, sa))
  BY DEF TokenTelegram, IsTelegram
<1>7. 3 \in ResponseStates /\ 0 \in ResponseStates
  BY DEF ResponseStates
<1>8. IsTelegram(Token) /\ IsTelegram(TokenPass)
  BY <1>2, <1>6 DEF Token, TokenPass
<1>9. \A da, sa \in 0 .. 127 : IsTelegram(FdlStatusRequest(da, sa))
  BY <1>3, <1>5 DEF FdlStatusRequest, a
<1>10. \A da, sa \in 0 .. 127, st \in ResponseStates : IsTelegram(FdlStatusResponse(da, sa, st))
  BY <1>4, <1>5 DEF FdlStatusResponse, a
<1>11. IsTelegram(DataRequest)
  BY <1>2, <1>3, <1>5 DEF DataRequest, a, c
<1>12. \A da \in 0 .. 127 : IsTelegram(StatusResponse(da))
  BY <1>2, <1>7, <1>10 DEF StatusResponse
<1>13. /\ OtherTraffic[1] = FdlStatusRequest(Slave, Peer)
       /\ OtherTraffic[2] = FdlStatusResponse(Peer, Slave, 0)
  BY DEF OtherTraffic
<1>14. IsTelegram(OtherTraffic[1]) /\ IsTelegram(OtherTraffic[2])
  <2>1. IsTelegram(FdlStatusRequest(Slave, Peer))
    BY <1>2, <1>9
  <2>2. IsTelegram(FdlStatusResponse(Peer, Slave, 0))
    BY <1>2, <1>7, <1>10
  <2> QED  BY <1>13, <2>1, <2>2, Zenon
<1>15. \A i \in 1 .. 2 : i = 1 \/ i = 2
  OBVIOUS
<1>16. \A i \in 1 .. 2 : IsTelegram(OtherTraffic[i])
  BY <1>14, <1>15, Zenon
<1>17. IsTelegram(StatusRequest)
  BY <1>2, <1>9 DEF StatusRequest
<1> QED  BY <1>8, <1>11, <1>12, <1>16, <1>17, Zenon

\* So is what the peer sends in a turn.
LEMMA PeerLists ==
  Listed(<<Token>>) /\ Listed(<<StatusRequest>>) /\ Listed(Append(OtherTraffic, Token))
<1>1. Listed(<<Token>>) /\ Listed(<<StatusRequest>>)
  BY Telegrams, SentOne
<1>2. Listed(Append(OtherTraffic, Token))
  <2> DEFINE a == OtherTraffic[1]
             b == OtherTraffic[2]
             c == Token
             t == Append(OtherTraffic, Token)
  <2>0. OtherTraffic = <<a, b>>
    BY DEF OtherTraffic
  <2>2. IsTelegram(a) /\ IsTelegram(b) /\ IsTelegram(c)
    BY Telegrams
  <2>3. t = Append(<<a, b>>, c)
    BY <2>0
  <2> HIDE DEF a, b, c, t
  <2>4. t \in Seq({a, b, c}) /\ Range(t) = {a, b, c}
    BY <2>3 DEF Range
  <2>5. Listed(t)
    BY <2>2, <2>4 DEF Listed, IsList
  <2> QED  BY <2>5 DEF t
<1> QED  BY <1>1, <1>2

-----------------------------------------------------------------------------
(* The bytes on the wire, without the pauses. *)

Stream == Seq(Bytes \cup {Pause})
Singles(s) == [i \in DOMAIN s |-> IF s[i] = Pause THEN <<>> ELSE <<s[i]>>]

\* They are sequences of bytes, and flatten to the bytes of the stream.
LEMMA SinglesListed ==
  ASSUME NEW s \in Stream
  PROVE  /\ Singles(s) \in Seq(Seq(Bytes)) /\ Len(Singles(s)) = Len(s)
         /\ BytesOf(s) = FlattenSeq(Singles(s)) /\ BytesOf(s) \in Seq(Bytes)
<1> DEFINE n == Len(s)
           T == Seq(Bytes)
<1>1. n \in Nat /\ DOMAIN s = 1 .. n /\ \A i \in 1 .. n : s[i] \in Bytes \cup {Pause}
  BY DEF Stream
<1>2. \A i \in 1 .. n : (IF s[i] = Pause THEN <<>> ELSE <<s[i]>>) \in T
  <2> TAKE i \in 1 .. n
  <2>1. CASE s[i] = Pause
    <3>1. <<>> \in T
      OBVIOUS
    <3> QED  BY <2>1, <3>1
  <2>2. CASE s[i] # Pause
    <3>1. s[i] \in Bytes
      BY <1>1, <2>2
    <3> QED  BY <2>2, <3>1, WrittenBytes
  <2> QED  BY <2>1, <2>2
<1>3. Singles(s) = [i \in 1 .. n |-> IF s[i] = Pause THEN <<>> ELSE <<s[i]>>]
  BY <1>1 DEF Singles
<1> HIDE DEF n, T
<1>4. Singles(s) \in Seq(T) /\ Len(Singles(s)) = n
  BY <1>1, <1>2, <1>3
<1>5. Singles(s) \in Seq(Seq(Bytes))
  BY <1>4 DEF T
<1>6. BytesOf(s) = FlattenSeq(Singles(s))
  BY DEF BytesOf, Singles
<1>7. FlattenSeq(Singles(s)) \in Seq(Bytes)
  BY <1>5, FlattenIsSeq
<1> QED  BY <1>4, <1>5, <1>6, <1>7 DEF n

\* Two streams, one behind the other.
BytesTogether(a, b) == BytesOf(a \o b) = BytesOf(a) \o BytesOf(b)

\* Their bytes come one behind the other.
LEMMA BytesOfBoth ==
  ASSUME NEW a \in Stream, NEW b \in Stream
  PROVE  a \o b \in Stream /\ BytesTogether(a, b)
<1> DEFINE S == Bytes \cup {Pause}
           both == a \o b
           f == Singles(both)
           g == Singles(a)
           h == Singles(b)
           T == Seq(Bytes)
<1>1. a \in Seq(S) /\ b \in Seq(S)
  BY DEF Stream
<1> HIDE DEF S
<1>2. both \in Seq(S) /\ Len(both) = Len(a) + Len(b)
  BY <1>1
<1>3. both \in Stream
  BY <1>2 DEF Stream, S
<1>4. /\ f \in Seq(T) /\ g \in Seq(T) /\ h \in Seq(T)
      /\ Len(f) = Len(both) /\ Len(g) = Len(a) /\ Len(h) = Len(b)
      /\ BytesOf(both) = FlattenSeq(f) /\ BytesOf(a) = FlattenSeq(g)
      /\ BytesOf(b) = FlattenSeq(h)
  <2> HIDE DEF both
  <2> QED  BY <1>3, SinglesListed
<1>5. \A i \in 1 .. Len(a) + Len(b) :
        f[i] = IF i <= Len(a) THEN g[i] ELSE h[i - Len(a)]
  BY <1>1 DEF Singles
<1>6. f = g \o h
  <2> HIDE DEF f, g, h, T
  <2>1. f \in Seq(T) /\ g \in Seq(T) /\ h \in Seq(T) /\ Len(f) = Len(g) + Len(h)
    BY <1>2, <1>4
  <2>2. \A i \in 1 .. Len(g) + Len(h) : f[i] = IF i <= Len(g) THEN g[i] ELSE h[i - Len(g)]
    BY <1>4, <1>5
  <2>3. /\ DOMAIN f = 1 .. Len(f) /\ DOMAIN (g \o h) = 1 .. Len(f)
        /\ f = [i \in 1 .. Len(f) |-> f[i]] /\ g \o h = [i \in 1 .. Len(f) |-> (g \o h)[i]]
    <3> DEFINE k == g \o h
    <3>1. k \in Seq(T) /\ Len(k) = Len(f)
      BY <2>1
    <3> HIDE DEF k
    <3>2. /\ DOMAIN f = 1 .. Len(f) /\ DOMAIN k = 1 .. Len(f)
          /\ f = [i \in 1 .. Len(f) |-> f[i]] /\ k = [i \in 1 .. Len(f) |-> k[i]]
      BY <2>1, <3>1
    <3> QED  BY <3>2 DEF k
  <2>4. \A i \in 1 .. Len(f) : f[i] = (g \o h)[i]
    BY <2>1, <2>2
  <2> QED  BY <2>3, <2>4
<1>7. FlattensTogether(g, h)
  <2> HIDE DEF g, h
  <2> QED  BY <1>4, FlattenTogether DEF T
<1>8. BytesTogether(a, b)
  <2> HIDE DEF f, g, h
  <2> QED  BY <1>4, <1>6, <1>7 DEF BytesTogether, FlattensTogether
<1> QED  BY <1>3, <1>8

\* A pause has no bytes, a byte is itself.
LEMMA BytesOfOne ==
  /\ <<>> \in Stream /\ BytesOf(<<>>) = <<>>
  /\ <<Pause>> \in Stream /\ BytesOf(<<Pause>>) = <<>>
  /\ \A b \in Bytes : <<b>> \in Stream /\ BytesOf(<<b>>) = <<b>>
<1>1. <<>> \in Stream /\ BytesOf(<<>>) = <<>>
  <2>1. Singles(<<>>) = <<>>
    BY DEF Singles
  <2>2. <<>> \in Stream
    BY DEF Stream
  <2> QED  BY <2>1, <2>2, FlattenFew, SinglesListed
<1>2. <<Pause>> \in Stream /\ BytesOf(<<Pause>>) = <<>>
  <2>1. Singles(<<Pause>>) = <<<<>>>>
    BY DEF Singles
  <2>2. <<Pause>> \in Stream
    BY DEF Stream
  <2> QED  BY <2>1, <2>2, FlattenFew, SinglesListed
<1>3. ASSUME NEW b \in Bytes PROVE <<b>> \in Stream /\ BytesOf(<<b>>) = <<b>>
  <2>1. Singles(<<b>>) = <<<<b>>>>
    BY DEF Singles, Bytes, Pause
  <2>2. <<b>> \in Stream
    BY DEF Stream
  <2> QED  BY <2>1, <2>2, FlattenFew, SinglesListed
<1> QED  BY <1>1, <1>2, <1>3

\* What is next on the line.
LEMMA LineFirst ==
  ASSUME NEW s \in Stream
  PROVE  /\ s = <<>> => BytesOf(s) = <<>> /\ SubSeq(s, 2, Len(s)) = <<>>
         /\ s # <<>> => /\ SubSeq(s, 2, Len(s)) = Tail(s) /\ Tail(s) \in Stream
                        /\ Head(s) \in Bytes \cup {Pause}
                        /\ Len(s) = Len(Tail(s)) + 1 /\ s = <<Head(s)>> \o Tail(s)
                        /\ BytesOf(s) = (IF Head(s) = Pause THEN <<>> ELSE <<Head(s)>>)
                                          \o BytesOf(Tail(s))
<1> DEFINE S == Bytes \cup {Pause}
<1>1. s \in Seq(S)
  BY DEF Stream
<1>2. ASSUME s = <<>> PROVE BytesOf(s) = <<>> /\ SubSeq(s, 2, Len(s)) = <<>>
  BY <1>2, BytesOfOne
<1>3. ASSUME s # <<>>
      PROVE  /\ SubSeq(s, 2, Len(s)) = Tail(s) /\ Tail(s) \in Seq(S)
             /\ Head(s) \in S /\ Len(s) = Len(Tail(s)) + 1
             /\ s = <<Head(s)>> \o Tail(s)
  <2> HIDE DEF S
  <2>1. Len(s) \in Nat /\ Len(s) > 0
    BY <1>1, <1>3
  <2>2. SubSeq(s, 2, Len(s)) = Tail(s)
    BY <1>1, <1>3, <2>1
  <2>3. /\ Tail(s) \in Seq(S) /\ Head(s) \in S /\ Len(s) = Len(Tail(s)) + 1
        /\ s = <<Head(s)>> \o Tail(s)
    BY <1>1, <1>3, <2>1
  <2> QED  BY <2>2, <2>3
<1>4. ASSUME s # <<>>
      PROVE BytesOf(s) = (IF Head(s) = Pause THEN <<>> ELSE <<Head(s)>>) \o BytesOf(Tail(s))
  <2> DEFINE one == <<Head(s)>>
             tail == Tail(s)
  <2>1. tail \in Stream
    BY <1>3, <1>4 DEF Stream
  <2>2. one \in Stream /\ BytesOf(one) = (IF Head(s) = Pause THEN <<>> ELSE one)
    BY <1>3, <1>4, BytesOfOne
  <2>3. s = one \o tail
    BY <1>3, <1>4
  <2> HIDE DEF one, tail
  <2>4. BytesTogether(one, tail)
    BY <2>1, <2>2, BytesOfBoth
  <2> QED  BY <2>2, <2>3, <2>4 DEF BytesTogether, one, tail
<1>5. ASSUME s # <<>> PROVE Tail(s) \in Stream
  BY <1>3, <1>5 DEF Stream
<1> QED  BY <1>2, <1>3, <1>4, <1>5

\* Bytes without a pause are all bytes.
LEMMA BytesOfBytes ==
  ASSUME NEW s \in Seq(Bytes)
  PROVE  s \in Stream /\ BytesOf(s) = s
<1> DEFINE Fits(n) == \A q \in Seq(Bytes) : Len(q) = n => BytesOf(q) = q
           Bad == {n \in Nat : ~Fits(n)}
<1> HIDE DEF Fits
<1>0. \A q \in Seq(Bytes) : q \in Stream
  BY DEF Stream
<1>1. ASSUME Bad # {} PROVE FALSE
  <2>0. Bad \in SUBSET Nat
    OBVIOUS
  <2>1. PICK m \in Bad : \A x \in Bad : m <= x
    <3> HIDE DEF Bad
    <3> QED  BY <1>1, <2>0, Frames!Least
  <2>2. PICK q \in Seq(Bytes) : Len(q) = m /\ BytesOf(q) # q
    BY <2>1 DEF Fits
  <2>3. q # <<>>
    BY <2>2, BytesOfOne
  <2>4. Tail(q) \in Seq(Bytes) /\ Head(q) \in Bytes /\ Len(q) = Len(Tail(q)) + 1
    BY <2>2, <2>3
  <2> DEFINE k == Len(Tail(q))
  <2>5. k \in Nat /\ k < m
    BY <2>2, <2>4, LenProperties
  <2>6. k \notin Bad
    <3> HIDE DEF Bad, k
    <3> QED  BY <2>0, <2>1, <2>5
  <2>7. Fits(k)
    BY <2>5, <2>6
  <2>8. BytesOf(Tail(q)) = Tail(q)
    BY <2>4, <2>7 DEF Fits
  <2>9. Head(q) # Pause
    <3>1. \A b \in Bytes : b # Pause
      BY DEF Bytes, Pause
    <3> QED  BY <2>4, <3>1
  <2>10. q \in Stream
    BY <1>0, <2>2
  <2>11. BytesOf(q) = <<Head(q)>> \o Tail(q) /\ q = <<Head(q)>> \o Tail(q)
    BY <2>3, <2>8, <2>9, <2>10, LineFirst
  <2> QED  BY <2>2, <2>11
<1>2. BytesOf(s) = s
  <2> DEFINE n == Len(s)
  <2>1. n \in Nat /\ Len(s) = n
    BY LenProperties
  <2> HIDE DEF n
  <2>2. Fits(n)
    BY <1>1, <2>1
  <2> QED  BY <2>1, <2>2 DEF Fits
<1> QED  BY <1>0, <1>2

\* The telegrams of the peer, a pause behind each of them.
Spaced(ts) == [i \in DOMAIN ts |-> Append(Serialize(ts[i]), Pause)]

\* A telegram with its pause has the bytes of the telegram.
LEMMA SpacedFrame ==
  ASSUME NEW t, IsTelegram(t)
  PROVE  /\ Append(Serialize(t), Pause) \in Stream
         /\ BytesOf(Append(Serialize(t), Pause)) = Serialize(t)
<1> DEFINE frame == Serialize(t)
           pause == <<Pause>>
           S == Bytes \cup {Pause}
<1>1. frame \in Seq(Bytes) /\ frame \in Stream /\ BytesOf(frame) = frame
  BY SerializeBytes, BytesOfBytes
<1>2. pause \in Stream /\ BytesOf(pause) = <<>>
  BY BytesOfOne
<1>3. Append(frame, Pause) = frame \o pause
  <2> HIDE DEF frame
  <2>1. frame \in Seq(S) /\ Pause \in S
    BY <1>1 DEF Stream
  <2> HIDE DEF S
  <2> QED  BY <2>1
<1> HIDE DEF frame, pause
<1>4. frame \o pause \in Stream /\ BytesTogether(frame, pause)
  BY <1>1, <1>2, BytesOfBoth
<1>5. BytesOf(frame \o pause) = frame \o <<>> /\ frame \o <<>> = frame
  BY <1>1, <1>2, <1>4 DEF BytesTogether
<1> QED  BY <1>3, <1>4, <1>5 DEF frame

\* The first telegram comes first, with its pause.
LEMMA SpacedFirst ==
  ASSUME NEW ts, Listed(ts)
  PROVE  /\ Spaced(ts) \in Seq(Stream) /\ Len(Spaced(ts)) = Len(ts)
         /\ ts # <<>> => /\ Head(Spaced(ts)) = Append(Serialize(Head(ts)), Pause)
                         /\ Tail(Spaced(ts)) = Spaced(Tail(ts))
<1> DEFINE n == Len(ts)
           f == Spaced(ts)
           S == Range(ts)
<1>1. ts \in Seq(S) /\ \A t \in S : IsTelegram(t)
  BY DEF Listed, IsList
<1> HIDE DEF S
<1>2. n \in Nat /\ DOMAIN ts = 1 .. n /\ \A i \in 1 .. n : IsTelegram(ts[i])
  BY <1>1
<1>3. f = [i \in 1 .. n |-> Append(Serialize(ts[i]), Pause)]
  BY <1>2 DEF Spaced
<1>4. \A i \in 1 .. n : Append(Serialize(ts[i]), Pause) \in Stream
  BY <1>2, SpacedFrame
<1>5. f \in Seq(Stream) /\ Len(f) = n
  <2> HIDE DEF f, n
  <2>1. \A i \in 1 .. n : f[i] \in Stream
    BY <1>3, <1>4
  <2>2. f = [i \in 1 .. n |-> f[i]]
    BY <1>3
  <2>3. f \in Seq(Stream)
    BY <1>2, <2>1, <2>2
  <2>4. DOMAIN f = 1 .. n /\ DOMAIN f = 1 .. Len(f) /\ Len(f) \in Nat
    <3>1. DOMAIN f = 1 .. n
      BY <1>3
    <3>2. DOMAIN f = 1 .. Len(f) /\ Len(f) \in Nat
      BY <2>3, LenProperties
    <3> QED  BY <3>1, <3>2
  <2> QED  BY <1>2, <2>3, <2>4
<1>6. ASSUME ts # <<>>
      PROVE  Head(f) = Append(Serialize(Head(ts)), Pause) /\ Tail(f) = Spaced(Tail(ts))
  <2> DEFINE m == Len(Tail(ts))
             tail == Tail(ts)
             g == Spaced(tail)
  <2>1. /\ m \in Nat /\ n = m + 1 /\ DOMAIN tail = 1 .. m
        /\ \A i \in 1 .. m : tail[i] = ts[i + 1]
        /\ Head(ts) = ts[1]
    BY <1>1, <1>6
  <2>2. g = [i \in 1 .. m |-> Append(Serialize(tail[i]), Pause)]
    BY <2>1 DEF Spaced
  <2> HIDE DEF n, m, f, g, tail
  <2>3. Head(f) = f[1] /\ Tail(f) = [i \in 1 .. m |-> f[i + 1]]
    <3>1. f \in Seq(Stream) /\ Len(f) = m + 1 /\ m \in Nat
      BY <1>5, <2>1
    <3>2. f # <<>> /\ Len(f) - 1 = m
      BY <3>1
    <3>3. Head(f) = f[1]
      BY <3>1, <3>2
    <3> DEFINE h == Tail(f)
    <3>4. h \in Seq(Stream) /\ Len(h) = m /\ \A i \in 1 .. m : h[i] = f[i + 1]
      BY <3>1, <3>2, HeadTailProperties
    <3> HIDE DEF h
    <3>5. h = [i \in 1 .. m |-> h[i]]
      BY <3>1, <3>4
    <3>6. h = [i \in 1 .. m |-> f[i + 1]]
      BY <3>4, <3>5
    <3> QED  BY <3>3, <3>6 DEF h
  <2>4. ASSUME NEW i \in 1 .. m PROVE f[i + 1] = Append(Serialize(tail[i]), Pause)
    BY <1>3, <2>1
  <2>5. [i \in 1 .. m |-> f[i + 1]] = [i \in 1 .. m |-> Append(Serialize(tail[i]), Pause)]
    BY <2>4
  <2>6. f[1] = Append(Serialize(ts[1]), Pause)
    BY <1>3, <2>1
  <2> QED  BY <2>1, <2>2, <2>3, <2>5, <2>6 DEF g, tail
<1> QED  BY <1>5, <1>6 DEF n, f

\* Their bytes are what was sent.
SpacedSent(ts) ==
  FlattenSeq(Spaced(ts)) \in Stream /\ BytesOf(FlattenSeq(Spaced(ts))) = Sent(ts)

\* That holds for any telegrams, however many they are.
LEMMA SpacedBytes ==
  ASSUME NEW ts, Listed(ts)
  PROVE  SpacedSent(ts)
<1> DEFINE Fits(n) == \A q : Listed(q) /\ Len(q) = n => SpacedSent(q)
           Bad == {n \in Nat : ~Fits(n)}
<1> HIDE DEF Fits
<1>0. \A q : Listed(q) => Len(q) \in Nat
  <2> TAKE q
  <2> HAVE Listed(q)
  <2> DEFINE S == Range(q)
  <2>1. q \in Seq(S)
    BY DEF Listed, IsList
  <2> HIDE DEF S
  <2> QED  BY <2>1, LenProperties
<1>1. ASSUME Bad # {} PROVE FALSE
  <2>0. Bad \in SUBSET Nat
    OBVIOUS
  <2>1. PICK m \in Bad : \A x \in Bad : m <= x
    <3> HIDE DEF Bad
    <3> QED  BY <1>1, <2>0, Frames!Least
  <2>2. PICK q : Listed(q) /\ Len(q) = m /\ ~SpacedSent(q)
    BY <2>1 DEF Fits
  <2>3. q # <<>>
    <3>1. Spaced(<<>>) = <<>>
      BY DEF Spaced
    <3>2. SpacedSent(<<>>)
      BY <3>1, FlattenFew, BytesOfOne, SentNothing DEF SpacedSent
    <3> QED  BY <2>2, <3>2
  <2> DEFINE tail == Tail(q)
             k == Len(tail)
             f == Spaced(q)
             frame == Serialize(Head(q))
             first == Append(frame, Pause)
             rest == FlattenSeq(Spaced(tail))
  <2>4. IsTelegram(Head(q)) /\ Listed(tail) /\ Len(q) = k + 1
    BY <2>2, <2>3, ListedFirst
  <2>5. k \in Nat /\ k < m
    <3>1. k \in Nat
      BY <1>0, <2>4
    <3> HIDE DEF k
    <3> QED  BY <2>2, <2>4, <3>1
  <2>6. k \notin Bad
    <3> HIDE DEF Bad, k
    <3> QED  BY <2>0, <2>1, <2>5
  <2>7. Fits(k)
    BY <2>5, <2>6
  <2>8. rest \in Stream /\ BytesOf(rest) = Sent(tail)
    <3>1. SpacedSent(tail)
      BY <2>4, <2>7 DEF Fits
    <3> QED  BY <3>1 DEF SpacedSent
  <2>9. FlattenSeq(f) = first \o rest
    <3>1. f \in Seq(Stream) /\ Len(f) = Len(q) /\ Head(f) = first /\ Tail(f) = Spaced(tail)
      BY <2>2, <2>3, SpacedFirst
    <3> HIDE DEF f, first, tail
    <3>2. f # <<>>
      <4> HIDE DEF k
      <4>1. Len(f) # 0
        BY <2>4, <2>5, <3>1
      <4> QED  BY <4>1
    <3>3. FlattenSeq(f) = Head(f) \o FlattenSeq(Tail(f))
      BY <3>1, <3>2, FlattenFirst DEF Stream
    <3> QED  BY <3>1, <3>3
  <2>10. first \in Stream /\ BytesOf(first) = frame
    BY <2>4, SpacedFrame
  <2>11. Sent(q) = frame \o Sent(tail)
    BY <2>2, <2>3, SentFirst
  <2> HIDE DEF first, rest, frame, tail, f
  <2>12. first \o rest \in Stream /\ BytesTogether(first, rest)
    BY <2>8, <2>10, BytesOfBoth
  <2>13. BytesOf(first \o rest) = Sent(q)
    BY <2>8, <2>10, <2>11, <2>12 DEF BytesTogether
  <2>14. SpacedSent(q)
    BY <2>9, <2>12, <2>13 DEF SpacedSent, f
  <2> QED  BY <2>2, <2>14
<1>2. SpacedSent(ts)
  <2> DEFINE n == Len(ts)
  <2>1. n \in Nat /\ Len(ts) = n
    BY <1>0
  <2> HIDE DEF n
  <2>2. Fits(n)
    BY <1>1, <2>1
  <2> QED  BY <2>1, <2>2 DEF Fits
<1> QED  BY <1>2

-----------------------------------------------------------------------------
(* The drivers: sending. *)

\* A driver that is sending the bytes s: it holds them, or turned to receiving when
\* there were none left.
SendsBytes(p, s) ==
  /\ IsPhy(p) /\ p.driver \in DriverKinds /\ IsList(p.queue) /\ IsList(p.unsent)
  /\ p.mode \in {"Rx", "Tx"}
  /\ p.mode = "Tx" => p.queue \o p.unsent = s
  /\ p.mode = "Rx" => p.queue = <<>> /\ p.unsent = <<>> /\ s = <<>>
  /\ p.driver = "simulator" => p.unsent = <<>>

\* What does not concern sending keeps it.
LEMMA AlikeKeeps ==
  ASSUME NEW p, NEW q, NEW s, SendsBytes(q, s), SendsAlike(p, q)
  PROVE  SendsBytes(p, s)
  BY DEF SendsBytes, SendsAlike

\* write() moves bytes of the telegram on, however many it takes.
LEMMA SubmitKeeps ==
  ASSUME NEW p, IsPhy(p), p.driver \in {"serial", "rp2040"}, p.mode = "Tx",
         IsList(p.queue), IsList(p.unsent)
  PROVE  SendsBytes(Submit(p), p.queue \o p.unsent)
<1> DEFINE n == Min({WriteSize, Len(p.unsent)})
           first == SubSeq(p.unsent, 1, n)
           rest == SubSeq(p.unsent, n + 1, Len(p.unsent))
           queue == p.queue \o first
<1>1. n \in 0 .. Len(p.unsent)
  <2>1. Len(p.unsent) \in Nat /\ WriteSize \in Nat
    BY PhyAssumption DEF IsList
  <2>2. n = IF WriteSize <= Len(p.unsent) THEN WriteSize ELSE Len(p.unsent)
    BY <2>1 DEF Min
  <2> QED  BY <2>1, <2>2
<1>2. Submit(p) = [p EXCEPT !.queue = queue, !.unsent = rest]
  BY DEF Submit
<1> HIDE DEF n
<1>3. first \o rest = p.unsent /\ IsList(first) /\ IsList(rest)
  BY <1>1, CutInTwo
<1> HIDE DEF first, rest
<1>4. IsList(queue) /\ queue \o rest = p.queue \o p.unsent
  <2>1. (p.queue \o first) \o rest = p.queue \o (first \o rest)
    <3> DEFINE q == p.queue
    <3>1. IsList(q) /\ IsList(first) /\ IsList(rest)
      BY <1>3
    <3> HIDE DEF q
    <3>2. (q \o first) \o rest = q \o (first \o rest)
      BY <3>1, Regroup
    <3> QED  BY <3>2 DEF q
  <2>2. IsList(p.queue \o first)
    BY <1>3, PutTogether, Zenon
  <2> QED  BY <1>3, <2>1, <2>2, Zenon
<1> HIDE DEF queue
<1>5. /\ IsPhy(Submit(p)) /\ Submit(p).driver = p.driver /\ Submit(p).mode = "Tx"
      /\ Submit(p).queue = queue /\ Submit(p).unsent = rest
  BY <1>2 DEF IsPhy
<1> QED  BY <1>3, <1>4, <1>5 DEF SendsBytes, DriverKinds

\* poll_transmission() turns to receiving only when nothing is left.
LEMMA PollKeeps ==
  ASSUME NEW p, NEW s, SendsBytes(p, s)
  PROVE  SendsBytes(PollTransmission(p), s)
<1>1. /\ IsPhy(p) /\ p.driver \in DriverKinds /\ IsList(p.queue) /\ IsList(p.unsent)
      /\ p.mode \in {"Rx", "Tx"} /\ (p.mode = "Tx" => p.queue \o p.unsent = s)
  BY DEF SendsBytes
<1>2. ASSUME p.mode = "Tx", p.driver # "simulator" PROVE SendsBytes(Submit(p), s)
  BY <1>1, <1>2, SubmitKeeps DEF DriverKinds
<1>3. ASSUME p.mode = "Tx", p.queue = <<>>, p.unsent = <<>>,
             NEW q, IsPhy(q), q.driver = p.driver, q.mode = "Rx", q.queue = p.queue,
             q.unsent = p.unsent
      PROVE  SendsBytes(q, s)
  <2>1. s = <<>>
    BY <1>1, <1>3, PutTogether
  <2> QED  BY <1>1, <1>3, <2>1 DEF SendsBytes
<1>4. /\ IsPhy(MakeRx(p)) /\ MakeRx(p).driver = p.driver /\ MakeRx(p).mode = "Rx"
      /\ MakeRx(p).queue = p.queue /\ MakeRx(p).unsent = p.unsent
  <2> DEFINE nothing == <<>>
  <2>1. MakeRx(p) = [p EXCEPT !.mode = "Rx", !.buffer = nothing]
    BY DEF MakeRx
  <2> HIDE DEF nothing
  <2> QED  BY <1>1, <2>1 DEF IsPhy
<1>5. CASE p.driver = "serial"
  BY <1>2, <1>3, <1>4, <1>5 DEF PollTransmission, SerialPoll
<1>6. CASE p.driver = "rp2040"
  BY <1>2, <1>3, <1>4, <1>6 DEF PollTransmission, Rp2040Poll
<1>7. CASE p.driver = "simulator"
  <2> DEFINE q == [p EXCEPT !.mode = "Rx"]
  <2>1. IsPhy(q) /\ q.driver = p.driver /\ q.mode = "Rx" /\ q.queue = p.queue /\ q.unsent = p.unsent
    BY <1>1 DEF IsPhy
  <2>2. p.unsent = <<>>
    BY <1>7 DEF SendsBytes
  <2>3. PollTransmission(p) = IF p.mode = "Tx" /\ p.queue = <<>> THEN q ELSE p
    BY <1>7 DEF PollTransmission, SimulatorPoll
  <2> HIDE DEF q
  <2> QED  BY <1>3, <2>1, <2>2, <2>3
<1> QED  BY <1>1, <1>5, <1>6, <1>7 DEF DriverKinds

\* transmit_data() takes the whole telegram when nothing is left of the last one.
LEMMA TransmitTakes ==
  ASSUME NEW p, NEW s, SendsBytes(p, s), p.mode # "Tx", NEW frame, IsList(frame)
  PROVE  SendsBytes(Transmit(p, frame), frame)
<1>1. IsPhy(p) /\ p.driver \in DriverKinds /\ p.queue = <<>> /\ p.unsent = <<>>
  BY DEF SendsBytes
<1>2. IsList(<<>>) /\ frame \o <<>> = frame /\ <<>> \o frame = frame
  BY Written, PutTogether
<1>3. CASE p.driver = "serial"
  <2> DEFINE nothing == <<>>
             q == [p EXCEPT !.mode = "Tx", !.buffer = nothing, !.unsent = frame]
  <2>1. /\ IsPhy(q) /\ q.driver = "serial" /\ q.mode = "Tx" /\ q.queue = <<>>
        /\ q.unsent = frame
    <3> HIDE DEF nothing
    <3>1. q = [p EXCEPT !.mode = "Tx", !.buffer = nothing, !.unsent = frame]
      OBVIOUS
    <3> HIDE DEF q
    <3>2. IsPhy(q) /\ q.driver = p.driver /\ q.mode = "Tx" /\ q.queue = p.queue /\ q.unsent = frame
      BY <1>1, <3>1 DEF IsPhy
    <3> QED  BY <1>1, <1>3, <3>2
  <2>2. Transmit(p, frame) = Submit(q)
    BY <1>3 DEF Transmit, SerialTransmit
  <2> HIDE DEF q
  <2>3. SendsBytes(Submit(q), q.queue \o q.unsent)
    BY <1>2, <2>1, SubmitKeeps
  <2> QED  BY <1>2, <2>1, <2>2, <2>3
<1>4. CASE p.driver = "rp2040"
  <2> DEFINE nothing == <<>>
             q == [p EXCEPT !.mode = "Tx", !.buffer = nothing, !.unsent = frame, !.wait = 1]
  <2>1. /\ IsPhy(q) /\ q.driver = "rp2040" /\ q.mode = "Tx" /\ q.queue = <<>>
        /\ q.unsent = frame
    <3> HIDE DEF nothing
    <3>1. q = [p EXCEPT !.mode = "Tx", !.buffer = nothing, !.unsent = frame, !.wait = 1]
      OBVIOUS
    <3> HIDE DEF q
    <3>2. IsPhy(q) /\ q.driver = p.driver /\ q.mode = "Tx" /\ q.queue = p.queue /\ q.unsent = frame
      BY <1>1, <3>1 DEF IsPhy
    <3> QED  BY <1>1, <1>4, <3>2
  <2>2. Transmit(p, frame) = q
    BY <1>4 DEF Transmit, Rp2040Transmit
  <2> HIDE DEF q
  <2> QED  BY <1>2, <2>1, <2>2 DEF SendsBytes, DriverKinds
<1>5. CASE p.driver = "simulator"
  <2> DEFINE stream == p.buffer \o p.unread \o frame
             unread == SubSeq(stream, Len(frame) + 1, Len(stream))
             nothing == <<>>
             q == [p EXCEPT !.mode = "Tx", !.queue = frame, !.buffer = nothing, !.unread = unread]
  <2>1. Transmit(p, frame) = q
    BY <1>5 DEF Transmit, SimulatorTransmit
  <2> HIDE DEF unread
  <2>2. /\ IsPhy(q) /\ q.driver = "simulator" /\ q.mode = "Tx" /\ q.queue = frame
        /\ q.unsent = <<>>
    <3> HIDE DEF nothing
    <3>1. q = [p EXCEPT !.mode = "Tx", !.queue = frame, !.buffer = nothing, !.unread = unread]
      OBVIOUS
    <3> HIDE DEF q
    <3>2. IsPhy(q) /\ q.driver = p.driver /\ q.mode = "Tx" /\ q.queue = frame /\ q.unsent = p.unsent
      BY <1>1, <3>1 DEF IsPhy
    <3> QED  BY <1>1, <1>5, <3>2
  <2> HIDE DEF q
  <2> QED  BY <1>2, <2>1, <2>2 DEF SendsBytes, DriverKinds
<1> QED  BY <1>1, <1>3, <1>4, <1>5 DEF DriverKinds

\* Reading has nothing to do with sending.
LEMMA ReadAlike ==
  ASSUME NEW p, IsPhy(p)
  PROVE  SendsAlike(Read(p), p)
<1> DEFINE room == IF p.driver = "simulator" THEN Len(p.unread)
                   ELSE Min({Len(p.unread), BufferLength - Len(p.buffer)})
           buffer == p.buffer \o SubSeq(p.unread, 1, room)
           unread == SubSeq(p.unread, room + 1, Len(p.unread))
<1>1. Read(p) = [p EXCEPT !.buffer = buffer, !.unread = unread]
  BY DEF Read
<1> HIDE DEF buffer, unread
<1> QED  BY <1>1 DEF SendsAlike, IsPhy

\* Neither has dropping bytes,
LEMMA DropAlike ==
  ASSUME NEW p, IsPhy(p), NEW n
  PROVE  SendsAlike(Drop(p, n), p)
<1>1. PICK buffer : Drop(p, n) = [p EXCEPT !.buffer = buffer]
  BY DEF Drop, SerialDrop, Rp2040Drop
<1> QED  BY <1>1 DEF SendsAlike, IsPhy

\* nor receive_telegram().
LEMMA ReceiveAlike ==
  ASSUME NEW p, IsPhy(p)
  PROVE  SendsAlike(ReceiveTelegram(p).phy, p)
<1> DEFINE read == Read(p)
           next == ReceiveTelegram(p).phy
<1>1. SendsAlike(read, p) /\ IsPhy(read)
  BY ReadAlike DEF SendsAlike
<1>2. next = read \/ (\E n : next = Drop(read, n))
  BY DEF ReceiveTelegram
<1> HIDE DEF read, next
<1>3. SendsAlike(next, read)
  BY <1>1, <1>2, DropAlike DEF SendsAlike
<1> QED  BY <1>1, <1>3 DEF SendsAlike, next

\* A byte that goes out is the first of those to be sent.
LEMMA ShiftKeeps ==
  ASSUME NEW p, NEW s, SendsBytes(p, s), NEW bytes
  PROVE  SendsBytes(Shift(Arrive(p, bytes)),
                    IF p.queue = <<>> THEN s ELSE SubSeq(s, 2, Len(s)))
<1> DEFINE q == Arrive(p, bytes)
           queue == SubSeq(p.queue, 2, Len(p.queue))
           next == Shift(q)
<1>1. IsPhy(p) /\ IsList(p.queue) /\ IsList(p.unsent)
  BY DEF SendsBytes
<1>2. SendsAlike(q, p)
  <2> DEFINE unread == p.unread \o bytes
  <2>1. q = p \/ q = [p EXCEPT !.unread = unread]
    BY DEF Arrive
  <2> HIDE DEF unread
  <2> QED  BY <1>1, <2>1 DEF SendsAlike, IsPhy
<1>3. /\ IsPhy(next) /\ next.driver = p.driver /\ next.mode = p.mode
      /\ next.unsent = p.unsent /\ next.queue = queue
  <2> DEFINE wait == Max({0, q.wait - 1})
  <2>1. next = [q EXCEPT !.queue = SubSeq(q.queue, 2, Len(q.queue)), !.wait = wait]
    BY DEF Shift
  <2> HIDE DEF q, wait
  <2>2. next = [q EXCEPT !.queue = queue, !.wait = wait]
    BY <1>2, <2>1 DEF SendsAlike
  <2> HIDE DEF queue
  <2> QED  BY <1>2, <2>2 DEF SendsAlike, IsPhy
<1> HIDE DEF next, q
<1>4. CASE p.queue = <<>>
  <2>1. queue = p.queue
    BY <1>4
  <2> HIDE DEF queue
  <2>2. SendsAlike(next, p)
    BY <1>3, <2>1 DEF SendsAlike
  <2> QED  BY <1>4, <2>2, AlikeKeeps DEF next, q
<1>5. CASE p.queue # <<>>
  <2>1. p.mode = "Tx" /\ s = p.queue \o p.unsent
    BY <1>5 DEF SendsBytes
  <2>2. SubSeq(s, 2, Len(s)) = queue \o p.unsent /\ IsList(queue)
    BY <1>1, <1>5, <2>1, FirstGoes
  <2> DEFINE t == SubSeq(s, 2, Len(s))
  <2> HIDE DEF queue, t
  <2>3. SendsBytes(next, t)
    BY <1>1, <1>3, <2>1, <2>2 DEF SendsBytes, t
  <2> QED  BY <1>5, <2>3 DEF next, q, t
<1> QED  BY <1>4, <1>5

-----------------------------------------------------------------------------
(* The drivers: receiving. *)

\* What a driver has received: bytes, no more than there is room for.
ReadsBytes(p) ==
  /\ IsPhy(p)
  /\ p.buffer \in Seq(Bytes) /\ p.unread \in Seq(Bytes)
  /\ p.driver # "simulator" => Len(p.buffer) <= BufferLength

\* Reading moves bytes from the device to the buffer.
LEMMA ReadBytes ==
  ASSUME NEW p, ReadsBytes(p)
  PROVE  ReadsBytes(Read(p))
<1> DEFINE room == IF p.driver = "simulator" THEN Len(p.unread)
                   ELSE Min({Len(p.unread), BufferLength - Len(p.buffer)})
           first == SubSeq(p.unread, 1, room)
           buffer == p.buffer \o first
           unread == SubSeq(p.unread, room + 1, Len(p.unread))
<1>1. p.buffer \in Seq(Bytes) /\ p.unread \in Seq(Bytes) /\ IsPhy(p)
  BY DEF ReadsBytes
<1>2. /\ room \in 0 .. Len(p.unread)
      /\ p.driver # "simulator" => Len(p.buffer) + room <= BufferLength
  <2>1. CASE p.driver = "simulator"
    BY <1>1, <2>1
  <2>2. CASE p.driver # "simulator"
    <3> DEFINE n == Len(p.unread)
               k == Len(p.buffer)
               least == Min({n, BufferLength - k})
    <3>1. n \in Nat /\ k \in Nat /\ BufferLength \in Nat /\ k <= BufferLength
      BY <1>1, <2>2, PhyAssumption DEF ReadsBytes
    <3>2. room = least
      BY <2>2
    <3> HIDE DEF n, k, room
    <3>3. least = IF n <= BufferLength - k THEN n ELSE BufferLength - k
      BY <3>1 DEF Min
    <3> HIDE DEF least
    <3>4. room \in 0 .. n /\ k + room <= BufferLength
      BY <3>1, <3>2, <3>3
    <3> QED  BY <3>4 DEF n, k
  <2> QED  BY <2>1, <2>2
<1>3. Read(p) = [p EXCEPT !.buffer = buffer, !.unread = unread]
  BY DEF Read
<1> HIDE DEF room
<1>4. first \in Seq(Bytes) /\ unread \in Seq(Bytes) /\ Len(first) = room
  <2>1. Len(p.unread) \in Nat /\ room \in Nat
    BY <1>1, <1>2
  <2>2. /\ 1 \in 1 .. Len(p.unread) + 1 /\ room \in 0 .. Len(p.unread)
        /\ \A i \in 1 .. room : p.unread[i] \in Bytes
        /\ \A i \in room + 1 .. Len(p.unread) : p.unread[i] \in Bytes
    BY <1>1, <1>2, <2>1
  <2>3. first \in Seq(Bytes) /\ Len(first) = room
    BY <1>1, <2>1, <2>2, SubSeqProperties
  <2>4. unread \in Seq(Bytes)
    BY <1>1, <2>1, <2>2, SubSeqProperties
  <2> QED  BY <2>3, <2>4
<1> HIDE DEF first, unread
<1>5. buffer \in Seq(Bytes) /\ Len(buffer) = Len(p.buffer) + room
  BY <1>1, <1>4, MoreBytes
<1> HIDE DEF buffer
<1>6. /\ IsPhy(Read(p)) /\ Read(p).driver = p.driver
      /\ Read(p).buffer = buffer /\ Read(p).unread = unread
  BY <1>1, <1>3 DEF IsPhy
<1> QED  BY <1>2, <1>4, <1>5, <1>6 DEF ReadsBytes

\* Dropping leaves the last of them, or none.
LEMMA DropBytes ==
  ASSUME NEW p, ReadsBytes(p), NEW n \in Nat
  PROVE  ReadsBytes(Drop(p, n))
<1> DEFINE rest == SubSeq(p.buffer, n + 1, Len(p.buffer))
           nothing == <<>>
<1>1. p.buffer \in Seq(Bytes) /\ Len(p.buffer) \in Nat /\ IsPhy(p)
  BY DEF ReadsBytes
<1>2. rest \in Seq(Bytes) /\ Len(rest) \in 0 .. Len(p.buffer)
  <2>1. \A i \in n + 1 .. Len(p.buffer) : p.buffer[i] \in Bytes
    BY <1>1
  <2>2. CASE n < Len(p.buffer)
    <3>1. n + 1 \in 1 .. Len(p.buffer) + 1 /\ Len(p.buffer) \in n + 1 - 1 .. Len(p.buffer)
      BY <1>1, <2>2
    <3>2. rest \in Seq(Bytes) /\ Len(rest) = Len(p.buffer) - (n + 1) + 1
      BY <1>1, <2>1, <3>1, SubSeqProperties
    <3> QED  BY <1>1, <2>2, <3>2
  <2>3. CASE ~(n < Len(p.buffer))
    <3>1. rest = <<>>
      BY <1>1, <2>3
    <3> QED  BY <1>1, <3>1, EmptySeq
  <2> QED  BY <2>2, <2>3
<1>3. nothing \in Seq(Bytes) /\ Len(nothing) = 0
  OBVIOUS
<1>4. \E buffer \in {p.buffer, rest, nothing} : Drop(p, n) = [p EXCEPT !.buffer = buffer]
  BY DEF Drop, SerialDrop, Rp2040Drop
<1> HIDE DEF rest, nothing
<1>5. PICK buffer \in {p.buffer, rest, nothing} : Drop(p, n) = [p EXCEPT !.buffer = buffer]
  BY <1>4
<1>6. buffer \in Seq(Bytes) /\ Len(buffer) <= Len(p.buffer)
  <2>1. CASE buffer = p.buffer
    BY <1>1, <2>1
  <2>2. CASE buffer = rest
    BY <1>1, <1>2, <2>2
  <2>3. CASE buffer = nothing
    BY <1>1, <1>3, <2>3
  <2> QED  BY <1>5, <2>1, <2>2, <2>3
<1>7. /\ IsPhy(Drop(p, n)) /\ Drop(p, n).driver = p.driver
      /\ Drop(p, n).buffer = buffer /\ Drop(p, n).unread = p.unread
  BY <1>1, <1>5 DEF IsPhy
<1>8. ASSUME p.driver # "simulator" PROVE Len(buffer) <= BufferLength
  <2>1. Len(p.buffer) <= BufferLength /\ Len(buffer) \in Nat
    BY <1>6, <1>8 DEF ReadsBytes
  <2> QED  BY <1>1, <1>6, <2>1, PhyAssumption
<1> QED  BY <1>6, <1>7, <1>8 DEF ReadsBytes

\* What receive_telegram() hands over: a telegram at most, from a station's address.
Readable(telegrams) ==
  /\ IsList(telegrams)
  /\ \A t \in Range(telegrams) : t.kind = "Data" => t.sa \in 0 .. 127

\* No telegrams can be read, and one can.
LEMMA ReadableWritten ==
  /\ Readable(<<>>)
  /\ \A t : (t.kind = "Data" => t.sa \in 0 .. 127) => Readable(<<t>>)
<1>1. Readable(<<>>)
  BY Written DEF Readable, Range
<1>2. ASSUME NEW t, t.kind = "Data" => t.sa \in 0 .. 127 PROVE Readable(<<t>>)
  <2>1. Range(<<t>>) = {t}
    BY DEF Range
  <2> QED  BY <1>2, <2>1, Written DEF Readable
<1> QED  BY <1>1, <1>2

\* Telegrams that were read, and then others.
LEMMA ReadableTogether ==
  ASSUME NEW q, Readable(q), NEW r, Readable(r)
  PROVE  Readable(q \o r) /\ (r # <<>> => q \o r # <<>>)
<1> DEFINE S == Range(q) \cup Range(r)
<1>1. IsList(q) /\ IsList(r)
  BY DEF Readable
<1>2. q \in Seq(S) /\ r \in Seq(S)
  BY <1>1 DEF IsList
<1>3. Range(q \o r) = S /\ IsList(q \o r)
  BY <1>1, <1>2, RangeConcatenation, PutTogether
<1>4. ASSUME r # <<>> PROVE q \o r # <<>>
  <2> HIDE DEF S
  <2> QED  BY <1>2, <1>4
<1> QED  BY <1>3, <1>4 DEF Readable

\* receive_telegram() leaves bytes, and hands over a telegram or none.
LEMMA ReceiveReads ==
  ASSUME NEW p, ReadsBytes(p)
  PROVE  ReadsBytes(ReceiveTelegram(p).phy) /\ Readable(ReceiveTelegram(p).telegrams)
<1> DEFINE read == Read(p)
           decoded == Deserialize(read.buffer)
           next == ReceiveTelegram(p)
<1>1. ReadsBytes(read)
  BY ReadBytes
<1>2. read.buffer \in Seq(Bytes) /\ Len(read.buffer) \in Nat
  BY <1>1 DEF ReadsBytes
<1>3. CASE decoded.result = "invalid"
  <2>1. next = [phy |-> Drop(read, Len(read.buffer)), telegrams |-> <<>>]
    BY <1>3 DEF ReceiveTelegram
  <2> HIDE DEF read, next
  <2>2. next.phy = Drop(read, Len(read.buffer)) /\ next.telegrams = <<>>
    BY <2>1
  <2>3. ReadsBytes(next.phy) /\ Readable(next.telegrams)
    BY <1>1, <1>2, <2>2, DropBytes, ReadableWritten
  <2> QED  BY <2>3 DEF next
<1>4. CASE decoded.result = "telegram"
  <2>1. next = [phy |-> Drop(read, decoded.length), telegrams |-> <<decoded.telegram>>]
    BY <1>4 DEF ReceiveTelegram
  <2>2. /\ decoded.length \in Nat
        /\ decoded.telegram.kind = "Data" => decoded.telegram.sa \in 0 .. 127
    <3> HIDE DEF read
    <3> QED  BY <1>2, <1>4, DeserializeFits
  <2> HIDE DEF read, decoded, next
  <2>3. next.phy = Drop(read, decoded.length) /\ next.telegrams = <<decoded.telegram>>
    BY <2>1
  <2>4. ReadsBytes(next.phy) /\ Readable(next.telegrams)
    BY <1>1, <2>2, <2>3, DropBytes, ReadableWritten
  <2> QED  BY <2>4 DEF next
<1>5. CASE decoded.result # "invalid" /\ decoded.result # "telegram"
  <2>1. next = [phy |-> read, telegrams |-> <<>>]
    BY <1>5 DEF ReceiveTelegram
  <2> HIDE DEF read, next
  <2>2. ReadsBytes(next.phy) /\ Readable(next.telegrams)
    BY <1>1, <2>1, ReadableWritten
  <2> QED  BY <2>2 DEF next
<1> QED  BY <1>3, <1>4, <1>5

\* The turns of receive_all_telegrams(), and what they keep.
TakeTurn(p, all, turn) == ReceiveTurn(all)
TurnReads(p, all) ==
  /\ SendsAlike(all.phy, p) /\ ReadsBytes(all.phy)
  /\ Readable(all.telegrams)
  /\ all.last => all.telegrams # <<>>

ReadTurns == INSTANCE FoldInduction WITH Op <- TakeTurn, Inv <- TurnReads

\* One turn of receive_all_telegrams() does,
LEMMA TurnKeepsReads ==
  ASSUME NEW p, NEW all, TurnReads(p, all)
  PROVE  TurnReads(p, ReceiveTurn(all))
<1> DEFINE one == ReceiveTelegram(all.phy)
           buffer == Read(all.phy).buffer
           last == one.telegrams # <<>> /\ Deserialize(buffer).length = Len(buffer)
           looping == one.telegrams # <<>> /\ ~last
           telegrams == all.telegrams \o one.telegrams
           next == ReceiveTurn(all)
<1>1. ReadsBytes(one.phy) /\ Readable(one.telegrams) /\ SendsAlike(one.phy, all.phy)
  BY ReceiveReads, ReceiveAlike DEF TurnReads, ReadsBytes
<1>2. CASE ~all.looping
  BY <1>2 DEF ReceiveTurn
<1>3. CASE all.looping
  <2>1. next = [phy |-> one.phy, telegrams |-> telegrams, last |-> last, looping |-> looping]
    BY <1>3 DEF ReceiveTurn
  <2>2. Readable(telegrams) /\ (one.telegrams # <<>> => telegrams # <<>>)
    <3> HIDE DEF one
    <3> QED  BY <1>1, ReadableTogether DEF TurnReads
  <2>3. last => one.telegrams # <<>>
    OBVIOUS
  <2> HIDE DEF one, last, looping, telegrams, next
  <2>4. next.phy = one.phy /\ next.telegrams = telegrams /\ next.last = last
    BY <2>1
  <2>5. TurnReads(p, next)
    BY <1>1, <2>2, <2>3, <2>4 DEF TurnReads, SendsAlike
  <2> QED  BY <2>5 DEF next
<1> QED  BY <1>2, <1>3

\* and so do all of them.
LEMMA ReceiveAllReads ==
  ASSUME NEW p, ReadsBytes(p)
  PROVE  TurnReads(p, ReceiveAllTelegrams(p))
<1> DEFINE start == [phy |-> p, telegrams |-> <<>>, last |-> FALSE, looping |-> TRUE]
           turns == Len(p.buffer) + Len(p.unread) + 1
<1>0. turns \in Nat
  <2>1. p.buffer \in Seq(Bytes) /\ p.unread \in Seq(Bytes)
    BY DEF ReadsBytes
  <2>2. Len(p.buffer) \in Nat /\ Len(p.unread) \in Nat
    BY <2>1, LenProperties
  <2>3. \A m, n \in Nat : m + n + 1 \in Nat
    OBVIOUS
  <2> QED  BY <2>2, <2>3, Zenon
<1>1. ReceiveAllTelegrams(p) = ReadTurns!Count(p, start)[turns]
  BY DEF ReceiveAllTelegrams, ReadTurns!Count, TakeTurn
<1> HIDE DEF turns
<1>2. TurnReads(p, start)
  <2>1. start.phy = p /\ start.telegrams = <<>> /\ ~start.last
    OBVIOUS
  <2> HIDE DEF start
  <2> QED  BY <2>1, ReadableWritten DEF TurnReads, SendsAlike, ReadsBytes
<1>3. ASSUME NEW all, NEW turn \in Nat, TurnReads(p, all)
      PROVE  TurnReads(p, TakeTurn(p, all, turn))
  BY <1>3, TurnKeepsReads DEF TakeTurn
<1> HIDE DEF start
<1>4. \A n \in Nat : TurnReads(p, ReadTurns!Count(p, start)[n])
  BY <1>2, <1>3, ReadTurns!CountKeeps
<1> QED  BY <1>0, <1>1, <1>4

\* Submitting has nothing to do with what was received.
LEMMA SubmitReads ==
  ASSUME NEW p, ReadsBytes(p)
  PROVE  ReadsBytes(Submit(p))
<1> DEFINE n == Min({WriteSize, Len(p.unsent)})
           queue == p.queue \o SubSeq(p.unsent, 1, n)
           unsent == SubSeq(p.unsent, n + 1, Len(p.unsent))
<1>1. Submit(p) = [p EXCEPT !.queue = queue, !.unsent = unsent]
  BY DEF Submit
<1> HIDE DEF queue, unsent
<1> QED  BY <1>1 DEF ReadsBytes, IsPhy

\* An empty buffer has bytes only.
LEMMA EmptyReads ==
  ASSUME NEW p, ReadsBytes(p), NEW q, IsPhy(q), q.driver = p.driver, q.buffer = <<>>,
         q.unread \in Seq(Bytes)
  PROVE  ReadsBytes(q)
<1>1. <<>> \in Seq(Bytes) /\ Len(<<>>) = 0 /\ 0 <= BufferLength
  BY PhyAssumption
<1> QED  BY <1>1 DEF ReadsBytes

\* poll_transmission() leaves bytes: those it had, or none.
LEMMA PollReads ==
  ASSUME NEW p, ReadsBytes(p), p.driver \in DriverKinds
  PROVE  ReadsBytes(PollTransmission(p))
<1>1. ReadsBytes(Submit(p))
  BY SubmitReads
<1>2. ReadsBytes(MakeRx(p))
  <2> DEFINE nothing == <<>>
             q == MakeRx(p)
  <2>1. q = [p EXCEPT !.mode = "Rx", !.buffer = nothing]
    BY DEF MakeRx
  <2> HIDE DEF nothing, q
  <2>2. IsPhy(q) /\ q.driver = p.driver /\ q.buffer = nothing /\ q.unread = p.unread
    BY <2>1 DEF ReadsBytes, IsPhy
  <2>3. p.unread \in Seq(Bytes)
    BY DEF ReadsBytes
  <2>4. ReadsBytes(q)
    BY <2>2, <2>3, EmptyReads DEF nothing
  <2> QED  BY <2>4 DEF q
<1>3. ReadsBytes([p EXCEPT !.mode = "Rx"])
  BY DEF ReadsBytes, IsPhy
<1>4. PollTransmission(p) \in {p, Submit(p), MakeRx(p), [p EXCEPT !.mode = "Rx"]}
  BY Zenon DEF PollTransmission, SerialPoll, Rp2040Poll, SimulatorPoll, DriverKinds
<1> QED  BY <1>1, <1>2, <1>3, <1>4

\* transmit_data() loses what the buffer holds; the simulator's cursor skips some.
LEMMA TransmitReads ==
  ASSUME NEW p, ReadsBytes(p), p.driver \in DriverKinds, NEW frame \in Seq(Bytes)
  PROVE  ReadsBytes(Transmit(p, frame))
<1> DEFINE nothing == <<>>
<1>0. p.unread \in Seq(Bytes) /\ p.buffer \in Seq(Bytes)
  BY DEF ReadsBytes
<1>1. CASE p.driver = "serial"
  <2> DEFINE q == [p EXCEPT !.mode = "Tx", !.buffer = nothing, !.unsent = frame]
  <2>1. Transmit(p, frame) = Submit(q)
    BY <1>1 DEF Transmit, SerialTransmit
  <2> HIDE DEF nothing
  <2>2. q = [p EXCEPT !.mode = "Tx", !.buffer = nothing, !.unsent = frame]
    OBVIOUS
  <2> HIDE DEF q
  <2>3. IsPhy(q) /\ q.driver = p.driver /\ q.buffer = nothing /\ q.unread = p.unread
    BY <2>2 DEF ReadsBytes, IsPhy
  <2>4. ReadsBytes(q)
    BY <1>0, <2>3, EmptyReads DEF nothing
  <2> QED  BY <2>1, <2>4, SubmitReads
<1>2. CASE p.driver = "rp2040"
  <2> DEFINE q == [p EXCEPT !.mode = "Tx", !.buffer = nothing, !.unsent = frame, !.wait = 1]
  <2>1. Transmit(p, frame) = q
    BY <1>2 DEF Transmit, Rp2040Transmit
  <2> HIDE DEF nothing
  <2>2. q = [p EXCEPT !.mode = "Tx", !.buffer = nothing, !.unsent = frame, !.wait = 1]
    OBVIOUS
  <2> HIDE DEF q
  <2>3. IsPhy(q) /\ q.driver = p.driver /\ q.buffer = nothing /\ q.unread = p.unread
    BY <2>2 DEF ReadsBytes, IsPhy
  <2> QED  BY <1>0, <2>1, <2>3, EmptyReads DEF nothing
<1>3. CASE p.driver = "simulator"
  <2> DEFINE stream == p.buffer \o p.unread \o frame
             unread == SubSeq(stream, Len(frame) + 1, Len(stream))
             q == [p EXCEPT !.mode = "Tx", !.queue = frame, !.buffer = nothing, !.unread = unread]
  <2>1. Transmit(p, frame) = q
    BY <1>3 DEF Transmit, SimulatorTransmit
  <2>2. unread \in Seq(Bytes)
    <3> DEFINE before == p.buffer \o p.unread
    <3>1. before \in Seq(Bytes) /\ Len(before) \in Nat /\ Len(frame) \in Nat
      BY <1>0, MoreBytes, LenProperties
    <3>2. stream = before \o frame
      OBVIOUS
    <3> HIDE DEF before, stream
    <3>3. stream \in Seq(Bytes) /\ Len(stream) = Len(before) + Len(frame)
      BY <3>1, <3>2, MoreBytes
    <3>4. \A i \in Len(frame) + 1 .. Len(stream) : stream[i] \in Bytes
      BY <3>1, <3>3
    <3> QED  BY <3>1, <3>3, <3>4, SubSeqProperties
  <2> HIDE DEF nothing, unread
  <2>3. q = [p EXCEPT !.mode = "Tx", !.queue = frame, !.buffer = nothing, !.unread = unread]
    OBVIOUS
  <2> HIDE DEF q
  <2>4. IsPhy(q) /\ q.driver = p.driver /\ q.buffer = nothing /\ q.unread = unread
    BY <2>3 DEF ReadsBytes, IsPhy
  <2> QED  BY <2>1, <2>2, <2>4, EmptyReads DEF nothing
<1> QED  BY <1>1, <1>2, <1>3 DEF DriverKinds

\* Bytes come in.
LEMMA ShiftReads ==
  ASSUME NEW p, ReadsBytes(p), NEW bytes \in Seq(Bytes)
  PROVE  ReadsBytes(Shift(Arrive(p, bytes)))
<1> DEFINE q == Arrive(p, bytes)
           unread == p.unread \o bytes
<1>1. ReadsBytes(q)
  <2>1. unread \in Seq(Bytes)
    BY MoreBytes DEF ReadsBytes
  <2>2. q = p \/ q = [p EXCEPT !.unread = unread]
    BY DEF Arrive
  <2> HIDE DEF unread, q
  <2> QED  BY <2>1, <2>2 DEF ReadsBytes, IsPhy
<1> DEFINE queue == SubSeq(q.queue, 2, Len(q.queue))
           wait == Max({0, q.wait - 1})
           next == Shift(q)
<1>2. next = [q EXCEPT !.queue = queue, !.wait = wait]
  BY DEF Shift
<1> HIDE DEF q, queue, wait, next
<1>3. ReadsBytes(next)
  BY <1>1, <1>2 DEF ReadsBytes, IsPhy
<1> QED  BY <1>3 DEF next, q

-----------------------------------------------------------------------------
(* What is sent leaves whole. *)

\* The invariant: all of the station's telegram is in the driver or on the wire, and what
\* is on its way are bytes.
SendInv ==
  /\ ReadsBytes(phy) /\ SendsBytes(phy, sending)
  /\ request \in SUBSET (0 .. 127)
  /\ line \in Seq(Bytes \cup {Pause})

\* At the start nothing is being sent.
LEMMA InitSends == Init => SendInv
<1> SUFFICES ASSUME Init PROVE SendInv
  OBVIOUS
<1>1. PICK driver \in DriverKinds : phy = NewPhy(driver)
  BY BusAssumption DEF Init
<1> DEFINE nothing == <<>>
<1>2. nothing \in Seq(Bytes) /\ nothing \in Stream /\ Len(nothing) = 0 /\ IsList(nothing)
  BY Written DEF Stream
<1>3. sending = nothing /\ line = nothing /\ request = {}
  BY DEF Init
<1>4. phy = [driver |-> driver, mode |-> "Rx", buffer |-> nothing, unread |-> nothing,
             unsent |-> nothing, queue |-> nothing, wait |-> 0]
  BY <1>1 DEF NewPhy
<1>5. ReadsBytes(phy) /\ (nothing = <<>> => SendsBytes(phy, nothing))
  <2> HIDE DEF nothing
  <2>1. /\ IsPhy(phy) /\ phy.driver = driver /\ phy.mode = "Rx" /\ phy.buffer = nothing
        /\ phy.unread = nothing /\ phy.unsent = nothing /\ phy.queue = nothing
    BY <1>4 DEF IsPhy
  <2>2. ReadsBytes(phy)
    BY <1>2, <2>1, PhyAssumption DEF ReadsBytes
  <2>3. ASSUME nothing = <<>> PROVE SendsBytes(phy, nothing)
    BY <1>1, <1>2, <2>1, <2>3 DEF SendsBytes
  <2> QED  BY <2>2, <2>3
<1> QED  BY <1>2, <1>3, <1>5 DEF SendInv, Stream

\* The line carries on.
LEMMA LineMoves ==
  ASSUME SendInv
  PROVE  /\ SubSeq(line, 2, Len(line)) \in Stream
         /\ line # <<>> /\ Head(line) # Pause => <<Head(line)>> \in Seq(Bytes)
<1>1. line \in Stream /\ Len(line) \in Nat
  BY DEF SendInv, Stream
<1>2. SubSeq(line, 2, Len(line)) \in Stream
  <2>1. CASE Len(line) = 0
    <3>1. SubSeq(line, 2, Len(line)) = <<>>
      <4>1. 2 \in Int /\ Len(line) \in Int /\ Len(line) < 2
        BY <1>1, <2>1
      <4> QED  BY <4>1, SubSeqEmpty
    <3> QED  BY <3>1, EmptySeq DEF Stream
  <2>2. CASE Len(line) # 0
    <3>1. 2 \in 1 .. Len(line) + 1 /\ Len(line) \in 2 - 1 .. Len(line)
      BY <1>1, <2>2
    <3>2. \A i \in 2 .. Len(line) : line[i] \in Bytes \cup {Pause}
      BY <1>1 DEF Stream
    <3> QED  BY <1>1, <3>1, <3>2, SubSeqProperties DEF Stream
  <2> QED  BY <2>1, <2>2
<1>3. ASSUME line # <<>>, Head(line) # Pause PROVE <<Head(line)>> \in Seq(Bytes)
  <2>1. Head(line) \in Bytes \cup {Pause}
    BY <1>1, <1>3 DEF Stream
  <2>2. Head(line) \in Bytes
    BY <1>3, <2>1
  <2> QED  BY <2>2, WrittenBytes
<1> QED  BY <1>2, <1>3

\* A byte time passes.
LEMMA ByteTimeSends ==
  ASSUME SendInv, ByteTime
  PROVE  SendInv'
<1> DEFINE arriving == IF line = <<>> \/ Head(line) = Pause THEN <<>> ELSE <<Head(line)>>
<1>1. arriving \in Seq(Bytes)
  BY LineMoves
<1>2. phy' = Shift(Arrive(phy, arriving))
  BY DEF ByteTime
<1> HIDE DEF arriving
<1>3. ReadsBytes(phy) /\ SendsBytes(phy, sending)
  BY DEF SendInv
<1>4. ReadsBytes(phy')
  BY <1>1, <1>2, <1>3, ShiftReads
<1>5. SendsBytes(phy', IF phy.queue = <<>> THEN sending ELSE SubSeq(sending, 2, Len(sending)))
  BY <1>2, <1>3, ShiftKeeps
<1>6. sending' = IF phy.queue = <<>> THEN sending ELSE SubSeq(sending, 2, Len(sending))
  BY DEF ByteTime
<1>7. line' \in Stream
  BY LineMoves DEF ByteTime
<1>8. request' = request
  BY DEF ByteTime
<1>9. SendsBytes(phy', sending')
  BY <1>5, <1>6
<1> QED  BY <1>4, <1>7, <1>8, <1>9 DEF SendInv, Stream

\* The slave answers.
LEMMA ReplySends ==
  ASSUME SendInv, SlaveReplies
  PROVE  SendInv'
<1>1. PICK reply \in Replies :
        \/ line' = <<Pause>> \o Serialize(reply)
        \/ \E i \in DOMAIN Serialize(reply) : \E b \in Noise :
             line' = <<Pause>> \o [Serialize(reply) EXCEPT ![i] = b]
  BY DEF SlaveReplies
<1> DEFINE bytes == Serialize(reply)
<1>2. bytes \in Seq(Bytes)
  BY BusAssumption, SerializeBytes
<1> HIDE DEF bytes
<1>3. \A i \in DOMAIN bytes, b \in Noise : [bytes EXCEPT ![i] = b] \in Seq(Bytes)
  <2> TAKE i \in DOMAIN bytes, b \in Noise
  <2>1. b \in Bytes /\ i \in 1 .. Len(bytes)
    BY <1>2, BusAssumption
  <2> QED  BY <1>2, <2>1, ExceptSeq
<1>4. ASSUME NEW frame \in Seq(Bytes) PROVE <<Pause>> \o frame \in Stream
  <2>1. frame \in Stream
    BY <1>4 DEF Stream
  <2> DEFINE S == Bytes \cup {Pause}
             pause == <<Pause>>
  <2>2. pause \in Seq(S)
    OBVIOUS
  <2> HIDE DEF S, pause
  <2>3. \A r \in Seq(S) : pause \o r \in Seq(S)
    BY <2>2
  <2> QED  BY <2>1, <2>3 DEF Stream, S, pause
<1>5. line' \in Stream
  BY <1>1, <1>2, <1>3, <1>4 DEF bytes
<1>6. phy' = phy /\ sending' = sending /\ request' = request
  BY DEF SlaveReplies
<1> QED  BY <1>5, <1>6 DEF SendInv, Stream

\* The peer sends telegrams, a pause behind each of them.
LEMMA PeerSendsSends ==
  ASSUME SendInv, NEW telegrams, Listed(telegrams), PeerSends(telegrams)
  PROVE  SendInv'
<1>1. phy' = phy /\ sending' = sending /\ request' = request
  BY DEF PeerSends
<1>2. line' = FlattenSeq(Spaced(telegrams))
  BY DEF PeerSends, Spaced
<1>3. line' \in Stream
  BY <1>2, SpacedBytes DEF SpacedSent
<1> QED  BY <1>1, <1>3 DEF SendInv, Stream

\* Whatever the peer does, it sends such telegrams.
LEMMA PeerTurnSends ==
  ASSUME SendInv, PeerPassesToken \/ PeerAsksForStatus \/ PeerAsksSlave
  PROVE  SendInv'
  BY PeerLists, PeerSendsSends DEF PeerPassesToken, PeerAsksForStatus, PeerAsksSlave

\* The driver after poll_transmission().
LEMMA PolledSends ==
  ASSUME SendInv
  PROVE  ReadsBytes(Polled) /\ SendsBytes(Polled, sending)
<1>1. ReadsBytes(phy) /\ SendsBytes(phy, sending) /\ phy.driver \in DriverKinds
  BY DEF SendInv, SendsBytes
<1> QED  BY <1>1, PollKeeps, PollReads DEF Polled

\* A poll that only reads keeps the invariant.
LEMMA ReadingSends ==
  ASSUME SendInv, ReadsBytes(phy'), SendsAlike(phy', Polled),
         sending' = sending, line' = line, request' \in SUBSET (0 .. 127)
  PROVE  SendInv'
<1>1. SendsBytes(phy', sending)
  BY PolledSends, AlikeKeeps
<1>2. SendsBytes(phy', sending')
  BY <1>1
<1> QED  BY <1>2 DEF SendInv

\* A poll that sends a telegram keeps it as well.
LEMMA TransmitsSends ==
  ASSUME SendInv, ~Ongoing, NEW from, ReadsBytes(from), SendsAlike(from, Polled),
         NEW telegram, IsTelegram(telegram), NEW waitingFor, Transmits(from, telegram, waitingFor),
         request' \in SUBSET (0 .. 127)
  PROVE  SendInv'
<1> DEFINE frame == Serialize(telegram)
<1>1. frame \in Seq(Bytes)
  BY SerializeBytes
<1>2. phy' = Transmit(from, frame) /\ sending' = frame /\ line' = line
  BY DEF Transmits
<1> HIDE DEF frame
<1>3. IsList(frame)
  BY <1>1 DEF IsList, Range
<1>4. SendsBytes(from, sending) /\ from.mode # "Tx" /\ from.driver \in DriverKinds
  BY PolledSends, AlikeKeeps DEF SendsAlike, Ongoing, SendsBytes
<1>5. SendsBytes(Transmit(from, frame), frame)
  BY <1>3, <1>4, TransmitTakes
<1>6. ReadsBytes(Transmit(from, frame))
  BY <1>1, <1>4, TransmitReads
<1>7. SendsBytes(phy', sending') /\ ReadsBytes(phy')
  BY <1>2, <1>5, <1>6
<1> QED  BY <1>2, <1>7 DEF SendInv

\* What is read before it is sent.
LEMMA ReadPolled ==
  ASSUME SendInv
  PROVE  /\ ReadsBytes(Read(Polled)) /\ SendsAlike(Read(Polled), Polled)
         /\ ReadsBytes(ReceiveTelegram(Polled).phy)
         /\ SendsAlike(ReceiveTelegram(Polled).phy, Polled)
  BY PolledSends, ReadBytes, ReadAlike, ReceiveReads, ReceiveAlike DEF ReadsBytes

\* A poll that finds nothing to act on reads only.
LEMMA WaitsSends ==
  ASSUME SendInv, Waits
  PROVE  SendInv'
<1>1. /\ phy' = Read(Polled) /\ sending' = sending /\ line' = line
      /\ request' = request
  BY DEF Waits, bus
<1>2. request' \in SUBSET (0 .. 127)
  BY <1>1 DEF SendInv
<1>3. ReadsBytes(phy') /\ SendsAlike(phy', Polled)
  BY <1>1, ReadPolled
<1> QED  BY <1>1, <1>2, <1>3, ReadingSends

\* A poll of the station that holds the token sends a telegram.
LEMMA SendOrPassSends ==
  ASSUME SendInv, ~Ongoing, NEW from, ReadsBytes(from), SendsAlike(from, Polled),
         SendOrPass(from), request' = request
  PROVE  SendInv'
<1>1. request' \in SUBSET (0 .. 127)
  BY DEF SendInv
<1>2. Transmits(from, DataRequest, "reply") \/ Transmits(from, TokenPass, "turn")
  BY DEF SendOrPass
<1> QED  BY <1>1, <1>2, Telegrams, TransmitsSends

\* The poll, state by state.
LEMMA PollSends ==
  ASSUME SendInv, Poll
  PROVE  SendInv'
<1>0. request \in SUBSET (0 .. 127)
  BY DEF SendInv
<1>1. CASE WaitForTransmission
  <2>1. phy' = Polled /\ sending' = sending /\ line' = line /\ request' = request
    BY <1>1 DEF WaitForTransmission, bus
  <2>2. ReadsBytes(phy') /\ SendsBytes(phy', sending')
    BY <2>1, PolledSends
  <2> QED  BY <2>1, <2>2 DEF SendInv
<1>2. CASE AnswerStatusRequest
  <2>1. CASE MustWait
    BY <1>2, <2>1, WaitsSends DEF AnswerStatusRequest
  <2>2. CASE ~MustWait
    <3>1. /\ \E da \in request : Transmits(Read(Polled), StatusResponse(da), "turn")
          /\ request' = {} /\ ~Ongoing
      BY <1>2, <2>2 DEF AnswerStatusRequest
    <3>2. PICK da \in request : Transmits(Read(Polled), StatusResponse(da), "turn")
      BY <3>1
    <3>3. IsTelegram(StatusResponse(da)) /\ request' \in SUBSET (0 .. 127)
      BY <1>0, <3>1, <3>2, Telegrams
    <3> QED  BY <3>1, <3>2, <3>3, ReadPolled, TransmitsSends
  <2> QED  BY <2>1, <2>2
<1>3. CASE ReceiveInActiveIdle
  <2> DEFINE received == ReceiveAllTelegrams(Polled)
             newest == IF received.last THEN {Last(received.telegrams)} ELSE {}
             asked == {t.sa : t \in {n \in newest : IsFdlStatusRequest(n) /\ n.da = Own}}
  <2>1. phy' = received.phy /\ sending' = sending /\ line' = line /\ request' = asked
    BY <1>3 DEF ReceiveInActiveIdle, Reads, bus
  <2>2. TurnReads(Polled, received)
    BY PolledSends, ReceiveAllReads
  <2> HIDE DEF received
  <2>3. ASSUME NEW t \in newest, IsFdlStatusRequest(t) PROVE t.sa \in 0 .. 127
    <3>1. received.last /\ t = Last(received.telegrams)
      BY <2>3
    <3>2. Readable(received.telegrams) /\ received.telegrams # <<>>
      BY <2>2, <3>1 DEF TurnReads
    <3> DEFINE list == received.telegrams
    <3>3. list \in Seq(Range(list)) /\ list # <<>>
      BY <3>2 DEF Readable, IsList
    <3> HIDE DEF list
    <3>4. Last(list) \in Range(list)
      <4> DEFINE S == Range(list)
      <4>1. list \in Seq(S) /\ list # <<>>
        BY <3>3
      <4> HIDE DEF S
      <4>2. list[Len(list)] \in S
        BY <4>1
      <4> QED  BY <4>2 DEF Last, S
    <3>5. t.kind = "Data"
      BY <2>3 DEF IsFdlStatusRequest
    <3> QED  BY <3>1, <3>2, <3>4, <3>5 DEF Readable, list
  <2> HIDE DEF newest
  <2>4. asked \in SUBSET (0 .. 127)
    BY <2>3
  <2> HIDE DEF asked
  <2>5. ReadsBytes(phy') /\ SendsAlike(phy', Polled)
    BY <2>1, <2>2 DEF TurnReads
  <2> QED  BY <2>1, <2>4, <2>5, ReadingSends
<1>4. CASE UseTheToken
  <2>1. CASE MustWait
    BY <1>4, <2>1, WaitsSends DEF UseTheToken
  <2>2. CASE ~MustWait
    <3>1. SendOrPass(Read(Polled)) /\ request' = request /\ ~Ongoing
      BY <1>4, <2>2 DEF UseTheToken
    <3> QED  BY <3>1, ReadPolled, SendOrPassSends
  <2> QED  BY <2>1, <2>2
<1>5. CASE ReplyArrives \/ NoReplyYet
  <2>1. /\ phy' = ReceiveTelegram(Polled).phy /\ sending' = sending /\ line' = line
        /\ request' = request
    BY <1>5 DEF ReplyArrives, NoReplyYet, Reads, bus
  <2>2. ReadsBytes(phy') /\ SendsAlike(phy', Polled)
    BY <2>1, ReadPolled
  <2> QED  BY <1>0, <2>1, <2>2, ReadingSends
<1>6. CASE ReplyTimesOut
  <2>1. SendOrPass(ReceiveTelegram(Polled).phy) /\ request' = request /\ ~Ongoing
    BY <1>6 DEF ReplyTimesOut
  <2> QED  BY <2>1, ReadPolled, SendOrPassSends
<1> QED  BY <1>1, <1>2, <1>3, <1>4, <1>5, <1>6 DEF Poll

\* Every step keeps the invariant.
LEMMA NextSends == SendInv /\ [Next]_vars => SendInv'
<1> SUFFICES ASSUME SendInv, [Next]_vars PROVE SendInv'
  OBVIOUS
<1>1. ASSUME phy' = phy, sending' = sending, request' = request, line' = line PROVE SendInv'
  BY <1>1 DEF SendInv
<1>2. CASE SlaveMisses \/ PeerTimesOut
  BY <1>1, <1>2 DEF SlaveMisses, PeerTimesOut
<1>3. CASE UNCHANGED vars
  BY <1>1, <1>3 DEF vars, bus
<1> QED  BY <1>2, <1>3, ByteTimeSends, ReplySends, PeerTurnSends, PollSends DEF Next

\* Everything the driver submitted and still holds is the rest of the telegram it was given,
\* and it turns to receiving only when nothing of it is left (poll_transmission(),
\* transmit_data()): for every driver, size of the output queue and of the buffer, and
\* however the polls and the byte times are interleaved.
THEOREM SendsWholeHolds == Spec => []SendsWhole
<1>1. SendInv => SendsWhole
  BY DEF SendInv, SendsBytes, SendsWhole
<1> QED  BY InitSends, NextSends, <1>1, PTL DEF Spec

-----------------------------------------------------------------------------
(* Reading the next telegram. *)

\* Reading moves bytes, and no byte is lost.
LEMMA ReadStream ==
  ASSUME NEW p, ReadsBytes(p)
  PROVE  Read(p).buffer \o Read(p).unread = p.buffer \o p.unread /\ Read(p).driver = p.driver
<1> DEFINE room == IF p.driver = "simulator" THEN Len(p.unread)
                   ELSE Min({Len(p.unread), BufferLength - Len(p.buffer)})
           first == SubSeq(p.unread, 1, room)
           rest == SubSeq(p.unread, room + 1, Len(p.unread))
           buffer == p.buffer \o first
<1>1. p.buffer \in Seq(Bytes) /\ p.unread \in Seq(Bytes)
  BY DEF ReadsBytes
<1>2. Read(p) = [p EXCEPT !.buffer = buffer, !.unread = rest]
  BY DEF Read
<1>3. IsList(p.unread) /\ IsList(p.buffer)
  BY <1>1 DEF IsList, Range
<1>4. room \in 0 .. Len(p.unread)
  <2>1. CASE p.driver = "simulator"
    BY <1>1, <2>1
  <2>2. CASE p.driver # "simulator"
    <3> DEFINE n == Len(p.unread)
               k == Len(p.buffer)
               least == Min({n, BufferLength - k})
    <3>1. n \in Nat /\ k \in Nat /\ BufferLength \in Nat /\ k <= BufferLength
      BY <1>1, <2>2, PhyAssumption DEF ReadsBytes
    <3>2. room = least
      BY <2>2
    <3> HIDE DEF n, k, room
    <3>3. least = IF n <= BufferLength - k THEN n ELSE BufferLength - k
      BY <3>1 DEF Min
    <3> HIDE DEF least
    <3>4. room \in 0 .. n
      BY <3>1, <3>2, <3>3
    <3> QED  BY <3>4 DEF n
  <2> QED  BY <2>1, <2>2
<1> HIDE DEF room
<1>5. first \o rest = p.unread /\ IsList(first) /\ IsList(rest)
  BY <1>3, <1>4, CutInTwo
<1> HIDE DEF first, rest
<1>6. buffer \o rest = p.buffer \o p.unread
  <2> DEFINE q == p.buffer
  <2>1. IsList(q) /\ IsList(first) /\ IsList(rest)
    BY <1>3, <1>5
  <2> HIDE DEF q
  <2>2. (q \o first) \o rest = q \o (first \o rest)
    BY <2>1, Regroup
  <2> QED  BY <1>5, <2>2 DEF q
<1> HIDE DEF buffer
<1>7. Read(p).buffer = buffer /\ Read(p).unread = rest /\ Read(p).driver = p.driver
  BY <1>2 DEF ReadsBytes, IsPhy
<1> QED  BY <1>6, <1>7

\* The RP2040's driver drops what it has read behind a telegram.
KeepsRest(p, t) == p.driver = "rp2040" => Len(Read(p).buffer) <= Len(Serialize(t))

\* When the next telegram of the stream is t, the driver waits for more of it or takes it.
WaitsFor(p, next) ==
  next.telegrams = <<>> /\ next.phy.buffer \o next.phy.unread = p.buffer \o p.unread
Takes(p, t, more, rest, next) ==
  /\ next.telegrams = <<t>>
  /\ Deserialize(Read(p).buffer).length = Len(Serialize(t))
  /\ Len(Serialize(t)) <= Len(Read(p).buffer)
  /\ KeepsRest(p, t) => next.phy.buffer \o next.phy.unread \o more = rest

\* One of the two happens, whatever has been received so far.
LEMMA NextIsRead ==
  ASSUME NEW p, ReadsBytes(p), NEW t, IsTelegram(t),
         NEW more \in Seq(Bytes), NEW rest \in Seq(Bytes),
         p.buffer \o p.unread \o more = Serialize(t) \o rest,
         NEW next, next = ReceiveTelegram(p)
  PROVE  WaitsFor(p, next) \/ Takes(p, t, more, rest, next)
<1> DEFINE frame == Serialize(t)
           read == Read(p)
           b == read.buffer
           u == read.unread
           behind == u \o more
           v == SubSeq(b, Len(frame) + 1, Len(b))
           decoded == Deserialize(b)
<1>1. ReadsBytes(read) /\ b \o u = p.buffer \o p.unread /\ read.driver = p.driver
  BY ReadBytes, ReadStream
<1>2. b \in Seq(Bytes) /\ u \in Seq(Bytes) /\ frame \in Seq(Bytes) /\ behind \in Seq(Bytes)
  <2>1. b \in Seq(Bytes) /\ u \in Seq(Bytes)
    BY <1>1 DEF ReadsBytes
  <2> HIDE DEF u
  <2> QED  BY <2>1, SerializeBytes, MoreBytes
<1> HIDE DEF frame, b, u
<1>3. b \o behind = frame \o rest
  <2>1. (b \o u) \o more = b \o (u \o more)
    BY <1>2, ConcatAssociative
  <2> QED  BY <1>1, <2>1 DEF frame
<1> HIDE DEF behind
<1>4. Len(b) \in Nat /\ Len(frame) \in Nat
  BY <1>2, LenProperties
<1>5. Cuts(b, behind, frame, rest)
  BY <1>2, <1>3, CutTwice
<1>6. CASE Len(b) < Len(frame)
  <2>1. b = SubSeq(frame, 1, Len(b))
    BY <1>5, <1>6 DEF Cuts
  <2>2. Len(b) \in 0 .. Len(frame) - 1
    BY <1>4, <1>6
  <2>3. decoded = Incomplete
    <3> DEFINE n == Len(b)
    <3> HIDE DEF n
    <3>1. Deserialize(SubSeq(frame, 1, n)) = Incomplete
      BY <2>2, PartIsIncomplete DEF frame, n
    <3> QED  BY <2>1, <3>1 DEF n
  <2>4. decoded.result # "invalid" /\ decoded.result # "telegram"
    <3> HIDE DEF decoded
    <3> QED  BY <2>3 DEF Incomplete
  <2>5. next = [phy |-> read, telegrams |-> <<>>]
    BY <2>4 DEF ReceiveTelegram, b
  <2> HIDE DEF read
  <2>6. next.phy = read /\ next.telegrams = <<>>
    BY <2>5
  <2> QED  BY <1>1, <2>6 DEF WaitsFor, b, u
<1>7. CASE Len(b) >= Len(frame)
  <2>1. b = frame \o v /\ v \in Seq(Bytes) /\ v \o behind = rest
    BY <1>5, <1>7 DEF Cuts
  <2> HIDE DEF v
  <2>2. Deserialize(frame \o v) = Telegram(t, Len(frame))
    BY <2>1, TelegramRoundTrip DEF frame
  <2>3. decoded = Telegram(t, Len(frame))
    BY <2>1, <2>2
  <2>4. decoded.result = "telegram" /\ decoded.telegram = t /\ decoded.length = Len(frame)
    <3> HIDE DEF decoded
    <3> QED  BY <2>3 DEF Telegram
  <2>5. next = [phy |-> Drop(read, decoded.length), telegrams |-> <<decoded.telegram>>]
    BY <2>4 DEF ReceiveTelegram, b
  <2>a. decoded.length = Len(frame) /\ Len(frame) <= Len(b)
    BY <1>7, <2>4
  <2>6. ASSUME KeepsRest(p, t)
        PROVE  Drop(read, decoded.length) = [read EXCEPT !.buffer = v]
    <3>1. CASE p.driver = "rp2040"
      <4>1. Len(b) = Len(frame)
        BY <1>4, <1>7, <2>6, <3>1 DEF KeepsRest, b, frame
      <4>2. v = <<>>
        <5> DEFINE n == Len(b)
        <5>1. n \in Nat /\ v = SubSeq(b, n + 1, n)
          BY <1>4, <4>1 DEF v
        <5> HIDE DEF n
        <5>2. n + 1 \in Int /\ n \in Int /\ n < n + 1
          BY <5>1
        <5> QED  BY <5>1, <5>2, SubSeqEmpty
      <4>3. frame # <<>>
        <5> HIDE DEF v
        <5> QED  BY SerializeNonEmpty DEF frame
      <4>4. Len(frame) # 0
        BY <1>2, <4>3, EmptySeq
      <4> HIDE DEF v, decoded
      <4> QED  BY <1>1, <2>4, <3>1, <4>2, <4>4 DEF Drop, Rp2040Drop
    <3>2. CASE p.driver # "rp2040"
      BY <1>1, <2>4, <3>2 DEF Drop, SerialDrop, v, b
    <3> QED  BY <3>1, <3>2
  <2> HIDE DEF decoded
  <2>7. next.phy = Drop(read, decoded.length) /\ next.telegrams = <<t>>
    BY <2>4, <2>5
  <2> HIDE DEF read
  <2>8. ASSUME KeepsRest(p, t)
        PROVE  next.phy.buffer \o next.phy.unread \o more = rest
    <3>1. next.phy.buffer = v /\ next.phy.unread = u
      BY <1>1, <2>6, <2>7, <2>8 DEF ReadsBytes, IsPhy, u
    <3>2. (v \o u) \o more = v \o (u \o more)
      <4>1. v \in Seq(Bytes) /\ u \in Seq(Bytes) /\ more \in Seq(Bytes)
        BY <1>2, <2>1
      <4> QED  BY <4>1, ConcatAssociative
    <3>3. v \o (u \o more) = rest
      BY <2>1 DEF behind
    <3> QED  BY <3>1, <3>2, <3>3
  <2>9. Takes(p, t, more, rest, next)
    BY <2>a, <2>7, <2>8 DEF Takes, decoded, b, read, frame
  <2> QED  BY <2>9
<1>8. \A m, n \in Nat : m < n \/ m >= n
  OBVIOUS
<1> QED  BY <1>4, <1>6, <1>7, <1>8, Zenon

\* A driver reads what was sent, in order, however the stream is cut: when the next telegram
\* of the stream is t, receive_telegram() hands over t and drops its bytes, or it waits for
\* more and drops nothing.  (The RP2040's driver also drops what it has read behind t.)
THEOREM ReadsInOrder ==
  ASSUME NEW p, ReadsBytes(p), NEW t, IsTelegram(t),
         NEW more \in Seq(Bytes), NEW rest \in Seq(Bytes),
         p.buffer \o p.unread \o more = Serialize(t) \o rest,
         NEW next, next = ReceiveTelegram(p)
  PROVE  \/ next.telegrams = <<>> /\ next.phy.buffer \o next.phy.unread = p.buffer \o p.unread
         \/ /\ next.telegrams = <<t>>
            /\ KeepsRest(p, t) => next.phy.buffer \o next.phy.unread \o more = rest
<1>1. WaitsFor(p, next) \/ Takes(p, t, more, rest, next)
  BY NextIsRead, Zenon
<1> QED  BY <1>1 DEF WaitsFor, Takes

-----------------------------------------------------------------------------
(* Reading telegram after telegram. *)

\* Nothing is read where nothing was sent.
LEMMA NothingRead ==
  ASSUME NEW p, ReadsBytes(p), NEW more \in Seq(Bytes),
         p.buffer \o p.unread \o more = <<>>
  PROVE  /\ p.buffer = <<>> /\ p.unread = <<>> /\ more = <<>>
         /\ Read(p).buffer = <<>> /\ Read(p).unread = <<>>
         /\ ReceiveTelegram(p) = [phy |-> Read(p), telegrams |-> <<>>]
<1> DEFINE b == p.buffer
           u == p.unread
           c == Read(p).buffer
           v == Read(p).unread
<1>1. b \in Seq(Bytes) /\ u \in Seq(Bytes) /\ c \in Seq(Bytes) /\ v \in Seq(Bytes)
      /\ c \o v = b \o u
  BY ReadBytes, ReadStream DEF ReadsBytes
<1>2. \A q, r \in Seq(Bytes) : q \o r = <<>> => q = <<>> /\ r = <<>>
  OBVIOUS
<1>3. (b \o u) \o more = <<>>
  OBVIOUS
<1> HIDE DEF b, u, c, v
<1>4. b \o u = <<>> /\ more = <<>>
  <2>1. b \o u \in Seq(Bytes)
    BY <1>1, MoreBytes
  <2> QED  BY <1>2, <1>3, <2>1
<1>5. b = <<>> /\ u = <<>> /\ c = <<>> /\ v = <<>>
  BY <1>1, <1>2, <1>4
<1>6. Deserialize(c) = Incomplete
  BY <1>5, NothingIsIncomplete
<1> DEFINE decoded == Deserialize(c)
<1>7. decoded.result # "invalid" /\ decoded.result # "telegram"
  <2> HIDE DEF decoded
  <2>1. decoded = Incomplete
    BY <1>6 DEF decoded
  <2> QED  BY <2>1 DEF Incomplete
<1>8. ReceiveTelegram(p) = [phy |-> Read(p), telegrams |-> <<>>]
  BY <1>7 DEF ReceiveTelegram, c
<1> QED  BY <1>4, <1>5, <1>8 DEF b, u, c, v

\* The next telegram is the next of those that were sent.
LEMMA OneFollows ==
  ASSUME NEW p, ReadsBytes(p), NEW rest, Listed(rest), NEW more \in Seq(Bytes),
         p.buffer \o p.unread \o more = Sent(rest),
         NEW next, next = ReceiveTelegram(p)
  PROVE  \/ WaitsFor(p, next)
         \/ rest # <<>> /\ Takes(p, Head(rest), more, Sent(Tail(rest)), next)
<1>1. CASE rest = <<>>
  <2>1. p.buffer \o p.unread \o more = <<>>
    BY <1>1, SentNothing
  <2>2. ReceiveTelegram(p) = [phy |-> Read(p), telegrams |-> <<>>]
    BY <2>1, NothingRead
  <2>3. next.phy = Read(p) /\ next.telegrams = <<>>
    BY <2>2
  <2> QED  BY <2>3, ReadStream DEF WaitsFor
<1>2. CASE rest # <<>>
  <2> DEFINE t == Head(rest)
             tail == Tail(rest)
             sent == Sent(tail)
  <2>1. IsTelegram(t) /\ Listed(tail) /\ Sent(rest) = Serialize(t) \o sent
    BY <1>2, ListedFirst, SentFirst
  <2> HIDE DEF t, tail
  <2>2. sent \in Seq(Bytes)
    BY <2>1, SentBytes
  <2> HIDE DEF sent
  <2>3. p.buffer \o p.unread \o more = Serialize(t) \o sent
    BY <2>1
  <2>4. WaitsFor(p, next) \/ Takes(p, t, more, sent, next)
    BY <2>1, <2>2, <2>3, NextIsRead
  <2> QED  BY <1>2, <2>4 DEF t, tail, sent
<1> QED  BY <1>1, <1>2

\* The telegrams that were to come are those that were read and the rest, whose bytes are
\* still there.
Follows(p, telegrams, expected, more) ==
  \E rest : /\ Listed(rest) /\ expected = telegrams \o rest
            /\ p.buffer \o p.unread \o more = Sent(rest)

\* The RP2040's driver has thrown away what it had read behind the first.
CutShort(p, telegrams) ==
  /\ p.driver = "rp2040" /\ telegrams # <<>>
  /\ Len(Read(p).buffer) > Len(Serialize(Head(telegrams)))

TurnFollows(c, all) ==
  /\ ReadsBytes(all.phy) /\ all.phy.driver = c.phy.driver /\ IsList(all.telegrams)
  /\ \/ CutShort(c.phy, all.telegrams)
     \/ /\ Follows(all.phy, all.telegrams, c.expected, c.more)
        /\ c.phy.driver = "rp2040" /\ all.looping => all.phy = c.phy /\ all.telegrams = <<>>

\* A turn that takes the first of the rest.
OneMore(telegrams, rest) ==
  /\ telegrams \o rest = (telegrams \o <<Head(rest)>>) \o Tail(rest)
  /\ Listed(Tail(rest)) /\ telegrams \o <<Head(rest)>> # <<>>

\* The next of them is moved over.
LEMMA TakesNext ==
  ASSUME NEW telegrams, IsList(telegrams), NEW rest, Listed(rest), rest # <<>>
  PROVE  OneMore(telegrams, rest)
<1> DEFINE t == Head(rest)
           one == <<t>>
           tail == Tail(rest)
<1>1. rest = one \o tail /\ Listed(tail)
  BY ListedFirst
<1>2. IsList(tail)
  BY <1>1 DEF Listed
<1>3. IsList(one) /\ one # <<>>
  BY DEF IsList, Range
<1> HIDE DEF one, tail
<1>4. (telegrams \o one) \o tail = telegrams \o (one \o tail)
  BY <1>2, <1>3, Regroup
<1>6. telegrams \o one # <<>>
  <2> DEFINE S == Range(telegrams) \cup Range(one)
  <2>1. telegrams \in Seq(S) /\ one \in Seq(S)
    BY <1>3 DEF IsList
  <2> HIDE DEF S
  <2> QED  BY <1>3, <2>1
<1> QED  BY <1>1, <1>4, <1>6 DEF OneMore, one, tail

\* One turn of receive_all_telegrams() reads the next telegram, or is the last one.
LEMMA TurnKeepsFollowing ==
  ASSUME NEW c, c.more \in Seq(Bytes), NEW all, TurnFollows(c, all)
  PROVE  TurnFollows(c, ReceiveTurn(all))
<1> DEFINE p == all.phy
           one == ReceiveTelegram(p)
           buffer == Read(p).buffer
           last == one.telegrams # <<>> /\ Deserialize(buffer).length = Len(buffer)
           looping == one.telegrams # <<>> /\ ~last
           telegrams == all.telegrams \o one.telegrams
           next == ReceiveTurn(all)
<1>1. ReadsBytes(p) /\ p.driver = c.phy.driver /\ IsList(all.telegrams)
  BY DEF TurnFollows
<1>2. /\ ReadsBytes(one.phy) /\ one.phy.driver = c.phy.driver /\ IsList(one.telegrams)
  <2>1. ReadsBytes(one.phy) /\ Readable(one.telegrams) /\ SendsAlike(one.phy, p)
    BY <1>1, ReceiveReads, ReceiveAlike DEF ReadsBytes
  <2> HIDE DEF one
  <2> QED  BY <1>1, <2>1 DEF Readable, SendsAlike
<1>3. CASE ~all.looping
  BY <1>3 DEF ReceiveTurn
<1>4. CASE all.looping
  <2>1. next = [phy |-> one.phy, telegrams |-> telegrams, last |-> last, looping |-> looping]
    BY <1>4 DEF ReceiveTurn
  <2>2. next.phy = one.phy /\ next.telegrams = telegrams /\ next.looping = looping
    <3> HIDE DEF one, telegrams, last, looping, next
    <3> QED  BY <2>1
  <2>3. IsList(telegrams)
    <3> HIDE DEF one
    <3> QED  BY <1>1, <1>2, PutTogether
  <2>4. CASE CutShort(c.phy, all.telegrams)
    <3>1. CutShort(c.phy, telegrams)
      <4> DEFINE q == all.telegrams
                 r == one.telegrams
                 S == Range(q) \cup Range(r)
      <4>1. q \in Seq(S) /\ r \in Seq(S) /\ q # <<>>
        BY <1>1, <1>2, <2>4 DEF IsList, CutShort
      <4> HIDE DEF q, r, S
      <4>2. q \o r # <<>> /\ Head(q \o r) = Head(q)
        BY <4>1, FirstAndRest
      <4>3. telegrams = q \o r
        BY DEF q, r
      <4> HIDE DEF telegrams
      <4> QED  BY <2>4, <4>2, <4>3 DEF CutShort, q
    <3> HIDE DEF next, one, telegrams, looping
    <3>2. TurnFollows(c, next)
      BY <1>2, <2>2, <2>3, <3>1 DEF TurnFollows
    <3> QED  BY <3>2 DEF next
  <2>5. CASE ~CutShort(c.phy, all.telegrams)
    <3>1. /\ Follows(p, all.telegrams, c.expected, c.more)
          /\ p.driver = "rp2040" => p = c.phy /\ all.telegrams = <<>>
      BY <1>1, <1>4, <2>5 DEF TurnFollows
    <3>2. PICK rest : /\ Listed(rest) /\ c.expected = all.telegrams \o rest
                      /\ p.buffer \o p.unread \o c.more = Sent(rest)
      BY <3>1 DEF Follows
    <3>3. CASE WaitsFor(p, one)
      <4>1. one.telegrams = <<>> /\ one.phy.buffer \o one.phy.unread = p.buffer \o p.unread
        BY <3>3 DEF WaitsFor
      <4>2. telegrams = all.telegrams /\ ~looping
        BY <1>1, <4>1, PutTogether
      <4> HIDE DEF one, telegrams, looping, next
      <4>3. Follows(next.phy, next.telegrams, c.expected, c.more)
        BY <2>2, <3>2, <4>1, <4>2 DEF Follows
      <4>4. TurnFollows(c, next)
        BY <1>2, <2>2, <2>3, <4>2, <4>3 DEF TurnFollows
      <4> QED  BY <4>4 DEF next
    <3>4. CASE rest # <<>> /\ Takes(p, Head(rest), c.more, Sent(Tail(rest)), one)
      <4> DEFINE t == Head(rest)
      <4>1. /\ one.telegrams = <<t>> /\ Deserialize(buffer).length = Len(Serialize(t))
            /\ Len(Serialize(t)) <= Len(buffer)
            /\ KeepsRest(p, t) =>
                 one.phy.buffer \o one.phy.unread \o c.more = Sent(Tail(rest))
        BY <3>4 DEF Takes
      <4>2. telegrams = all.telegrams \o <<t>>
        BY <4>1
      <4>3. Len(buffer) \in Nat /\ Len(Serialize(t)) \in Nat
        <5>1. buffer \in Seq(Bytes)
          BY <1>1, ReadBytes DEF ReadsBytes
        <5>2. Serialize(t) \in Seq(Bytes)
          BY <3>2, <3>4, ListedFirst, SerializeBytes
        <5> QED  BY <5>1, <5>2, LenProperties
      <4> HIDE DEF telegrams
      <4>4. c.expected = telegrams \o Tail(rest) /\ Listed(Tail(rest)) /\ telegrams # <<>>
        <5>1. OneMore(all.telegrams, rest)
          BY <1>1, <3>2, <3>4, TakesNext
        <5> QED  BY <3>2, <4>2, <5>1 DEF OneMore
      <4>5. CASE KeepsRest(p, t)
        <5>1. Follows(next.phy, next.telegrams, c.expected, c.more)
          <6> HIDE DEF one, next, t
          <6> QED  BY <2>2, <4>1, <4>4, <4>5 DEF Follows
        <5>2. ASSUME p.driver = "rp2040" PROVE ~looping
          <6>1. Len(Serialize(t)) = Len(buffer)
            BY <4>1, <4>3, <4>5, <5>2 DEF KeepsRest
          <6> QED  BY <4>1, <6>1
        <5> HIDE DEF one, looping, next
        <5>3. TurnFollows(c, next)
          BY <1>1, <1>2, <2>2, <2>3, <5>1, <5>2 DEF TurnFollows
        <5> QED  BY <5>3 DEF next
      <4>6. CASE ~KeepsRest(p, t)
        <5>1. p.driver = "rp2040" /\ Len(buffer) > Len(Serialize(t))
          BY <4>3, <4>6 DEF KeepsRest
        <5>2. p = c.phy /\ telegrams = <<t>>
          <6>1. <<>> \o <<t>> = <<t>>
            OBVIOUS
          <6> QED  BY <3>1, <4>2, <5>1, <6>1
        <5>3. CutShort(c.phy, next.telegrams)
          <6>1. Head(<<t>>) = t /\ <<t>> # <<>>
            OBVIOUS
          <6> HIDE DEF t, next
          <6> QED  BY <2>2, <5>1, <5>2, <6>1 DEF CutShort
        <5> HIDE DEF one, looping, next
        <5>4. TurnFollows(c, next)
          BY <1>2, <2>2, <2>3, <5>3 DEF TurnFollows
        <5> QED  BY <5>4 DEF next
      <4> QED  BY <4>5, <4>6
    <3> QED  BY <1>1, <3>2, <3>3, <3>4, OneFollows
  <2> QED  BY <2>4, <2>5
<1> QED  BY <1>3, <1>4

FollowTurn(c, all, turn) == ReceiveTurn(all)
Turns == INSTANCE FoldInduction WITH Op <- FollowTurn, Inv <- TurnFollows

\* What was read is what was to come, unless it was cut short.
ReadsOn(p, received, expected, more) ==
  CutShort(p, received.telegrams) \/ Follows(received.phy, received.telegrams, expected, more)

\* Before the first turn nothing has been read.
LEMMA NothingYet ==
  ASSUME NEW p, NEW expected, Listed(expected), NEW more,
         p.buffer \o p.unread \o more = Sent(expected)
  PROVE  Follows(p, <<>>, expected, more)
<1>1. expected = <<>> \o expected
  BY PutTogether DEF Listed
<1> QED  BY <1>1 DEF Follows

\* receive_all_telegrams() reads on,
LEMMA AllFollow ==
  ASSUME NEW p, ReadsBytes(p), NEW expected, Listed(expected), NEW more \in Seq(Bytes),
         p.buffer \o p.unread \o more = Sent(expected)
  PROVE  ReadsOn(p, ReceiveAllTelegrams(p), expected, more)
<1> DEFINE start == [phy |-> p, telegrams |-> <<>>, last |-> FALSE, looping |-> TRUE]
           turns == Len(p.buffer) + Len(p.unread) + 1
           c == [phy |-> p, expected |-> expected, more |-> more]
<1>0. turns \in Nat
  <2>1. p.buffer \in Seq(Bytes) /\ p.unread \in Seq(Bytes)
    BY DEF ReadsBytes
  <2>2. Len(p.buffer) \in Nat /\ Len(p.unread) \in Nat
    BY <2>1, LenProperties
  <2>3. \A m, n \in Nat : m + n + 1 \in Nat
    OBVIOUS
  <2> QED  BY <2>2, <2>3, Zenon
<1>1. ReceiveAllTelegrams(p) = Turns!Count(c, start)[turns]
  BY DEF ReceiveAllTelegrams, Turns!Count, FollowTurn
<1> HIDE DEF turns
<1>2. c.phy = p /\ c.expected = expected /\ c.more = more
  OBVIOUS
<1> HIDE DEF c
<1>3. TurnFollows(c, start)
  <2>1. start.phy = p /\ start.telegrams = <<>>
    OBVIOUS
  <2>2. IsList(<<>>)
    BY SentNothing DEF Listed
  <2>3. Follows(p, <<>>, expected, more)
    BY NothingYet
  <2> HIDE DEF start
  <2> QED  BY <1>2, <2>1, <2>2, <2>3 DEF TurnFollows
<1>4. ASSUME NEW all, NEW turn \in Nat, TurnFollows(c, all)
      PROVE  TurnFollows(c, FollowTurn(c, all, turn))
  BY <1>2, <1>4, TurnKeepsFollowing DEF FollowTurn
<1> HIDE DEF start
<1>5. \A n \in Nat : TurnFollows(c, Turns!Count(c, start)[n])
  BY <1>3, <1>4, Turns!CountKeeps
<1>6. TurnFollows(c, ReceiveAllTelegrams(p))
  BY <1>0, <1>1, <1>5
<1> QED  BY <1>2, <1>6 DEF TurnFollows, ReadsOn

\* and so does receive_telegram().
LEMMA OneReadsOn ==
  ASSUME NEW p, ReadsBytes(p), NEW expected, Listed(expected), NEW more \in Seq(Bytes),
         p.buffer \o p.unread \o more = Sent(expected)
  PROVE  ReadsOn(p, ReceiveTelegram(p), expected, more)
<1> DEFINE one == ReceiveTelegram(p)
<1>1. CASE WaitsFor(p, one)
  <2>1. one.telegrams = <<>> /\ one.phy.buffer \o one.phy.unread = p.buffer \o p.unread
    BY <1>1 DEF WaitsFor
  <2> HIDE DEF one
  <2>2. one.phy.buffer \o one.phy.unread \o more = Sent(expected)
    BY <2>1
  <2>3. Follows(one.phy, one.telegrams, expected, more)
    BY <2>1, <2>2, NothingYet
  <2> QED  BY <2>3 DEF ReadsOn, one
<1>2. CASE expected # <<>> /\ Takes(p, Head(expected), more, Sent(Tail(expected)), one)
  <2> DEFINE t == Head(expected)
             tail == Tail(expected)
  <2>1. /\ one.telegrams = <<t>> /\ Len(Serialize(t)) <= Len(Read(p).buffer)
        /\ KeepsRest(p, t) => one.phy.buffer \o one.phy.unread \o more = Sent(tail)
    BY <1>2 DEF Takes
  <2>2. expected = <<t>> \o tail /\ Listed(tail) /\ IsTelegram(t)
    BY <1>2, ListedFirst
  <2>3. Len(Read(p).buffer) \in Nat /\ Len(Serialize(t)) \in Nat
    <3>1. Read(p).buffer \in Seq(Bytes)
      BY ReadBytes DEF ReadsBytes
    <3>2. Serialize(t) \in Seq(Bytes)
      BY <2>2, SerializeBytes
    <3> QED  BY <3>1, <3>2, LenProperties
  <2> HIDE DEF one, t, tail
  <2>4. CASE KeepsRest(p, t)
    <3>1. Follows(one.phy, one.telegrams, expected, more)
      BY <2>1, <2>2, <2>4 DEF Follows
    <3> QED  BY <3>1 DEF ReadsOn, one
  <2>5. CASE ~KeepsRest(p, t)
    <3>1. Head(<<t>>) = t /\ <<t>> # <<>>
      OBVIOUS
    <3>2. CutShort(p, one.telegrams)
      BY <2>1, <2>3, <2>5, <3>1 DEF KeepsRest, CutShort
    <3> QED  BY <3>2 DEF ReadsOn, one
  <2> QED  BY <2>4, <2>5
<1> QED  BY <1>1, <1>2, OneFollows

\* What is left of them.
Leaves(p, left, more) == Listed(left) /\ p.buffer \o p.unread \o more = Sent(left)

\* The telegrams that nobody has read are left.
LEMMA RestIsListed ==
  ASSUME NEW p, NEW telegrams, IsList(telegrams), NEW expected, NEW more,
         Follows(p, telegrams, expected, more),
         NEW left, left = SubSeq(expected, Len(telegrams) + 1, Len(expected))
  PROVE  Leaves(p, left, more)
<1>1. PICK rest : /\ Listed(rest) /\ expected = telegrams \o rest
                  /\ p.buffer \o p.unread \o more = Sent(rest)
  BY DEF Follows
<1> DEFINE S == Range(telegrams) \cup Range(rest)
           n == Len(telegrams)
           m == Len(rest)
<1>2. telegrams \in Seq(S) /\ rest \in Seq(S)
  BY <1>1 DEF Listed, IsList
<1> HIDE DEF S
<1>3. n \in Nat /\ m \in Nat /\ Len(telegrams \o rest) = n + m
  BY <1>2
<1>4. SubSeq(telegrams \o rest, n + 1, n + m) = rest
  BY <1>2
<1> HIDE DEF n, m
<1>5. left = rest
  BY <1>1, <1>3, <1>4 DEF n
<1> QED  BY <1>1, <1>5 DEF Leaves

-----------------------------------------------------------------------------
(* Sending loses nothing that was received, unless there is something. *)

\* A driver that transmits holds nothing.
HoldsNothing(p) == p.mode = "Tx" => p.buffer = <<>>

\* Submitting leaves the buffer and the mode alone.
LEMMA SubmitHolds ==
  ASSUME NEW p, IsPhy(p)
  PROVE  /\ Submit(p).buffer = p.buffer /\ Submit(p).unread = p.unread
         /\ Submit(p).mode = p.mode
<1> DEFINE n == Min({WriteSize, Len(p.unsent)})
           queue == p.queue \o SubSeq(p.unsent, 1, n)
           unsent == SubSeq(p.unsent, n + 1, Len(p.unsent))
           q == Submit(p)
<1>1. q = [p EXCEPT !.queue = queue, !.unsent = unsent]
  BY DEF Submit
<1> HIDE DEF n, queue, unsent, q
<1>2. q.buffer = p.buffer /\ q.unread = p.unread /\ q.mode = p.mode
  BY <1>1 DEF IsPhy
<1> QED  BY <1>2 DEF q

\* A driver that holds nothing while it transmits: poll_transmission() leaves its buffer alone as well.
LEMMA PollHolds ==
  ASSUME NEW p, ReadsBytes(p), p.driver \in DriverKinds, HoldsNothing(p),
         NEW q, q = PollTransmission(p)
  PROVE  q.buffer = p.buffer /\ q.unread = p.unread /\ HoldsNothing(q)
<1>0. IsPhy(p)
  BY DEF ReadsBytes
<1>1. \/ q = p
      \/ q = Submit(p)
      \/ q = MakeRx(p) /\ p.mode = "Tx"
      \/ q = [p EXCEPT !.mode = "Rx"]
  BY Zenon DEF PollTransmission, SerialPoll, Rp2040Poll, SimulatorPoll, DriverKinds
<1>2. CASE q = Submit(p)
  BY <1>0, <1>2, SubmitHolds DEF HoldsNothing
<1>3. CASE q = MakeRx(p) /\ p.mode = "Tx"
  <2> DEFINE nothing == <<>>
  <2>1. q = [p EXCEPT !.mode = "Rx", !.buffer = nothing] /\ p.buffer = nothing
    BY <1>3 DEF MakeRx, HoldsNothing
  <2> HIDE DEF nothing
  <2>2. q.buffer = nothing /\ q.unread = p.unread /\ q.mode = "Rx"
    BY <1>0, <2>1 DEF IsPhy
  <2> QED  BY <2>1, <2>2 DEF HoldsNothing
<1>4. CASE q = [p EXCEPT !.mode = "Rx"]
  <2>1. q.buffer = p.buffer /\ q.unread = p.unread /\ q.mode = "Rx"
    BY <1>0, <1>4 DEF IsPhy
  <2> QED  BY <2>1 DEF HoldsNothing
<1> QED  BY <1>1, <1>2, <1>3, <1>4

\* transmit_data() empties the buffer, which held nothing before.
LEMMA TransmitHolds ==
  ASSUME NEW p, ReadsBytes(p), p.driver \in DriverKinds, NEW frame \in Seq(Bytes),
         NEW q, q = Transmit(p, frame)
  PROVE  /\ q.buffer = <<>>
         /\ p.buffer = <<>> /\ p.unread = <<>> => q.unread = <<>>
<1> DEFINE nothing == <<>>
<1>0. IsPhy(p)
  BY DEF ReadsBytes
<1>1. CASE p.driver = "serial"
  <2> DEFINE r == [p EXCEPT !.mode = "Tx", !.buffer = nothing, !.unsent = frame]
  <2>1. q = Submit(r)
    BY <1>1 DEF Transmit, SerialTransmit
  <2> HIDE DEF nothing
  <2>2. r = [p EXCEPT !.mode = "Tx", !.buffer = nothing, !.unsent = frame]
    OBVIOUS
  <2> HIDE DEF r
  <2>3. IsPhy(r) /\ r.buffer = nothing /\ r.unread = p.unread
    BY <1>0, <2>2 DEF IsPhy
  <2> QED  BY <2>1, <2>3, SubmitHolds DEF nothing
<1>2. CASE p.driver = "rp2040"
  <2>1. q = [p EXCEPT !.mode = "Tx", !.buffer = nothing, !.unsent = frame, !.wait = 1]
    BY <1>2 DEF Transmit, Rp2040Transmit
  <2> HIDE DEF nothing
  <2>2. q.buffer = nothing /\ q.unread = p.unread
    BY <1>0, <2>1 DEF IsPhy
  <2> QED  BY <2>2 DEF nothing
<1>3. CASE p.driver = "simulator"
  <2> DEFINE stream == p.buffer \o p.unread \o frame
             unread == SubSeq(stream, Len(frame) + 1, Len(stream))
  <2>1. q = [p EXCEPT !.mode = "Tx", !.queue = frame, !.buffer = nothing, !.unread = unread]
    BY <1>3 DEF Transmit, SimulatorTransmit
  <2>2. ASSUME p.buffer = <<>>, p.unread = <<>> PROVE unread = <<>>
    <3>1. stream = frame
      BY <2>2
    <3>2. Len(frame) \in Nat
      BY LenProperties
    <3> DEFINE n == Len(frame)
    <3>3. n \in Nat /\ unread = SubSeq(frame, n + 1, n)
      BY <3>1, <3>2
    <3> HIDE DEF n, unread
    <3>4. n + 1 \in Int /\ n \in Int /\ n < n + 1
      BY <3>3
    <3> QED  BY <3>3, <3>4, SubSeqEmpty
  <2> HIDE DEF nothing, unread
  <2>3. q.buffer = nothing /\ q.unread = unread
    BY <1>0, <2>1 DEF IsPhy
  <2> QED  BY <2>2, <2>3 DEF nothing
<1> QED  BY <1>1, <1>2, <1>3 DEF DriverKinds

\* A byte time moves a byte in or out.
LEMMA ShiftHolds ==
  ASSUME NEW p, ReadsBytes(p), NEW bytes \in Seq(Bytes),
         NEW q, q = Shift(Arrive(p, bytes))
  PROVE  /\ q.mode = p.mode /\ q.buffer = p.buffer
         /\ bytes = <<>> \/ Len(p.unread) # BufferLength => q.unread = p.unread \o bytes
<1> DEFINE r == Arrive(p, bytes)
           queue == SubSeq(r.queue, 2, Len(r.queue))
           wait == Max({0, r.wait - 1})
           unread == p.unread \o bytes
<1>0. IsPhy(p) /\ p.unread \in Seq(Bytes)
  BY DEF ReadsBytes
<1>1. r = IF Len(p.unread) = BufferLength THEN p ELSE [p EXCEPT !.unread = unread]
  BY DEF Arrive
<1>2. bytes = <<>> => unread = p.unread
  BY <1>0
<1>3. q = [r EXCEPT !.queue = queue, !.wait = wait]
  BY DEF Shift
<1> HIDE DEF r, queue, wait, unread
<1>4. IsPhy(r) /\ r.mode = p.mode /\ r.buffer = p.buffer
  BY <1>0, <1>1 DEF IsPhy
<1>5. q.mode = r.mode /\ q.buffer = r.buffer /\ q.unread = r.unread
  BY <1>3, <1>4 DEF IsPhy
<1>6. bytes = <<>> \/ Len(p.unread) # BufferLength => r.unread = unread
  BY <1>0, <1>1, <1>2 DEF IsPhy
<1> QED  BY <1>4, <1>5, <1>6 DEF unread

-----------------------------------------------------------------------------
(* What was sent and not read is in the driver and on the wire. *)

OnItsWay(p, wire, telegrams) ==
  Listed(telegrams) /\ p.buffer \o p.unread \o BytesOf(wire) = Sent(telegrams)

\* The invariant.
OrderInv ==
  /\ SendInv
  /\ HoldsNothing(phy)
  /\ ~lost => OnItsWay(phy, line, coming)

\* At the start nothing is on its way.
LEMMA InitOrder == Init => OrderInv
<1> SUFFICES ASSUME Init PROVE OrderInv
  OBVIOUS
<1>1. PICK driver \in DriverKinds : phy = NewPhy(driver)
  BY BusAssumption DEF Init
<1>2. phy.buffer = <<>> /\ phy.unread = <<>> /\ phy.mode = "Rx"
  BY <1>1 DEF NewPhy
<1>3. line = <<>> /\ coming = <<>>
  BY DEF Init
<1>4. <<>> \o <<>> \o <<>> = <<>>
  OBVIOUS
<1>5. OnItsWay(phy, line, coming)
  BY <1>2, <1>3, <1>4, BytesOfOne, SentNothing DEF OnItsWay
<1>6. HoldsNothing(phy)
  BY <1>2 DEF HoldsNothing
<1> QED  BY <1>5, <1>6, InitSends DEF OrderInv

\* A byte goes from the wire into the driver.
LEMMA ByteTimeOrder ==
  ASSUME OrderInv, ByteTime, SendInv'
  PROVE  OrderInv'
<1> DEFINE arriving == IF line = <<>> \/ Head(line) = Pause THEN <<>> ELSE <<Head(line)>>
           behind == SubSeq(line, 2, Len(line))
           wire == BytesOf(behind)
<1>1. ReadsBytes(phy) /\ HoldsNothing(phy) /\ line \in Stream /\ SendInv
  BY DEF OrderInv, SendInv, Stream
<1>2. arriving \in Seq(Bytes) /\ behind \in Stream
  BY <1>1, LineMoves
<1>3. BytesOf(line) = arriving \o wire /\ wire \in Seq(Bytes)
  <2>1. wire \in Seq(Bytes)
    BY <1>2, SinglesListed
  <2>2. CASE line = <<>>
    <3>1. BytesOf(line) = <<>> /\ behind = <<>> /\ arriving = <<>>
      BY <1>1, <2>2, LineFirst
    <3>2. <<>> \o <<>> = <<>>
      OBVIOUS
    <3> QED  BY <2>1, <2>2, <3>1, <3>2
  <2>3. CASE line # <<>>
    <3>1. /\ BytesOf(line) = (IF Head(line) = Pause THEN <<>> ELSE <<Head(line)>>)
                               \o BytesOf(Tail(line))
          /\ behind = Tail(line)
      BY <1>1, <2>3, LineFirst
    <3> QED  BY <2>1, <2>3, <3>1
  <2> QED  BY <2>2, <2>3
<1>4. /\ phy' = Shift(Arrive(phy, arriving)) /\ line' = behind /\ coming' = coming
      /\ lost' = (lost \/ (arriving # <<>> /\ Len(phy.unread) = BufferLength))
  BY DEF ByteTime
<1> HIDE DEF arriving, behind, wire
<1>5. /\ phy'.mode = phy.mode /\ phy'.buffer = phy.buffer
      /\ ~lost' => phy'.unread = phy.unread \o arriving
  BY <1>1, <1>2, <1>4, ShiftHolds
<1>6. ASSUME ~lost' PROVE OnItsWay(phy', line', coming')
  <2> DEFINE b == phy.buffer
             u == phy.unread
  <2>1. ~lost /\ Listed(coming) /\ (b \o u) \o BytesOf(line) = Sent(coming)
    BY <1>4, <1>6 DEF OrderInv, OnItsWay
  <2>2. b \in Seq(Bytes) /\ u \in Seq(Bytes)
    BY <1>1 DEF ReadsBytes
  <2> HIDE DEF b, u
  <2>3. /\ b \o (u \o arriving) = (b \o u) \o arriving
        /\ ((b \o u) \o arriving) \o wire = (b \o u) \o (arriving \o wire)
    <3> DEFINE q == b \o u
    <3>1. q \in Seq(Bytes)
      BY <2>2, MoreBytes
    <3>2. Grouped(Bytes, b, u, arriving)
      BY <1>2, <2>2, ThreeTogether, Zenon
    <3> HIDE DEF q
    <3>3. Grouped(Bytes, q, arriving, wire)
      BY <1>2, <1>3, <3>1, ThreeTogether, Zenon
    <3> QED  BY <3>2, <3>3 DEF Grouped, q
  <2>4. phy'.buffer \o phy'.unread \o BytesOf(line') = Sent(coming)
    BY <1>3, <1>4, <1>5, <1>6, <2>1, <2>3 DEF b, u, wire
  <2> QED  BY <1>4, <2>1, <2>4 DEF OnItsWay
<1>7. HoldsNothing(phy')
  BY <1>1, <1>5 DEF HoldsNothing
<1> QED  BY <1>6, <1>7 DEF OrderInv

\* More telegrams come.
LEMMA ComesOrder ==
  ASSUME OrderInv, line = <<>>, phy' = phy, NEW telegrams, Listed(telegrams),
         NEW altered, Comes(telegrams, altered),
         ~altered => line' \in Stream /\ BytesOf(line') = Sent(telegrams), SendInv'
  PROVE  OrderInv'
<1> DEFINE q == Received
           sent == Sent(telegrams)
<1>1. ReadsBytes(phy) /\ HoldsNothing(phy)
  BY DEF OrderInv, SendInv
<1>2. q \in Seq(Bytes)
  BY <1>1, MoreBytes DEF Received, ReadsBytes
<1>3. sent \in Seq(Bytes)
  BY SentBytes
<1>4. ASSUME ~lost' PROVE OnItsWay(phy', line', coming')
  <2>1. /\ ~altered /\ (lost => q = <<>>)
        /\ coming' = (IF lost THEN <<>> ELSE coming) \o telegrams
    BY <1>4 DEF Comes
  <2>2. BytesOf(line') = sent
    BY <2>1
  <2>3. CASE lost
    <3>1. q = <<>> /\ coming' = telegrams
      BY <2>1, <2>3, PutTogether DEF Listed
    <3> HIDE DEF q, sent
    <3>2. q \o sent = sent
      BY <1>3, <3>1
    <3> QED  BY <2>2, <3>1, <3>2 DEF OnItsWay, Received, q, sent
  <2>4. CASE ~lost
    <3>1. Listed(coming) /\ q \o BytesOf(line) = Sent(coming)
      BY <2>4 DEF OrderInv, OnItsWay, Received
    <3> HIDE DEF q
    <3>2. q \o <<>> = q
      BY <1>2
    <3>3. q = Sent(coming)
      BY <3>1, <3>2, BytesOfOne
    <3>4. Listed(coming \o telegrams) /\ Sent(coming \o telegrams) = q \o sent
      BY <3>1, <3>3, SentTogether
    <3>5. coming' = coming \o telegrams
      BY <2>1, <2>4
    <3> HIDE DEF sent
    <3> QED  BY <2>2, <3>4, <3>5 DEF OnItsWay, Received, q
  <2> QED  BY <2>3, <2>4
<1>5. HoldsNothing(phy')
  BY <1>1
<1> QED  BY <1>4, <1>5 DEF OrderInv

\* The slave answers.
LEMMA ReplyOrder ==
  ASSUME OrderInv, SlaveReplies, SendInv'
  PROVE  OrderInv'
<1>1. line = <<>> /\ phy' = phy
  BY DEF SlaveReplies, Idle
<1>2. PICK reply \in Replies :
        \/ line' = <<Pause>> \o Serialize(reply) /\ Comes(<<reply>>, FALSE)
        \/ Comes(<<reply>>, TRUE)
  BY DEF SlaveReplies
<1>3. IsTelegram(reply)
  BY BusAssumption
<1> DEFINE frame == Serialize(reply)
           pause == <<Pause>>
           telegrams == <<reply>>
<1>4. Listed(telegrams) /\ Sent(telegrams) = frame
  BY <1>3, SentOne
<1>5. pause \o frame \in Stream /\ BytesOf(pause \o frame) = frame
  <2>1. frame \in Seq(Bytes) /\ frame \in Stream /\ BytesOf(frame) = frame
    BY <1>3, SerializeBytes, BytesOfBytes
  <2>2. pause \in Stream /\ BytesOf(pause) = <<>>
    BY BytesOfOne
  <2> HIDE DEF frame, pause
  <2>3. pause \o frame \in Stream /\ BytesTogether(pause, frame)
    BY <2>1, <2>2, BytesOfBoth
  <2>4. <<>> \o frame = frame
    BY <2>1
  <2> QED  BY <2>1, <2>2, <2>3, <2>4 DEF BytesTogether
<1> HIDE DEF frame, pause, telegrams
<1>6. \/ line' = pause \o frame /\ Comes(telegrams, FALSE)
      \/ Comes(telegrams, TRUE)
  BY <1>2 DEF frame, pause, telegrams
<1>7. CASE line' = pause \o frame /\ Comes(telegrams, FALSE)
  BY <1>1, <1>4, <1>5, <1>7, ComesOrder
<1>8. CASE Comes(telegrams, TRUE)
  BY <1>1, <1>4, <1>8, ComesOrder
<1> QED  BY <1>6, <1>7, <1>8

\* The peer sends telegrams, a pause behind each of them.
LEMMA PeerSendsOrder ==
  ASSUME OrderInv, NEW telegrams, Listed(telegrams), PeerSends(telegrams), SendInv'
  PROVE  OrderInv'
<1>1. line = <<>> /\ phy' = phy /\ Comes(telegrams, FALSE)
  BY DEF PeerSends, Idle
<1>2. line' = FlattenSeq(Spaced(telegrams))
  BY DEF PeerSends, Spaced
<1>3. SpacedSent(telegrams)
  BY SpacedBytes
<1>4. line' \in Stream /\ BytesOf(line') = Sent(telegrams)
  BY <1>2, <1>3 DEF SpacedSent
<1> QED  BY <1>1, <1>4, ComesOrder

\* Whatever the peer does, it sends such telegrams.
LEMMA PeerTurnOrder ==
  ASSUME OrderInv, PeerPassesToken \/ PeerAsksForStatus \/ PeerAsksSlave, SendInv'
  PROVE  OrderInv'
  BY PeerLists, PeerSendsOrder DEF PeerPassesToken, PeerAsksForStatus, PeerAsksSlave

-----------------------------------------------------------------------------
(* The station's poll. *)

\* poll_transmission(), with which every poll begins.
LEMMA PolledOrder ==
  ASSUME OrderInv
  PROVE  /\ Polled.buffer = phy.buffer /\ Polled.unread = phy.unread
         /\ HoldsNothing(Polled) /\ ReadsBytes(Polled) /\ Polled.driver = phy.driver
         /\ Polled.driver \in DriverKinds /\ BytesOf(line) \in Seq(Bytes)
         /\ ~lost => OnItsWay(Polled, line, coming)
<1>1. SendInv /\ HoldsNothing(phy)
  BY DEF OrderInv
<1>2. ReadsBytes(phy) /\ phy.driver \in DriverKinds /\ line \in Stream
  BY <1>1 DEF SendInv, SendsBytes, Stream
<1>3. /\ Polled.buffer = phy.buffer /\ Polled.unread = phy.unread /\ HoldsNothing(Polled)
  BY <1>1, <1>2, PollHolds DEF Polled
<1>4. ReadsBytes(Polled)
  BY <1>1, PolledSends
<1>5. Polled.driver = phy.driver
  <2>1. IsPhy(phy)
    BY <1>2 DEF ReadsBytes
  <2>2. Submit(phy).driver = phy.driver
    <3> DEFINE n == Min({WriteSize, Len(phy.unsent)})
               queue == phy.queue \o SubSeq(phy.unsent, 1, n)
               unsent == SubSeq(phy.unsent, n + 1, Len(phy.unsent))
               q == Submit(phy)
    <3>1. q = [phy EXCEPT !.queue = queue, !.unsent = unsent]
      BY DEF Submit
    <3> HIDE DEF n, queue, unsent, q
    <3>2. q.driver = phy.driver
      BY <2>1, <3>1 DEF IsPhy
    <3> QED  BY <3>2 DEF q
  <2>3. MakeRx(phy).driver = phy.driver
    <3> DEFINE nothing == <<>>
    <3>1. MakeRx(phy) = [phy EXCEPT !.mode = "Rx", !.buffer = nothing]
      BY DEF MakeRx
    <3> HIDE DEF nothing
    <3> QED  BY <2>1, <3>1 DEF IsPhy
  <2>4. [phy EXCEPT !.mode = "Rx"].driver = phy.driver
    BY <2>1 DEF IsPhy
  <2>5. Polled \in {phy, Submit(phy), MakeRx(phy), [phy EXCEPT !.mode = "Rx"]}
    BY <1>2, Zenon DEF Polled, PollTransmission, SerialPoll, Rp2040Poll, SimulatorPoll, DriverKinds
  <2> QED  BY <2>2, <2>3, <2>4, <2>5
<1>6. BytesOf(line) \in Seq(Bytes)
  BY <1>2, SinglesListed
<1>7. ASSUME ~lost PROVE OnItsWay(Polled, line, coming)
  BY <1>3, <1>7 DEF OrderInv, OnItsWay
<1> QED  BY <1>2, <1>3, <1>4, <1>5, <1>6, <1>7

\* A poll in which nothing is read as a telegram.
LEMMA WaitsOrder ==
  ASSUME OrderInv, ~Ongoing, Waits, SendInv'
  PROVE  OrderInv'
<1>1. phy' = Read(Polled) /\ line' = line /\ coming' = coming /\ lost' = lost
  BY DEF Waits, bus
<1>2. ReadsBytes(Polled) /\ (~lost => OnItsWay(Polled, line, coming)) /\ SendInv
  BY PolledOrder DEF OrderInv
<1>3. phy'.buffer \o phy'.unread = Polled.buffer \o Polled.unread
  BY <1>1, <1>2, ReadStream
<1>4. phy'.mode # "Tx"
  BY <1>1, <1>2, ReadPolled DEF SendsAlike, Ongoing
<1>5. ASSUME ~lost' PROVE OnItsWay(phy', line', coming')
  BY <1>1, <1>2, <1>3, <1>5 DEF OnItsWay
<1> QED  BY <1>4, <1>5 DEF OrderInv, HoldsNothing

\* A poll that sends a telegram.
LEMMA TransmitsOrder ==
  ASSUME OrderInv, NEW from, from \in {Read(Polled), ReceiveTelegram(Polled).phy},
         NEW telegram, IsTelegram(telegram), NEW waitingFor, Transmits(from, telegram, waitingFor),
         SendInv'
  PROVE  OrderInv'
<1> DEFINE frame == Serialize(telegram)
<1>1. /\ phy' = Transmit(from, frame) /\ line' = line /\ coming' = coming
      /\ lost' = (lost \/ Received # <<>>)
  BY DEF Transmits
<1>2. frame \in Seq(Bytes)
  BY SerializeBytes
<1> HIDE DEF frame
<1>3. SendInv /\ ReadsBytes(Polled) /\ Polled.driver \in DriverKinds
  BY PolledOrder DEF OrderInv
<1>4. ReadsBytes(from) /\ from.driver \in DriverKinds
  BY <1>3, ReadPolled DEF SendsAlike
<1>5. phy'.buffer = <<>> /\ (from.buffer = <<>> /\ from.unread = <<>> => phy'.unread = <<>>)
  BY <1>1, <1>2, <1>4, TransmitHolds
<1>6. ASSUME ~lost' PROVE OnItsWay(phy', line', coming')
  <2>1. ~lost /\ Received = <<>>
    BY <1>1, <1>6
  <2> DEFINE nothing == <<>>
  <2>2. nothing \in Seq(Bytes) /\ Polled.buffer \o Polled.unread \o nothing = nothing
    <3>1. Polled.buffer \o Polled.unread = <<>>
      BY <2>1, PolledOrder DEF Received
    <3> QED  BY <3>1
  <2>3. /\ Read(Polled).buffer = <<>> /\ Read(Polled).unread = <<>>
        /\ ReceiveTelegram(Polled) = [phy |-> Read(Polled), telegrams |-> <<>>]
    BY <1>3, <2>2, NothingRead
  <2>4. from = Read(Polled)
    <3>1. ReceiveTelegram(Polled).phy = Read(Polled)
      BY <2>3
    <3> QED  BY <3>1
  <2>5. phy'.buffer = <<>> /\ phy'.unread = <<>>
    BY <1>5, <2>3, <2>4
  <2>6. OnItsWay(phy, line, coming)
    BY <2>1 DEF OrderInv
  <2> QED  BY <1>1, <2>1, <2>5, <2>6 DEF OnItsWay, Received
<1>7. HoldsNothing(phy')
  BY <1>5 DEF HoldsNothing
<1> QED  BY <1>6, <1>7 DEF OrderInv

\* A poll that reads telegrams.
LEMMA ReadsOrder ==
  ASSUME OrderInv, ~Ongoing,
         NEW received, received \in {ReceiveTelegram(Polled), ReceiveAllTelegrams(Polled)},
         Reads(received), SendInv'
  PROVE  OrderInv'
<1>1. /\ phy' = received.phy /\ line' = line
      /\ coming' = SubSeq(coming, Len(received.telegrams) + 1, Len(coming))
      /\ ~lost' => ~lost /\ ~( /\ phy.driver = "rp2040" /\ received.telegrams # <<>>
                               /\ PendingReceivedBytes(Polled) >
                                    Len(Serialize(Head(received.telegrams))))
  BY DEF Reads, bus
<1>2. /\ ReadsBytes(Polled) /\ Polled.driver = phy.driver /\ BytesOf(line) \in Seq(Bytes)
      /\ ~lost => OnItsWay(Polled, line, coming)
  BY PolledOrder
<1>3. SendsAlike(received.phy, Polled) /\ IsList(received.telegrams)
  <2>1. /\ SendsAlike(ReceiveTelegram(Polled).phy, Polled)
        /\ IsList(ReceiveTelegram(Polled).telegrams)
    BY <1>2, ReceiveReads, ReceiveAlike DEF ReadsBytes, Readable
  <2>2. TurnReads(Polled, ReceiveAllTelegrams(Polled))
    BY <1>2, ReceiveAllReads
  <2> QED  BY <2>1, <2>2 DEF TurnReads, Readable
<1>4. phy'.mode # "Tx"
  BY <1>1, <1>3 DEF SendsAlike, Ongoing
<1>5. ASSUME ~lost' PROVE OnItsWay(phy', line', coming')
  <2>1. /\ Listed(coming)
        /\ Polled.buffer \o Polled.unread \o BytesOf(line) = Sent(coming)
    BY <1>1, <1>2, <1>5 DEF OnItsWay
  <2>2. ReadsOn(Polled, received, coming, BytesOf(line))
    BY <1>2, <2>1, AllFollow, OneReadsOn
  <2>3. ~CutShort(Polled, received.telegrams)
    BY <1>1, <1>2, <1>5 DEF CutShort, PendingReceivedBytes
  <2>4. Follows(phy', received.telegrams, coming, BytesOf(line))
    BY <1>1, <2>2, <2>3 DEF ReadsOn
  <2>5. Listed(coming') /\ phy'.buffer \o phy'.unread \o BytesOf(line) = Sent(coming')
    <3> DEFINE telegrams == received.telegrams
               expected == coming
               more == BytesOf(line)
               q == received.phy
               left == SubSeq(expected, Len(telegrams) + 1, Len(expected))
    <3>1. IsList(telegrams) /\ Follows(q, telegrams, expected, more)
      BY <1>1, <1>3, <2>4
    <3>0. left = SubSeq(expected, Len(telegrams) + 1, Len(expected))
      OBVIOUS
    <3> HIDE DEF telegrams, expected, more, q, left
    <3>2. Leaves(q, left, more)
      BY <3>0, <3>1, RestIsListed, Zenon
    <3>3. coming' = left /\ phy' = q
      BY <1>1 DEF telegrams, expected, q, left
    <3> QED  BY <3>2, <3>3 DEF Leaves, more
  <2> QED  BY <1>1, <2>5 DEF OnItsWay
<1> QED  BY <1>4, <1>5 DEF OrderInv, HoldsNothing

\* A poll of the station that holds the token.
LEMMA SendOrPassOrder ==
  ASSUME OrderInv, NEW from, from \in {Read(Polled), ReceiveTelegram(Polled).phy},
         SendOrPass(from), SendInv'
  PROVE  OrderInv'
<1>1. Transmits(from, DataRequest, "reply") \/ Transmits(from, TokenPass, "turn")
  BY DEF SendOrPass
<1> QED  BY <1>1, Telegrams, TransmitsOrder

\* The poll, state by state.
LEMMA PollOrder ==
  ASSUME OrderInv, Poll, SendInv'
  PROVE  OrderInv'
<1>1. CASE WaitForTransmission
  <2>1. phy' = Polled /\ line' = line /\ coming' = coming /\ lost' = lost
    BY <1>1 DEF WaitForTransmission, bus
  <2>2. HoldsNothing(Polled) /\ (~lost => OnItsWay(Polled, line, coming))
    BY PolledOrder
  <2> QED  BY <2>1, <2>2 DEF OrderInv, OnItsWay, HoldsNothing
<1>2. CASE AnswerStatusRequest
  <2>1. CASE MustWait
    BY <1>2, <2>1, WaitsOrder DEF AnswerStatusRequest
  <2>2. CASE ~MustWait
    <3>1. PICK da \in request : Transmits(Read(Polled), StatusResponse(da), "turn")
      BY <1>2, <2>2 DEF AnswerStatusRequest
    <3>2. da \in 0 .. 127
      BY <3>1 DEF OrderInv, SendInv
    <3> QED  BY <3>1, <3>2, Telegrams, TransmitsOrder
  <2> QED  BY <2>1, <2>2
<1>3. CASE ReceiveInActiveIdle
  <2>1. ~Ongoing /\ Reads(ReceiveAllTelegrams(Polled))
    BY <1>3 DEF ReceiveInActiveIdle
  <2> QED  BY <2>1, ReadsOrder
<1>4. CASE UseTheToken
  <2>1. CASE MustWait
    BY <1>4, <2>1, WaitsOrder DEF UseTheToken
  <2>2. CASE ~MustWait
    <3>1. SendOrPass(Read(Polled))
      BY <1>4, <2>2 DEF UseTheToken
    <3> QED  BY <3>1, SendOrPassOrder
  <2> QED  BY <2>1, <2>2
<1>5. CASE ReplyArrives \/ NoReplyYet
  <2>1. ~Ongoing /\ Reads(ReceiveTelegram(Polled))
    BY <1>5 DEF ReplyArrives, NoReplyYet
  <2> QED  BY <2>1, ReadsOrder
<1>6. CASE ReplyTimesOut
  <2>1. SendOrPass(ReceiveTelegram(Polled).phy)
    BY <1>6 DEF ReplyTimesOut
  <2> QED  BY <2>1, SendOrPassOrder
<1> QED  BY <1>1, <1>2, <1>3, <1>4, <1>5, <1>6 DEF Poll

\* Every step keeps the invariant.
LEMMA NextOrder == OrderInv /\ [Next]_vars => OrderInv'
<1> SUFFICES ASSUME OrderInv, [Next]_vars PROVE OrderInv'
  OBVIOUS
<1>0. SendInv'
  BY NextSends DEF OrderInv
<1>1. ASSUME phy' = phy, line' = line, coming' = coming, lost' = lost PROVE OrderInv'
  BY <1>0, <1>1 DEF OrderInv, OnItsWay, HoldsNothing
<1>2. CASE SlaveMisses \/ PeerTimesOut
  BY <1>1, <1>2 DEF SlaveMisses, PeerTimesOut
<1>3. CASE UNCHANGED vars
  BY <1>1, <1>3 DEF vars, bus
<1> QED  BY <1>0, <1>2, <1>3, ByteTimeOrder, ReplyOrder, PeerTurnOrder, PollOrder DEF Next

\* As long as nothing was altered or thrown away, the bytes in the driver and on the wire are
\* those of the telegrams nobody has read (receive_data(), receive_telegram(),
\* receive_all_telegrams()): for every driver, size of the buffer and set of replies, and
\* however the polls cut the stream.
THEOREM InOrderHolds == Spec => []InOrder
<1>1. OrderInv => InOrder
  BY DEF OrderInv, OnItsWay, InOrder, Received
<1> QED  BY InitOrder, NextOrder, <1>1, PTL DEF Spec

=============================================================================
