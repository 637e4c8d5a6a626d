------------------------- MODULE ModelRequestProofs -------------------------
(***************************************************************************)
(* Proofs about ModelRequest, for streams, channels and pipes of any size, *)
(* any frames and any number of tool calls:                                *)
(*                                                                         *)
(*   OnlyCompleteHolds    Spec => []OnlyComplete                           *)
(*   NoStaleSignalHolds   Spec => []NoStaleSignal                          *)
(*                                                                         *)
(* IndInv says who owns the child (ChildInv), when the worker may stop     *)
(* listening to the reader (FlowInv), that the decoder holds what the      *)
(* frames it has dispatched say (DecodeInv), and that no success has       *)
(* other text than what was previewed (GivenInv).  DecodeInv takes the     *)
(* decoder and the definition of a whole stream one frame further with     *)
(* each step; what FlattenSeq computes for one sequence more is proved     *)
(* once, by the least-number principle.                                    *)
(***************************************************************************)
EXTENDS ModelRequest, FiniteSetTheorems, WellFoundedInduction, TLAPS

-----------------------------------------------------------------------------
(* FlattenSeq, one sequence further.                                       *)

\* A non-empty set of naturals has a least element.
LEMMA LeastExists ==
    ASSUME NEW S, S \subseteq Nat, S # {}
    PROVE  \E x \in S : \A y \in S : x =< y
<1>1. PICK x \in S : \A y \in S : ~(<<y, x>> \in OpToRel(<, Nat))
  BY NatLessThanWellFounded, WFMin
<1>2. \A y \in S : ~(y < x)
  BY <1>1 DEF OpToRel
<1> QED
  BY <1>2

\* f holds what FlattenSeq has joined after each of the first n sequences.
Table(f, n, seqs) == f = [i \in 1..n |-> IF i = 1 THEN seqs[i] ELSE f[i - 1] \o seqs[i]]

\* A table can be continued.
LEMMA TableMore ==
    ASSUME NEW n \in Nat, NEW seqs, NEW f, Table(f, n, seqs)
    PROVE  \E g : Table(g, n + 1, seqs)
<1> DEFINE next(h, i) == IF i = 1 THEN seqs[i] ELSE h[i - 1] \o seqs[i]
           g == [i \in 1..n + 1 |-> IF i = n + 1 THEN next(f, n + 1) ELSE f[i]]
<1>1. ASSUME NEW i \in 1..n + 1 PROVE g[i] = next(g, i)
  <2>0. i # 1 => i - 1 \in 1..n /\ i - 1 \in 1..n + 1 /\ i - 1 # n + 1
    OBVIOUS
  <2>1. i # 1 => g[i - 1] = f[i - 1]
    BY <2>0
  <2>2. CASE i = n + 1
    BY <2>1, <2>2
  <2>3. CASE i # n + 1
    <3>1. i \in 1..n
      BY <2>3
    <3>2. f[i] = next(f, i)
      BY <3>1 DEF Table
    <3>3. g[i] = f[i]
      BY <2>3
    <3> HIDE DEF g
    <3> QED
      BY <2>1, <3>2, <3>3
  <2> QED
    BY <2>2, <2>3
<1>2. g = [i \in 1..n + 1 |-> next(g, i)]
  <2>1. g = [i \in 1..n + 1 |-> g[i]]
    OBVIOUS
  <2> HIDE DEF g, next
  <2> QED
    BY <1>1, <2>1
<1> HIDE DEF g
<1> QED
  BY <1>2 DEF Table

\* There is a table of any length: a least one without would follow one with.
LEMMA TableExists ==
    ASSUME NEW n \in Nat, NEW seqs
    PROVE  \E f : Table(f, n, seqs)
<1> DEFINE S == {k \in Nat : ~\E f : Table(f, k, seqs)}
<1>1. 0 \notin S
  <2> DEFINE f == [i \in 1..0 |-> <<>>]
  <2>1. f = [i \in 1..0 |-> IF i = 1 THEN seqs[i] ELSE f[i - 1] \o seqs[i]]
    OBVIOUS
  <2> HIDE DEF f
  <2>2. Table(f, 0, seqs)
    BY <2>1 DEF Table
  <2> QED
    BY <2>2
<1>2. CASE n \in S
  <2>1. PICK m \in S : \A y \in S : m =< y
    BY <1>2, LeastExists
  <2>2. m \in Nat /\ m # 0 /\ m - 1 \in Nat /\ ~(m =< m - 1) /\ (m - 1) + 1 = m
    BY <1>1, <2>1
  <2>3. PICK f : Table(f, m - 1, seqs)
    BY <2>1, <2>2
  <2>4. \E g : Table(g, (m - 1) + 1, seqs)
    BY <2>2, <2>3, TableMore
  <2> QED
    BY <2>1, <2>2, <2>4
<1> QED
  BY <1>2

\* Tables agree where they are about the same sequences.
LEMMA TablesAgree ==
    ASSUME NEW n \in Nat, NEW m \in Nat, n =< m, NEW seqs, NEW more, NEW f, NEW g,
           Table(f, n, seqs), Table(g, m, more), \A i \in 1..n : more[i] = seqs[i]
    PROVE  \A i \in 1..n : f[i] = g[i]
<1> DEFINE S == {i \in 1..n : f[i] # g[i]}
<1>1. CASE S # {}
  <2>0. S \subseteq Nat
    OBVIOUS
  <2>1. PICK k \in S : \A y \in S : k =< y
    <3> HIDE DEF S
    <3> QED
      BY <1>1, <2>0, LeastExists
  <2>2. k \in 1..n /\ k \in 1..m /\ ~(k =< k - 1) /\ (k # 1 => k - 1 \in 1..n)
    BY <2>1
  <2>3. k # 1 => f[k - 1] = g[k - 1]
    BY <2>1, <2>2
  <2>4. f[k] = IF k = 1 THEN seqs[k] ELSE f[k - 1] \o seqs[k]
    BY <2>2 DEF Table
  <2>5. g[k] = IF k = 1 THEN more[k] ELSE g[k - 1] \o more[k]
    BY <2>2 DEF Table
  <2>6. f[k] = g[k]
    BY <2>2, <2>3, <2>4, <2>5
  <2> QED
    BY <2>1, <2>6
<1> QED
  BY <1>1

\* FlattenSeq, by its table.
LEMMA FlattenTable ==
    ASSUME NEW seqs, Len(seqs) \in Nat, Len(seqs) # 0
    PROVE  \E f : Table(f, Len(seqs), seqs) /\ FlattenSeq(seqs) = f[Len(seqs)]
<1> DEFINE f == CHOOSE h : Table(h, Len(seqs), seqs)
<1>1. Table(f, Len(seqs), seqs)
  BY TableExists
<1>2. FlattenSeq(seqs) = f[Len(seqs)]
  BY DEF FlattenSeq, Table
<1> HIDE DEF f
<1> QED
  BY <1>1, <1>2

\* Sequences over T joined are a sequence over T.
LEMMA FlattenType ==
    ASSUME NEW T, NEW seqs \in Seq(Seq(T))
    PROVE  FlattenSeq(seqs) \in Seq(T)
<1> DEFINE n == Len(seqs)
<1>0. n \in Nat /\ DOMAIN seqs = 1..n /\ \A i \in 1..n : seqs[i] \in Seq(T)
  OBVIOUS
<1>1. CASE n = 0
  <2>1. seqs = <<>>
    BY <1>1
  <2> QED
    BY <1>1, <2>1 DEF FlattenSeq
<1>2. CASE n # 0
  <2>1. PICK f : Table(f, n, seqs) /\ FlattenSeq(seqs) = f[n]
    BY <1>0, <1>2, FlattenTable
  <2> DEFINE S == {i \in 1..n : f[i] \notin Seq(T)}
  <2> HIDE DEF n
  <2>2. CASE S # {}
    <3>0. S \subseteq Nat
      BY <1>0
    <3>1. PICK k \in S : \A y \in S : k =< y
      <4> HIDE DEF S
      <4> QED
        BY <2>2, <3>0, LeastExists
    <3>2. k \in 1..n /\ ~(k =< k - 1) /\ (k # 1 => k - 1 \in 1..n)
      BY <1>0, <3>1
    <3>3. k # 1 => f[k - 1] \in Seq(T)
      BY <3>1, <3>2
    <3>4. f[k] = IF k = 1 THEN seqs[k] ELSE f[k - 1] \o seqs[k]
      BY <2>1, <3>2 DEF Table
    <3>5. f[k] \in Seq(T)
      BY <1>0, <3>2, <3>3, <3>4
    <3> QED
      BY <3>1, <3>5
  <2>3. CASE S = {}
    BY <1>0, <1>2, <2>1, <2>3
  <2> QED
    BY <2>2, <2>3
<1> QED
  BY <1>1, <1>2

\* One sequence more is joined at the end.
LEMMA FlattenAppend ==
    ASSUME NEW T, NEW seqs \in Seq(Seq(T)), NEW s \in Seq(T)
    PROVE  FlattenSeq(Append(seqs, s)) = FlattenSeq(seqs) \o s
<1> DEFINE n == Len(seqs)
           more == Append(seqs, s)
<1>1. /\ n \in Nat /\ Len(more) = n + 1 /\ more[n + 1] = s
      /\ \A i \in 1..n : more[i] = seqs[i]
  OBVIOUS
<1> HIDE DEF more
<1>2. PICK g : Table(g, n + 1, more) /\ FlattenSeq(more) = g[n + 1]
  BY <1>1, FlattenTable
<1>3. g[n + 1] = IF n + 1 = 1 THEN more[n + 1] ELSE g[(n + 1) - 1] \o more[n + 1]
  <2> HIDE DEF n
  <2>1. n + 1 \in 1..n + 1
    BY <1>1
  <2> QED
    BY <1>2, <2>1 DEF Table
<1>4. CASE n = 0
  <2>1. seqs = <<>>
    BY <1>4
  <2>2. FlattenSeq(seqs) = <<>>
    BY <1>4, <2>1 DEF FlattenSeq
  <2>3. <<>> \o s = s
    OBVIOUS
  <2> QED
    BY <1>1, <1>2, <1>3, <1>4, <2>2, <2>3 DEF more
<1>5. CASE n # 0
  <2>1. PICK f : Table(f, n, seqs) /\ FlattenSeq(seqs) = f[n]
    BY <1>1, <1>5, FlattenTable
  <2>2. f[n] = g[n]
    <3> HIDE DEF n
    <3>1. n \in 1..n /\ n =< n + 1 /\ n + 1 \in Nat
      BY <1>1, <1>5
    <3> QED
      BY <1>1, <1>2, <2>1, <3>1, TablesAgree
  <2>3. (n + 1) - 1 = n /\ n + 1 # 1
    BY <1>1, <1>5
  <2> HIDE DEF n
  <2> QED
    BY <1>1, <1>2, <1>3, <2>1, <2>2, <2>3 DEF more
<1> QED
  BY <1>4, <1>5

-----------------------------------------------------------------------------
(* The text and the calls of a stream, one frame further.                  *)

\* The first n frames of a stream.
First(frames, n) == SubSeq(frames, 1, n)

\* Some facts about the frames at the beginning.
LEMMA FirstFacts ==
    ASSUME NEW S, NEW frames \in Seq(S), NEW n \in 0..Len(frames)
    PROVE  /\ First(frames, n) \in Seq(S) /\ Len(First(frames, n)) = n
           /\ \A i \in 1..n : First(frames, n)[i] = frames[i]
           /\ n = Len(frames) => First(frames, n) = frames
           /\ n < Len(frames) => First(frames, n + 1) = Append(First(frames, n), frames[n + 1])
           /\ \A e \in S : First(Append(frames, e), n) = First(frames, n)
<1>1. Len(frames) \in Nat /\ DOMAIN frames = 1..Len(frames) /\ n \in Nat /\ n =< Len(frames)
  OBVIOUS
<1>2. /\ First(frames, n) \in Seq(S) /\ Len(First(frames, n)) = n
      /\ \A i \in 1..n : First(frames, n)[i] = frames[i]
  BY <1>1 DEF First
<1>3. n = Len(frames) => First(frames, n) = frames
  BY <1>1 DEF First
<1>4. ASSUME n < Len(frames)
      PROVE  First(frames, n + 1) = Append(First(frames, n), frames[n + 1])
  BY <1>1, <1>4 DEF First
<1>5. ASSUME NEW e \in S
      PROVE  First(Append(frames, e), n) = First(frames, n)
  BY <1>1 DEF First
<1> QED
  BY <1>2, <1>3, <1>4, <1>5

\* A function on 1..n is a sequence.
LEMMA FunctionIsSeq ==
    ASSUME NEW T, NEW n \in Nat, NEW f \in [1..n -> T]
    PROVE  f \in Seq(T)
  OBVIOUS

\* The pieces a frame adds to a string.
LEMMA PiecesInType ==
    ASSUME NEW frags \in Seq(Fragment), NEW index, NEW field \in Fields
    PROVE  PiecesIn(frags, index, field) \in Strings
<1> DEFINE seqs == [k \in DOMAIN frags |->
                      IF frags[k].index = index THEN frags[k].adds[field] ELSE <<>>]
<1>1. ASSUME NEW k \in DOMAIN frags PROVE seqs[k] \in Strings
  <2>1. frags[k] \in Fragment
    OBVIOUS
  <2>2. frags[k].adds \in [Fields -> Strings]
    BY <2>1 DEF Fragment
  <2>3. frags[k].adds[field] \in Strings
    BY <2>2
  <2>4. <<>> \in Strings
    BY DEF Strings
  <2> QED
    BY <2>3, <2>4
<1>2. seqs \in Seq(Strings)
  <2>2. DOMAIN frags = 1..Len(frags) /\ Len(frags) \in Nat
    OBVIOUS
  <2>3. seqs = [k \in 1..Len(frags) |-> seqs[k]]
    BY <2>2
  <2> HIDE DEF seqs
  <2>4. seqs \in [1..Len(frags) -> Strings]
    BY <1>1, <2>2, <2>3
  <2> QED
    BY <2>2, <2>4, FunctionIsSeq
<1> QED
  BY <1>2, FlattenType DEF PiecesIn, Strings

\* A frame's facts.
LEMMA FrameFacts ==
    ASSUME NEW f \in Frames
    PROVE  /\ f.type \in {"choice", "done", "usage", "bad"}
           /\ f.text \in BOOLEAN /\ f.finish \in BOOLEAN /\ f.frags \in Seq(Fragment)
           /\ f.type # "choice" => ~f.text /\ f.frags = <<>> /\ ~f.finish
           /\ f # None
  BY FramesAssumption DEF FrameType

\* A string of a call in a stream with one frame more.
LEMMA PiecesAppend ==
    ASSUME NEW frames \in Seq(Frames), NEW f \in Frames, NEW index, NEW field \in Fields
    PROVE  /\ PiecesOf(frames, index, field) \in Strings
           /\ PiecesOf(Append(frames, f), index, field) =
                  PiecesOf(frames, index, field) \o PiecesIn(f.frags, index, field)
<1> DEFINE P(s) == PiecesIn(s.frags, index, field)
           seqs == [i \in DOMAIN frames |-> P(frames[i])]
           more == [i \in DOMAIN Append(frames, f) |-> P(Append(frames, f)[i])]
<1>1. \A s \in Frames : P(s) \in Strings
  BY PiecesInType, FrameFacts
<1> HIDE DEF P
<1>2. seqs \in Seq(Strings)
  BY <1>1
<1>3. more = Append(seqs, P(f))
  OBVIOUS
<1> HIDE DEF seqs, more
<1>4. FlattenSeq(seqs) \in Strings /\ FlattenSeq(Append(seqs, P(f))) = FlattenSeq(seqs) \o P(f)
  BY <1>1, <1>2, FlattenType, FlattenAppend DEF Strings
<1> QED
  BY <1>3, <1>4 DEF PiecesOf, P, seqs, more

\* The indexes of a stream with one frame more.
LEMMA EntriesAppend ==
    ASSUME NEW frames \in Seq(Frames), NEW f \in Frames
    PROVE  EntriesOf(Append(frames, f)) = EntriesOf(frames) \cup EntriesIn(f.frags)
<1> DEFINE n == Len(frames)
           more == Append(frames, f)
           E(s) == EntriesIn(s.frags)
<1>1. /\ DOMAIN frames = 1..n /\ DOMAIN more = 1..n + 1 /\ n \in Nat
      /\ more[n + 1] = f /\ \A i \in 1..n : more[i] = frames[i]
      /\ 1..n + 1 = 1..n \cup {n + 1}
  OBVIOUS
<1>2. /\ EntriesOf(frames) = UNION {E(frames[i]) : i \in DOMAIN frames}
      /\ EntriesOf(more) = UNION {E(more[i]) : i \in DOMAIN more}
  BY DEF EntriesOf
<1> HIDE DEF E, n, more
<1>3. UNION {E(more[i]) : i \in DOMAIN more} =
          (UNION {E(frames[i]) : i \in DOMAIN frames}) \cup E(f)
  <2>1. ASSUME NEW x
        PROVE  (\E i \in 1..n + 1 : x \in E(more[i])) <=>
                   (\E i \in 1..n : x \in E(frames[i])) \/ x \in E(f)
    BY <1>1
  <2> QED
    BY <1>1, <2>1
<1> QED
  BY <1>2, <1>3 DEF E, more

\* The indexes a frame enters.
LEMMA EntriesType ==
    ASSUME NEW f \in Frames
    PROVE  EntriesIn(f.frags) \subseteq Indexes
<1>1. \A k \in DOMAIN f.frags : f.frags[k] \in Fragment
  BY FrameFacts
<1> QED
  BY <1>1 DEF EntriesIn, Fragment

\* The text of a stream is positions in it.
LEMMA TextType ==
    ASSUME NEW frames \in Seq(Frames)
    PROVE  /\ [i \in DOMAIN frames |-> IF frames[i].text THEN <<i>> ELSE <<>>] \in Seq(Seq(Nat))
           /\ TextOf(frames) \in Seq(Nat)
<1> DEFINE seqs == [i \in DOMAIN frames |-> IF frames[i].text THEN <<i>> ELSE <<>>]
           Texts == Seq(Nat)
<1>1. DOMAIN frames = 1..Len(frames) /\ Len(frames) \in Nat
  OBVIOUS
<1>2. ASSUME NEW i \in 1..Len(frames) PROVE seqs[i] \in Texts
  <2>1. <<i>> \in Seq(Nat) /\ <<>> \in Seq(Nat)
    BY <1>1
  <2>2. seqs[i] = <<i>> \/ seqs[i] = <<>>
    BY <1>1
  <2> QED
    BY <2>1, <2>2
<1>3. seqs = [i \in 1..Len(frames) |-> seqs[i]]
  BY <1>1
<1> HIDE DEF seqs, Texts
<1>4. seqs \in Seq(Texts)
  <2>1. seqs \in [1..Len(frames) -> Texts]
    BY <1>2, <1>3
  <2> QED
    BY <1>1, <2>1, FunctionIsSeq
<1>5. FlattenSeq(seqs) \in Texts
  BY <1>4, FlattenType DEF Texts
<1> QED
  BY <1>4, <1>5 DEF TextOf, seqs, Texts

\* The text of a stream with one frame more.
LEMMA TextAppend ==
    ASSUME NEW frames \in Seq(Frames), NEW f \in Frames
    PROVE  TextOf(Append(frames, f)) = IF f.text THEN Append(TextOf(frames), Len(frames) + 1)
                                       ELSE TextOf(frames)
<1> DEFINE P(s, i) == IF s.text THEN <<i>> ELSE <<>>
           n == Len(frames) + 1
           seqs == [i \in DOMAIN frames |-> P(frames[i], i)]
           more == [i \in DOMAIN Append(frames, f) |-> P(Append(frames, f)[i], i)]
<1>1. n \in Nat
  OBVIOUS
<1>2. /\ P(f, n) \in Seq(Nat) /\ P(f, n) = IF f.text THEN <<n>> ELSE <<>>
  BY <1>1
<1>3. seqs \in Seq(Seq(Nat))
  BY TextType
<1> HIDE DEF P
<1>4. more = Append(seqs, P(f, n))
  OBVIOUS
<1> HIDE DEF seqs, more, n
<1>5. /\ FlattenSeq(seqs) \in Seq(Nat)
      /\ FlattenSeq(Append(seqs, P(f, n))) = FlattenSeq(seqs) \o P(f, n)
  BY <1>2, <1>3, FlattenType, FlattenAppend
<1>6. /\ TextOf(frames) = FlattenSeq(seqs)
      /\ TextOf(Append(frames, f)) = FlattenSeq(more)
  BY DEF TextOf, P, seqs, more
<1>7. /\ FlattenSeq(seqs) \o <<n>> = Append(FlattenSeq(seqs), n)
      /\ FlattenSeq(seqs) \o <<>> = FlattenSeq(seqs)
  BY <1>1, <1>5
<1>8. FlattenSeq(seqs) \o P(f, n) =
          IF f.text THEN Append(FlattenSeq(seqs), n) ELSE FlattenSeq(seqs)
  BY <1>2, <1>7
<1> QED
  BY <1>4, <1>5, <1>6, <1>8 DEF n

\* An empty stream has no text and no calls.
LEMMA NothingSent ==
    /\ TextOf(<<>>) = <<>>
    /\ \A index, field : PiecesOf(<<>>, index, field) = <<>>
    /\ EntriesOf(<<>>) = {}
<1> DEFINE e == [i \in {} |-> <<>>]
<1>1. FlattenSeq(<<>>) = <<>>
  BY DEF FlattenSeq
<1>2. DOMAIN <<>> = {}
  OBVIOUS
<1>3. TextOf(<<>>) = FlattenSeq(<<>>)
  <2>1. [i \in DOMAIN <<>> |-> IF <<>>[i].text THEN <<i>> ELSE <<>>] = <<>>
    BY <1>2
  <2> QED
    BY <2>1 DEF TextOf
<1>4. ASSUME NEW index, NEW field PROVE PiecesOf(<<>>, index, field) = FlattenSeq(<<>>)
  <2>1. [i \in DOMAIN <<>> |-> PiecesIn(<<>>[i].frags, index, field)] = <<>>
    BY <1>2
  <2> QED
    BY <2>1 DEF PiecesOf
<1>5. EntriesOf(<<>>) = {}
  BY <1>2 DEF EntriesOf
<1> QED
  BY <1>1, <1>3, <1>4, <1>5

\* A prefix, position by position.
LEMMA PrefixMeans ==
    ASSUME NEW s \in Seq(Nat), NEW t \in Seq(Nat)
    PROVE  IsPrefix(s, t) <=> Len(s) =< Len(t) /\ \A i \in 1..Len(s) : s[i] = t[i]
<1>1. Len(s) \in Nat /\ Len(t) \in Nat
  OBVIOUS
<1>2. SubSeq(s, 1, Len(s)) = s
  OBVIOUS
<1>3. ASSUME Len(s) =< Len(t)
      PROVE  /\ SubSeq(t, 1, Len(s)) \in Seq(Nat) /\ Len(SubSeq(t, 1, Len(s))) = Len(s)
             /\ \A i \in 1..Len(s) : SubSeq(t, 1, Len(s))[i] = t[i]
  BY <1>1, <1>3
<1>4. ASSUME Len(s) =< Len(t), \A i \in 1..Len(s) : s[i] = t[i]
      PROVE  s = SubSeq(t, 1, Len(s))
  BY <1>1, <1>3, <1>4
<1>5. ASSUME Len(s) =< Len(t), s = SubSeq(t, 1, Len(s))
      PROVE  \A i \in 1..Len(s) : s[i] = t[i]
  BY <1>3, <1>5
<1> QED
  BY <1>2, <1>4, <1>5 DEF IsPrefix

\* The text of the first frames is where the text of more frames begins.
LEMMA TextPrefix ==
    ASSUME NEW frames \in Seq(Frames), NEW n \in 0..Len(frames)
    PROVE  IsPrefix(TextOf(First(frames, n)), TextOf(frames))
<1> DEFINE N == Len(frames)
           T(k) == TextOf(First(frames, k))
           S == {k \in n..N : ~IsPrefix(T(n), T(k))}
<1>0. N \in Nat /\ n \in Nat /\ n =< N /\ n..N \subseteq 0..N
  OBVIOUS
<1>1. ASSUME NEW k \in 0..N PROVE T(k) \in Seq(Nat)
  <2>1. First(frames, k) \in Seq(Frames)
    BY FirstFacts
  <2> QED
    BY <2>1, TextType
<1>2. ASSUME NEW k \in 0..N, k < N
      PROVE  \/ T(k + 1) = T(k)
             \/ \E x \in Nat : T(k + 1) = Append(T(k), x)
  <2>1. /\ First(frames, k) \in Seq(Frames) /\ Len(First(frames, k)) = k
        /\ First(frames, k + 1) = Append(First(frames, k), frames[k + 1])
    BY <1>2, FirstFacts
  <2>2. frames[k + 1] \in Frames
    BY <1>2
  <2>3. T(k + 1) = IF frames[k + 1].text THEN Append(T(k), k + 1) ELSE T(k)
    BY <2>1, <2>2, TextAppend
  <2>4. k + 1 \in Nat
    OBVIOUS
  <2> HIDE DEF T
  <2> QED
    BY <2>3, <2>4
<1> HIDE DEF N, T
<1>3. CASE S # {}
  <2>0. S \subseteq Nat
    BY <1>0
  <2>1. PICK k \in S : \A y \in S : k =< y
    <3> HIDE DEF S
    <3> QED
      BY <1>3, <2>0, LeastExists
  <2>2. k \in n..N /\ ~IsPrefix(T(n), T(k)) /\ k \in 0..N /\ n \in 0..N
    BY <1>0, <2>1
  <2>3. k # n
    BY <1>1, <2>2, PrefixMeans
  <2>4. k - 1 \in n..N /\ k - 1 \in 0..N /\ k - 1 < N /\ (k - 1) + 1 = k /\ ~(k =< k - 1)
    BY <1>0, <2>2, <2>3
  <2>5. IsPrefix(T(n), T(k - 1))
    BY <2>1, <2>4
  <2>6. T(n) \in Seq(Nat) /\ T(k - 1) \in Seq(Nat) /\ T(k) \in Seq(Nat)
    BY <1>1, <2>2, <2>4
  <2>7. Len(T(n)) =< Len(T(k - 1)) /\ \A i \in 1..Len(T(n)) : T(n)[i] = T(k - 1)[i]
    BY <2>5, <2>6, PrefixMeans
  <2>8. T(k) = T(k - 1) \/ \E x \in Nat : T(k) = Append(T(k - 1), x)
    BY <1>2, <2>4
  <2>9. Len(T(n)) =< Len(T(k)) /\ \A i \in 1..Len(T(n)) : T(n)[i] = T(k)[i]
    <3>1. CASE T(k) = T(k - 1)
      BY <2>7, <3>1
    <3>2. CASE \E x \in Nat : T(k) = Append(T(k - 1), x)
      BY <2>6, <2>7, <3>2
    <3> QED
      BY <2>8, <3>1, <3>2
  <2>10. IsPrefix(T(n), T(k))
    BY <2>6, <2>9, PrefixMeans
  <2> QED
    BY <2>2, <2>10
<1>4. CASE S = {}
  <2>1. N \in n..N /\ N \in 0..N
    BY <1>0
  <2>2. IsPrefix(T(n), T(N))
    BY <1>4, <2>1
  <2>3. First(frames, N) = frames
    BY <2>1, FirstFacts DEF N
  <2> QED
    BY <2>2, <2>3 DEF T
<1> QED
  BY <1>3, <1>4

-----------------------------------------------------------------------------
(* The decoder.                                                            *)

Decoders == [data : Frames \cup {None}, texts : Seq(Nat), entries : SUBSET Indexes,
             calls : [Indexes -> [Fields -> Strings]], finish : BOOLEAN, done : BOOLEAN]

\* What the flags of the decoder say of the frames it has dispatched.
Shape(d, frames) ==
    /\ d.done => d.finish /\ Ended(frames)
    /\ d.finish /\ ~d.done => Finished(frames, Len(frames))
    /\ ~d.finish => \A i \in 1..Len(frames) : Unfinished(frames[i])

\* One frame more does not change what was said of the frames before it.
LEMMA FinishedAppend ==
    ASSUME NEW frames \in Seq(Frames), NEW f \in Frames, NEW n \in 0..Len(frames)
    PROVE  Finished(Append(frames, f), n) <=> Finished(frames, n)
<1> DEFINE more == Append(frames, f)
<1>1. \A i \in 1..n : more[i] = frames[i]
  OBVIOUS
<1>2. ASSUME NEW k \in 1..n
      PROVE  1..k - 1 \subseteq 1..n /\ k + 1..n \subseteq 1..n
  OBVIOUS
<1> HIDE DEF more
<1> QED
  BY <1>1, <1>2 DEF Finished, Unfinished, more

\* Dispatching a frame that is not refused keeps the shape.
LEMMA DispatchShape ==
    ASSUME NEW d \in Decoders, NEW frames \in Seq(Frames), NEW f \in Frames, NEW p \in Nat,
           Shape(d, frames), ~d.done, ~DispatchRefused(d, f)
    PROVE  Shape(Dispatch(d, f, p), Append(frames, f))
<1> DEFINE more == Append(frames, f)
           n == Len(frames)
<1>1. /\ n \in Nat /\ Len(more) = n + 1 /\ more[n + 1] = f
      /\ \A i \in 1..n : more[i] = frames[i]
  OBVIOUS
<1>2. Finished(more, n) <=> Finished(frames, n)
  BY <1>1, FinishedAppend
<1>3. f.type \in {"choice", "done", "usage"} /\ f.finish \in BOOLEAN
  BY FrameFacts DEF DispatchRefused
<1>4. d.finish \in BOOLEAN /\ d.done \in BOOLEAN
  BY DEF Decoders
<1> HIDE DEF more, n
<1>5. CASE f.type = "done"
  <2>1. Dispatch(d, f, p).done = TRUE /\ Dispatch(d, f, p).finish = d.finish
    BY <1>5 DEF Dispatch, Decoders
  <2>2. d.finish
    BY <1>5 DEF DispatchRefused
  <2>3. Finished(more, n)
    BY <1>2, <2>2 DEF Shape, n
  <2>4. Ended(more)
    <3>1. (n + 1) - 1 = n /\ n + 1 > 0
      BY <1>1
    <3> QED
      BY <1>1, <1>5, <2>3, <3>1 DEF Ended
  <2> QED
    BY <2>1, <2>2, <2>4 DEF Shape, more
<1>6. CASE f.type = "usage"
  <2>1. Dispatch(d, f, p).done = d.done /\ Dispatch(d, f, p).finish = d.finish
    BY <1>6 DEF Dispatch, Decoders
  <2>2. ASSUME d.finish PROVE Finished(more, n + 1)
    <3>1. PICK k \in 1..n :
              /\ more[k].type = "choice" /\ more[k].finish
              /\ \A i \in 1..k - 1 : Unfinished(more[i])
              /\ \A i \in k + 1..n : more[i].type = "usage"
      BY <1>2, <2>2 DEF Shape, Finished, n
    <3>2. k \in 1..n + 1 /\ \A i \in k + 1..n + 1 : more[i].type = "usage"
      BY <1>1, <1>6, <3>1
    <3> QED
      BY <3>1, <3>2 DEF Finished
  <2>3. ASSUME ~d.finish PROVE \A i \in 1..n + 1 : Unfinished(more[i])
    <3>1. \A i \in 1..n : Unfinished(more[i])
      BY <1>1, <2>3 DEF Shape, n
    <3>2. Unfinished(more[n + 1])
      BY <1>1, <1>6 DEF Unfinished
    <3>3. \A i \in 1..n + 1 : i \in 1..n \/ i = n + 1
      BY <1>1
    <3> QED
      BY <3>1, <3>2, <3>3
  <2> QED
    BY <1>1, <2>1, <2>2, <2>3 DEF Shape, more
<1>7. CASE f.type = "choice"
  <2>1. Dispatch(d, f, p).done = d.done /\ Dispatch(d, f, p).finish = f.finish
    BY <1>7 DEF Dispatch, Decoders
  <2>2. ~d.finish
    BY <1>7 DEF DispatchRefused
  <2>3. \A i \in 1..n : Unfinished(more[i])
    BY <1>1, <2>2 DEF Shape, n
  <2>4. ASSUME f.finish PROVE Finished(more, n + 1)
    <3>1. /\ n + 1 \in 1..n + 1 /\ (n + 1) - 1 = n
          /\ \A i \in (n + 1) + 1..n + 1 : more[i].type = "usage"
      BY <1>1
    <3> QED
      BY <1>1, <1>7, <2>3, <2>4, <3>1 DEF Finished
  <2>5. ASSUME ~f.finish PROVE \A i \in 1..n + 1 : Unfinished(more[i])
    <3>1. Unfinished(more[n + 1])
      BY <1>1, <1>7, <2>5 DEF Unfinished
    <3>2. \A i \in 1..n + 1 : i \in 1..n \/ i = n + 1
      BY <1>1
    <3> QED
      BY <2>3, <3>1, <3>2
  <2> QED
    BY <1>1, <2>1, <2>4, <2>5 DEF Shape, more
<1> QED
  BY <1>3, <1>5, <1>6, <1>7

\* A frame that is refused does not end an answer.
LEMMA RefusedShape ==
    ASSUME NEW d \in Decoders, NEW frames \in Seq(Frames), NEW f \in Frames,
           Shape(d, frames), ~d.done, DispatchRefused(d, f)
    PROVE  ~Ended(Append(frames, f))
<1> DEFINE more == Append(frames, f)
           n == Len(frames)
<1>1. /\ n \in Nat /\ Len(more) = n + 1 /\ more[n + 1] = f
      /\ \A i \in 1..n : more[i] = frames[i]
  OBVIOUS
<1>2. Finished(more, n) <=> Finished(frames, n)
  BY <1>1, FinishedAppend
<1> HIDE DEF more, n
<1>3. SUFFICES ASSUME Ended(more) PROVE FALSE
  BY DEF more
<1>4. f.type = "done" /\ Finished(frames, n)
  <2>1. (n + 1) - 1 = n
    BY <1>1
  <2> QED
    BY <1>1, <1>2, <1>3, <2>1 DEF Ended
<1>5. ~d.finish
  BY <1>4 DEF DispatchRefused
<1>6. \A i \in 1..n : Unfinished(frames[i])
  BY <1>5 DEF Shape, n
<1> QED
  BY <1>4, <1>6 DEF Finished, Unfinished

\* The decoder is done when the frames have ended.
LEMMA DoneShape ==
    ASSUME NEW d \in Decoders, NEW frames \in Seq(Frames), Shape(d, frames)
    PROVE  d.done <=> Ended(frames)
<1> DEFINE n == Len(frames)
<1>1. n \in Nat /\ d.finish \in BOOLEAN /\ d.done \in BOOLEAN
  BY DEF Decoders
<1>2. ASSUME ~d.done, Ended(frames) PROVE FALSE
  <2>1. n \in 1..n /\ frames[n].type = "done"
    BY <1>1, <1>2 DEF Ended
  <2>2. CASE d.finish
    <3>1. PICK k \in 1..n :
              /\ frames[k].type = "choice"
              /\ \A i \in k + 1..n : frames[i].type = "usage"
      BY <1>2, <2>2 DEF Shape, Finished
    <3>2. k = n \/ n \in k + 1..n
      BY <1>1, <3>1
    <3> HIDE DEF n
    <3> QED
      BY <2>1, <3>1, <3>2
  <2>3. CASE ~d.finish
    BY <2>1, <2>3 DEF Shape, Unfinished
  <2> QED
    BY <1>1, <2>2, <2>3
<1> QED
  BY <1>1, <1>2 DEF Shape

\* What dispatching a frame adds to the text and to the calls.
LEMMA DispatchAdds ==
    ASSUME NEW d \in Decoders, NEW f \in Frames, NEW p \in Nat
    PROVE  LET next == Dispatch(d, f, p)
           IN  /\ next \in Decoders /\ next.data = None
               /\ next.texts = IF f.text THEN Append(d.texts, p) ELSE d.texts
               /\ next.entries = d.entries \cup EntriesIn(f.frags)
               /\ \A i \in Indexes, field \in Fields :
                     next.calls[i][field] = d.calls[i][field] \o PiecesIn(f.frags, i, field)
<1> DEFINE next == Dispatch(d, f, p)
<1>1. /\ d.texts \in Seq(Nat) /\ d.calls \in [Indexes -> [Fields -> Strings]]
      /\ d.entries \subseteq Indexes /\ d.finish \in BOOLEAN /\ d.done \in BOOLEAN
  BY DEF Decoders
<1>2. \A i \in Indexes, field \in Fields : PiecesIn(f.frags, i, field) \in Strings
  BY FrameFacts, PiecesInType
<1>3. \A i \in Indexes, field \in Fields :
          /\ d.calls[i][field] \in Strings
          /\ d.calls[i][field] \o PiecesIn(f.frags, i, field) \in Strings
  <2>1. \A s \in Strings, t \in Strings : s \o t \in Strings
    BY DEF Strings
  <2> QED
    BY <1>1, <1>2, <2>1
<1>4. Append(d.texts, p) \in Seq(Nat)
  BY <1>1
<1>5. CASE f.type = "choice"
  <2>1. /\ next = [d EXCEPT !.data = None,
                            !.texts = IF f.text THEN Append(@, p) ELSE @,
                            !.entries = @ \cup EntriesIn(f.frags),
                            !.calls = Collect(@, f.frags),
                            !.finish = f.finish]
    BY <1>5 DEF Dispatch
  <2>2. f.finish \in BOOLEAN /\ f.text \in BOOLEAN
    BY FrameFacts
  <2>3. /\ Collect(d.calls, f.frags) \in [Indexes -> [Fields -> Strings]]
        /\ \A i \in Indexes, field \in Fields :
              Collect(d.calls, f.frags)[i][field] = d.calls[i][field] \o PiecesIn(f.frags, i, field)
    BY <1>3 DEF Collect
  <2> HIDE DEF next
  <2> DEFINE texts == IF f.text THEN Append(d.texts, p) ELSE d.texts
             calls == Collect(d.calls, f.frags)
             entries == d.entries \cup EntriesIn(f.frags)
  <2>4. /\ texts \in Seq(Nat) /\ calls \in [Indexes -> [Fields -> Strings]]
        /\ entries \in SUBSET Indexes
    BY <1>1, <1>4, <2>3, EntriesType
  <2>5. next = [data |-> None, texts |-> texts, entries |-> entries, calls |-> calls,
                finish |-> f.finish, done |-> d.done]
    BY <2>1 DEF Decoders
  <2> HIDE DEF texts, calls, entries
  <2>6. next \in Decoders
    BY <1>1, <2>2, <2>4, <2>5 DEF Decoders
  <2>7. next.data = None /\ next.texts = texts /\ next.calls = calls /\ next.entries = entries
    BY <2>5
  <2> QED
    BY <2>3, <2>6, <2>7 DEF next, texts, calls, entries
<1>6. CASE f.type # "choice"
  <2>1. ~f.text /\ f.frags = <<>>
    BY <1>6, FrameFacts
  <2>2. next = [d EXCEPT !.data = None] \/ next = [d EXCEPT !.data = None, !.done = TRUE]
    BY <1>6 DEF Dispatch
  <2>3. /\ next \in Decoders /\ next.data = None /\ next.texts = d.texts
        /\ next.entries = d.entries /\ next.calls = d.calls
    BY <2>2 DEF Decoders
  <2>4. EntriesIn(f.frags) = {}
    BY <2>1 DEF EntriesIn
  <2>5. ASSUME NEW i \in Indexes, NEW field \in Fields
        PROVE  d.calls[i][field] = d.calls[i][field] \o PiecesIn(f.frags, i, field)
    <3>1. PiecesIn(<<>>, i, field) = <<>>
      <4>1. [k \in DOMAIN <<>> |->
                IF <<>>[k].index = i THEN (<<>>)[k].adds[field] ELSE <<>>] = <<>>
        OBVIOUS
      <4> QED
        BY <4>1 DEF PiecesIn, FlattenSeq
    <3>2. d.calls[i][field] \in Seq(Pieces)
      BY <1>3 DEF Strings
    <3> QED
      BY <2>1, <3>1, <3>2
  <2> HIDE DEF next
  <2> QED
    BY <2>1, <2>3, <2>4, <2>5 DEF next
<1> QED
  BY <1>5, <1>6

\* A set of indexes is 0, 1, ... when it has with each index all smaller ones.
LEMMA Numbered ==
    ASSUME NEW S, S \subseteq Indexes
    PROVE  S = 0..(Cardinality(S) - 1) <=> \A i \in S : 0..i \subseteq S
<1>1. MaxIndex \in Nat /\ S \subseteq 0..MaxIndex
  BY SizesAssumption DEF Indexes
<1>2. IsFiniteSet(S) /\ Cardinality(S) \in Nat
  <2>1. IsFiniteSet(0..MaxIndex)
    BY <1>1, FS_Interval
  <2>2. IsFiniteSet(S)
    BY <1>1, <2>1, FS_Subset
  <2> QED
    BY <2>2, FS_CardinalityType
<1>3. ASSUME S = 0..(Cardinality(S) - 1) PROVE \A i \in S : 0..i \subseteq S
  <2> DEFINE c == Cardinality(S)
  <2>1. c \in Nat
    BY <1>2
  <2>2. S = 0..(c - 1)
    BY <1>3
  <2> HIDE DEF c
  <2> QED
    BY <2>1, <2>2
<1>4. ASSUME \A i \in S : 0..i \subseteq S PROVE S = 0..(Cardinality(S) - 1)
  <2>1. CASE S = {}
    <3>1. Cardinality(S) = 0
      BY <2>1, FS_EmptySet
    <3>2. 0..(0 - 1) = {}
      OBVIOUS
    <3> QED
      BY <2>1, <3>1, <3>2
  <2>2. CASE S # {}
    <3> DEFINE R == {MaxIndex - i : i \in S}
    <3>1. R \subseteq Nat /\ R # {}
      <4>1. ASSUME NEW i \in S PROVE MaxIndex - i \in Nat
        <5>1. MaxIndex \in Nat /\ i \in Nat /\ i =< MaxIndex
          BY <1>1
        <5> HIDE DEF R
        <5> QED
          BY <5>1
      <4>2. R \subseteq Nat
        BY Zenon, <4>1
      <4>3. PICK i \in S : TRUE
        BY Zenon, <2>2
      <4>4. MaxIndex - i \in R
        BY Zenon
      <4> QED
        BY Zenon, <4>2, <4>4
    <3>2. PICK x \in R : \A y \in R : x =< y
      <4> HIDE DEF R
      <4> QED
        BY <3>1, LeastExists
    <3>3. PICK m \in S : x = MaxIndex - m
      BY <3>2
    <3>4. \A i \in S : i =< m
      <4>1. ASSUME NEW i \in S PROVE MaxIndex - m =< MaxIndex - i
        <5>1. MaxIndex - i \in R
          OBVIOUS
        <5> HIDE DEF R
        <5> QED
          BY <3>2, <3>3, <5>1
      <4>2. MaxIndex \in Nat /\ m \in Nat /\ \A i \in S : i \in Nat
        BY <1>1
      <4> HIDE DEF R
      <4> QED
        BY <4>1, <4>2
    <3>5. m \in Nat /\ S = 0..m
      <4>1. m \in Nat /\ \A i \in S : i \in Nat
        BY <1>1
      <4>2. S \subseteq 0..m
        BY <3>4, <4>1
      <4> QED
        BY <1>4, <4>1, <4>2
    <3>6. Cardinality(0..m) = m + 1
      BY <3>5, FS_Interval
    <3>7. (m + 1) - 1 = m
      BY <3>5
    <3> QED
      BY <3>5, <3>6, <3>7
  <2> QED
    BY <2>1, <2>2
<1> QED
  BY <1>3, <1>4

\* The calls the decoder accepts are those of a well-formed stream.
LEMMA CallsAccepted ==
    ASSUME NEW d \in Decoders
    PROVE  Complete(d) /\ Parses(d) <=>
              /\ d.done
              /\ \A i \in d.entries :
                    /\ 0..i \subseteq d.entries
                    /\ \A field \in Fields : d.calls[i][field] # <<>>
                    /\ d.calls[i]["arguments"] \in Json
<1>1. d.entries \subseteq Indexes
  BY DEF Decoders
<1>2. d.entries = 0..(Cardinality(d.entries) - 1) <=> \A i \in d.entries : 0..i \subseteq d.entries
  BY <1>1, Numbered
<1> QED
  BY <1>2 DEF Complete, Filled, Parses

-----------------------------------------------------------------------------
(* The inductive invariant.                                                *)

TypeInv == TypeOK /\ decoder \in Decoders /\ preview \in Seq(Nat)

Before == {"unborn", "prepare", "spawn"}
Waiting == {"check", "pull", "wait"}

\* The guard owns the child from its start to its end, and has it killed only
\* before it is reaped.
ChildInv ==
    /\ ~stale
    /\ pc \in Before => child = "none" /\ ~guard /\ ~reaper
    /\ pc \in Waiting => guard /\ child \in {"running", "exited"} /\ ~reaper
    /\ pc = "parse" => ~guard /\ child = "reaped"
    /\ pc \in {"finished", "done"} => ~guard

\* The worker leaves the channel once it is empty and the reader has read curl's
\* whole output, and answers once.
FlowInv ==
    /\ task = "unborn" => pc = "unborn"
    /\ pc \in Before =>
          /\ sent = <<>> /\ got = 0 /\ queued = 0 /\ ~cut /\ reader = "none"
          /\ decoder = EmptyDecoder /\ preview = <<>>
    /\ Receiving /\ reader = "gone" => queued = Len(sent) /\ child # "running"
    /\ pc \in {"wait", "parse"} => got = queued /\ reader = "gone"
    /\ pc # "done" => slot = None /\ reply = None
    /\ pc # "finished" => result = None

\* How many frames have been dispatched: all that were taken from the channel, but
\* for a last one that lacks its blank line.
Dispatched == IF decoder.data = None THEN got ELSE got - 1

\* What the decoder holds is what the dispatched frames say.
Decoded(d, frames) ==
    /\ d.texts = TextOf(frames)
    /\ d.entries = EntriesOf(frames)
    /\ \A i \in Indexes, field \in Fields : d.calls[i][field] = PiecesOf(frames, i, field)
    /\ Shape(d, frames)

DecodeInv == Receiving =>
    /\ decoder.data # None =>
          cut /\ got > 0 /\ got = Len(sent) /\ decoder.data = sent[got] /\ ~decoder.done
    /\ preview = decoder.texts
    /\ Decoded(decoder, First(sent, Dispatched))

\* What was previewed is text of the stream, and all the text of a success.
GivenInv ==
    /\ IsPrefix(preview, TextOf(sent))
    /\ \A given \in {slot, reply, result} : given # None /\ given.ok => preview = given.texts

IndInv == TypeInv /\ ChildInv /\ FlowInv /\ DecodeInv /\ GivenInv

\* A decoder that has seen nothing is a decoder of no frames.
LEMMA EmptyDecoded ==
    /\ EmptyDecoder \in Decoders
    /\ Decoded(EmptyDecoder, <<>>)
<1>1. EmptyDecoder \in Decoders
  <2>1. <<>> \in Seq(Nat) /\ <<>> \in Strings
    BY DEF Strings
  <2>2. NoCall \in [Fields -> Strings]
    BY <2>1 DEF NoCall
  <2> QED
    BY <2>1, <2>2 DEF EmptyDecoder, Decoders
<1>2. Shape(EmptyDecoder, <<>>)
  BY DEF EmptyDecoder, Shape
<1>3. \A i \in Indexes, field \in Fields :
          EmptyDecoder.calls[i][field] = PiecesOf(<<>>, i, field)
  BY NothingSent DEF EmptyDecoder, NoCall
<1> QED
  BY <1>1, <1>2, <1>3, NothingSent DEF EmptyDecoder, Decoded

\* What the decoder holds stays true when it is left alone.
LEMMA SameDecoded ==
    ASSUME DecodeInv, UNCHANGED <<sent, cut, got, decoder, preview>>, Receiving' => Receiving
    PROVE  DecodeInv'
<1>1. Dispatched' = Dispatched
  BY DEF Dispatched
<1> QED
  BY <1>1 DEF DecodeInv

\* So does what was given, if nothing new is given but a failure.
LEMMA SameGiven ==
    ASSUME GivenInv, UNCHANGED <<sent, preview>>,
           {slot', reply', result'} \subseteq {slot, reply, result, None, Failure}
    PROVE  GivenInv'
<1>1. ~Failure.ok
  BY DEF Failure
<1>2. IsPrefix(preview', TextOf(sent'))
  BY DEF GivenInv
<1>3. ASSUME NEW given \in {slot', reply', result'}, given # None, given.ok
      PROVE  preview' = given.texts
  <2>1. given \in {slot, reply, result}
    BY <1>1, <1>3
  <2> QED
    BY <1>3, <2>1 DEF GivenInv
<1> QED
  BY <1>2, <1>3 DEF GivenInv

\* The initial state.
LEMMA InitIndInv == Init => IndInv
<1> SUFFICES ASSUME Init PROVE IndInv
  OBVIOUS
<1> USE DEF Init
<1>1. TypeInv
  <2>1. sent \in Seq(Frames) /\ preview \in Seq(Nat) /\ Len(sent) = 0
    OBVIOUS
  <2>2. 0 - 0 =< ChannelSize
    BY SizesAssumption
  <2>3. {slot, reply, result} \subseteq Results
    BY DEF Results
  <2>4. {cancelled, abandoned, late, guard, reaper, stale, cut} \subseteq BOOLEAN
    OBVIOUS
  <2>5. 0 \in 0..queued /\ 0 \in 0..Len(sent)
    BY <2>1
  <2>6. /\ task \in {"unborn", "runnable", "parked", "done", "dropped"}
        /\ waker \in BOOLEAN
        /\ pc \in {"unborn", "prepare", "spawn", "check", "pull", "wait", "parse", "finished", "done"}
        /\ child \in {"none", "running", "killed", "exited", "reaped"}
        /\ reader \in {"none", "reading", "gone"}
        /\ queued = 0 /\ got = 0 /\ decoder = EmptyDecoder
    OBVIOUS
  <2>7. TypeOK
    BY <2>1, <2>2, <2>3, <2>4, <2>5, <2>6 DEF TypeOK
  <2> QED
    BY <2>1, <2>6, <2>7, EmptyDecoded DEF TypeInv
<1>2. ChildInv
  BY DEF ChildInv, Before, Waiting
<1>3. FlowInv
  BY DEF FlowInv, Receiving
<1>4. DecodeInv
  BY DEF DecodeInv, Receiving
<1>5. GivenInv
  <2>1. IsPrefix(<<>>, <<>>)
    BY DEF IsPrefix
  <2> QED
    BY <2>1, NothingSent DEF GivenInv
<1> QED
  BY <1>1, <1>2, <1>3, <1>4, <1>5 DEF IndInv

\* The actions of the task and its control plane.
LEMMA FutureStep ==
    ASSUME IndInv, Start \/ Poll \/ DropFuture \/ Cancel \/ Expire
    PROVE  IndInv'
<1> USE DEF IndInv
<1>1. UNCHANGED <<childVars, streamVars, result, got, decoder, preview>>
  BY DEF Start, Poll, DropFuture, Cancel, Expire, workVars
<1>2. \/ pc' = pc /\ slot' \in {slot, None} /\ reply' \in {reply, slot}
      \/ pc = "unborn" /\ pc' \in {"prepare", "done"} /\ reply' = reply
         /\ slot' = (IF pc' = "done" THEN Failure ELSE slot) /\ task' # "unborn"
  <2>1. ASSUME Start
        PROVE  /\ pc = "unborn" /\ pc' \in {"prepare", "done"} /\ reply' = reply
               /\ slot' = (IF pc' = "done" THEN Failure ELSE slot) /\ task' # "unborn"
    BY <2>1 DEF Start, FlowInv
  <2>2. ASSUME Poll \/ DropFuture \/ Cancel \/ Expire
        PROVE  pc' = pc /\ slot' \in {slot, None} /\ reply' \in {reply, slot}
    BY <2>2 DEF Poll, DropFuture, Cancel, Expire, workVars, futureVars
  <2> QED
    BY <2>1, <2>2
<1>3. /\ task' \in {"unborn", "runnable", "parked", "done", "dropped"}
      /\ task' = "unborn" => task = "unborn"
      /\ waker' \in BOOLEAN /\ {cancelled', abandoned', late'} \subseteq BOOLEAN
  BY DEF Start, Poll, DropFuture, Cancel, Expire, futureVars, tokens, TypeInv, TypeOK
<1>4. TypeInv'
  <2>1. {slot', reply', result'} \subseteq Results
    BY <1>1, <1>2 DEF TypeInv, TypeOK, Results
  <2>2. pc' \in {"unborn", "prepare", "spawn", "check", "pull", "wait", "parse", "finished", "done"}
    BY <1>2 DEF TypeInv, TypeOK
  <2> QED
    BY <1>1, <1>3, <2>1, <2>2 DEF TypeInv, TypeOK, childVars, streamVars
<1>5. ChildInv'
  BY <1>1, <1>2 DEF ChildInv, Before, Waiting, childVars
<1>6. FlowInv'
  BY <1>1, <1>2, <1>3 DEF FlowInv, Before, Receiving, childVars, streamVars
<1>7. DecodeInv'
  BY <1>1, <1>2, SameDecoded DEF Receiving, streamVars
<1>8. GivenInv'
  BY <1>1, <1>2, SameGiven DEF streamVars
<1> QED
  BY <1>4, <1>5, <1>6, <1>7, <1>8

\* The reader, the reaper and curl.
LEMMA ProcessStep ==
    ASSUME IndInv, Read \/ Reap \/ Die \/ \E status \in {"success", "failure"} : CurlExits(status)
    PROVE  IndInv'
<1> USE DEF IndInv
<1>1. UNCHANGED <<futureVars, workVars, tokens, sent, cut, guard, stale>>
  BY DEF Read, Reap, Die, CurlExits, childVars, streamVars
<1>2. \/ UNCHANGED <<child, reaper>>
      \/ /\ UNCHANGED <<reader, queued>> /\ child # "none"
         /\ \/ reaper /\ child' = "reaped"
            \/ child = "killed" /\ child' = "exited" /\ reaper' = reaper
            \/ child = "running" /\ child' = "exited" /\ reaper' = reaper
  BY DEF Read, Reap, Die, CurlExits, childVars, streamVars
<1>3. /\ child' \in {"none", "running", "killed", "exited", "reaped"}
      /\ reaper' \in BOOLEAN /\ reader' \in {"none", "reading", "gone"}
      /\ reader = "none" => reader' = "none" /\ queued' = queued
      /\ child # "running" => child' # "running"
  BY DEF Read, Reap, Die, CurlExits, childVars, streamVars, TypeInv, TypeOK
<1>4. sent \in Seq(Frames) /\ Len(sent) \in Nat /\ got \in Nat /\ queued \in Nat
      /\ got =< queued /\ queued =< Len(sent) /\ queued - got =< ChannelSize
  BY DEF TypeInv, TypeOK
<1>5. /\ queued' \in Nat /\ got =< queued' /\ queued' =< Len(sent) /\ queued' - got =< ChannelSize
      /\ queued = Len(sent) => queued' = queued
  <2>1. queued' = queued \/ (queued' = queued + 1 /\ queued < Len(sent) /\ queued - got < ChannelSize)
    BY DEF Read, Reap, Die, CurlExits, streamVars
  <2> QED
    BY <1>4, <2>1, SizesAssumption
<1>6. Receiving /\ reader # "gone" /\ reader' = "gone" =>
          queued' = Len(sent) /\ child' # "running"
  <2>1. ASSUME Read, Receiving, reader # "gone", reader' = "gone"
        PROVE  queued' = queued /\ ~(queued < Len(sent)) /\ child \in {"exited", "reaped"}
               /\ child' = child
    BY <2>1 DEF Read, childVars
  <2>2. ASSUME ~Read PROVE reader' = reader
    BY <2>2 DEF Reap, Die, CurlExits, streamVars
  <2> QED
    BY <1>4, <2>1, <2>2
<1>7. TypeInv'
  <2>1. {cancelled', abandoned', late', guard', reaper', stale', cut'} \subseteq BOOLEAN
    BY <1>1, <1>3 DEF TypeInv, TypeOK, tokens
  <2>2. sent' \in Seq(Frames) /\ got' \in 0..queued' /\ queued' \in 0..Len(sent')
        /\ queued' - got' =< ChannelSize
    BY <1>1, <1>4, <1>5 DEF workVars
  <2> QED
    BY <1>1, <1>3, <2>1, <2>2 DEF TypeInv, TypeOK, futureVars, workVars
<1>8. ChildInv'
  BY <1>1, <1>2 DEF ChildInv, Before, Waiting, workVars
<1>9. FlowInv'
  <2>1. pc' = pc /\ (Receiving' <=> Receiving)
    BY <1>1 DEF workVars, Receiving
  <2>2. /\ task' = "unborn" => pc' = "unborn"
        /\ pc' # "done" => slot' = None /\ reply' = None
        /\ pc' # "finished" => result' = None
    BY <1>1, <2>1 DEF FlowInv, futureVars, workVars
  <2>3. pc' \in Before =>
          /\ sent' = <<>> /\ got' = 0 /\ queued' = 0 /\ ~cut' /\ reader' = "none"
          /\ decoder' = EmptyDecoder /\ preview' = <<>>
    BY <1>1, <1>3, <2>1 DEF FlowInv, workVars
  <2>4. Receiving' /\ reader' = "gone" => queued' = Len(sent') /\ child' # "running"
    BY <1>1, <1>3, <1>5, <1>6, <2>1 DEF FlowInv
  <2>5. pc' \in {"wait", "parse"} => got' = queued' /\ reader' = "gone"
    <3>1. ASSUME pc \in {"wait", "parse"}
          PROVE  Receiving /\ reader = "gone" /\ queued = Len(sent) /\ got = queued
      BY <3>1 DEF FlowInv, Receiving
    <3>2. reader = "gone" => reader' = "gone"
      BY DEF Read, Reap, Die, CurlExits, streamVars
    <3> QED
      BY <1>1, <1>5, <2>1, <3>1, <3>2 DEF workVars
  <2> QED
    BY <2>2, <2>3, <2>4, <2>5 DEF FlowInv
<1>10. DecodeInv'
  BY <1>1, SameDecoded DEF Receiving, workVars
<1>11. GivenInv'
  BY <1>1, SameGiven DEF futureVars, workVars
<1> QED
  BY <1>7, <1>8, <1>9, <1>10, <1>11

\* curl writes: what was dispatched, and its text, are where they were.
LEMMA WriteStep ==
    ASSUME IndInv, NEW frame \in Frames, NEW open \in BOOLEAN, CurlWrites(frame, open)
    PROVE  IndInv'
<1> USE DEF IndInv
<1>1. /\ UNCHANGED <<futureVars, childVars, workVars, tokens, reader, queued>>
      /\ child = "running" /\ ~cut /\ sent' = Append(sent, frame) /\ cut' = open
  BY DEF CurlWrites
<1>2. sent \in Seq(Frames) /\ Len(sent) \in Nat /\ got \in Nat /\ queued \in Nat
      /\ got =< queued /\ queued =< Len(sent) /\ queued - got =< ChannelSize
  BY DEF TypeInv, TypeOK
<1>3. sent' \in Seq(Frames) /\ Len(sent') = Len(sent) + 1
  BY <1>1, <1>2
<1>4. TypeInv'
  <2>1. {cancelled', abandoned', late', guard', reaper', stale', cut'} \subseteq BOOLEAN
    BY <1>1 DEF TypeInv, TypeOK, tokens, childVars
  <2>2. got' \in 0..queued' /\ queued' \in 0..Len(sent') /\ queued' - got' =< ChannelSize
    BY <1>1, <1>2, <1>3 DEF workVars
  <2> QED
    BY <1>1, <1>3, <2>1, <2>2 DEF TypeInv, TypeOK, futureVars, workVars, childVars
<1>5. ChildInv'
  BY <1>1 DEF ChildInv, Before, Waiting, workVars, childVars
<1>6. pc \notin Before /\ pc \notin {"wait", "parse"} /\ (Receiving => reader # "gone")
  BY <1>1 DEF ChildInv, FlowInv, Receiving
<1>7. FlowInv'
  BY <1>1, <1>6 DEF FlowInv, Receiving, Before, futureVars, workVars, childVars
<1>8. DecodeInv'
  <2>1. SUFFICES ASSUME Receiving' PROVE DecodeInv'
    BY DEF DecodeInv
  <2>2. Receiving /\ decoder' = decoder /\ got' = got /\ preview' = preview
    BY <1>1, <2>1 DEF Receiving, workVars
  <2>3. decoder.data = None /\ Dispatched = got /\ Dispatched' = got
    BY <1>1, <2>2 DEF DecodeInv, Dispatched
  <2>4. First(sent', got) = First(sent, got)
    <3>1. got \in 0..Len(sent)
      BY <1>2
    <3> QED
      BY <1>1, <1>2, <3>1, FirstFacts
  <2> QED
    BY <2>2, <2>3, <2>4 DEF DecodeInv
<1>9. GivenInv'
  <2> DEFINE text == TextOf(sent)
             more == TextOf(sent')
  <2>1. more = text \/ more = Append(text, Len(sent) + 1)
    BY <1>1, <1>2, TextAppend
  <2>2. text \in Seq(Nat) /\ more \in Seq(Nat) /\ preview \in Seq(Nat)
    BY <1>2, <1>3, TextType DEF TypeInv
  <2>3. IsPrefix(preview, text)
    BY DEF GivenInv
  <2> HIDE DEF text, more
  <2>4. Len(preview) =< Len(text) /\ \A i \in 1..Len(preview) : preview[i] = text[i]
    BY <2>2, <2>3, PrefixMeans
  <2>5. Len(preview) =< Len(more) /\ \A i \in 1..Len(preview) : preview[i] = more[i]
    <3>1. CASE more = text
      BY <2>4, <3>1
    <3>2. CASE more = Append(text, Len(sent) + 1)
      <4>1. Len(more) = Len(text) + 1 /\ \A i \in 1..Len(text) : more[i] = text[i]
        BY <1>2, <2>2, <3>2
      <4>2. Len(preview) \in Nat /\ Len(text) \in Nat
        BY <2>2
      <4> QED
        BY <2>4, <4>1, <4>2
    <3> QED
      BY <2>1, <3>1, <3>2
  <2>6. IsPrefix(preview, more)
    BY <2>2, <2>5, PrefixMeans
  <2> QED
    BY <1>1, <2>6 DEF GivenInv, futureVars, workVars, more
<1> QED
  BY <1>4, <1>5, <1>7, <1>8, <1>9

-----------------------------------------------------------------------------
(* The worker.                                                             *)

\* post_json_controlled returns, with a failure or with a success whose text is
\* what was previewed: it had not answered before, and signals a child it owns.
LEMMA ReturnStep ==
    ASSUME IndInv, pc \in {"prepare", "spawn", "check", "pull", "wait", "parse"},
           NEW value \in Results, value # None /\ value.ok => preview = value.texts,
           Return(value)
    PROVE  IndInv'
<1> USE DEF IndInv
<1>1. /\ pc' = "finished" /\ result' = value /\ decoder' = EmptyDecoder
      /\ UNCHANGED <<futureVars, streamVars, tokens, exit, got, preview>>
  BY DEF Return
<1>2. /\ guard' = FALSE /\ reaper' \in BOOLEAN /\ stale' = FALSE
      /\ child' \in {"none", "running", "killed", "exited", "reaped"}
  <2>1. guard => child # "reaped"
    BY DEF ChildInv, Before, Waiting, TypeInv, TypeOK
  <2>2. guard \in BOOLEAN /\ reaper \in BOOLEAN /\ stale = FALSE
    BY DEF ChildInv, TypeInv, TypeOK
  <2> QED
    BY <2>1, <2>2 DEF Return, TypeInv, TypeOK
<1>3. task # "unborn"
  BY DEF FlowInv
<1>4. TypeInv'
  <2>1. {slot', reply', result'} \subseteq Results
    BY <1>1 DEF TypeInv, TypeOK, futureVars
  <2>2. {cancelled', abandoned', late', guard', reaper', stale', cut'} \subseteq BOOLEAN
    BY <1>1, <1>2 DEF TypeInv, TypeOK, tokens, streamVars
  <2> QED
    BY <1>1, <1>2, <2>1, <2>2, EmptyDecoded DEF TypeInv, TypeOK, futureVars, streamVars
<1>5. ChildInv'
  BY <1>1, <1>2 DEF ChildInv, Before, Waiting
<1>6. FlowInv'
  BY <1>1, <1>3 DEF FlowInv, Before, Receiving, futureVars
<1>7. DecodeInv'
  BY <1>1 DEF DecodeInv, Receiving
<1>8. GivenInv'
  <2>1. \A given \in {slot, reply, value} : given # None /\ given.ok => preview = given.texts
    BY DEF GivenInv
  <2> QED
    BY <1>1, <2>1 DEF GivenInv, futureVars, streamVars
<1> QED
  BY <1>4, <1>5, <1>6, <1>7, <1>8

\* A failure can be returned anywhere.
LEMMA FailureStep ==
    ASSUME IndInv, pc \in {"prepare", "spawn", "check", "pull", "wait", "parse"}, Return(Failure)
    PROVE  IndInv'
<1>1. Failure \in Results /\ ~Failure.ok
  BY DEF Results, Failure
<1> QED
  BY <1>1, ReturnStep

\* The worker goes on to a place where the same is true.
LEMMA GotoStep ==
    ASSUME IndInv, NEW label, Goto(label),
           \/ pc = "prepare" /\ label = "spawn"
           \/ pc \in {"check", "pull"} /\ label \in {"check", "pull"}
           \/ pc = "pull" /\ label = "wait" /\ got = queued /\ reader = "gone"
    PROVE  IndInv'
<1> USE DEF IndInv
<1>1. /\ pc' = label
      /\ UNCHANGED <<futureVars, childVars, streamVars, tokens, result, got, decoder, preview>>
  BY DEF Goto
<1>2. TypeInv'
  BY <1>1 DEF TypeInv, TypeOK, futureVars, childVars, streamVars, tokens
<1>3. ChildInv'
  BY <1>1 DEF ChildInv, Before, Waiting, childVars
<1>4. FlowInv'
  BY <1>1 DEF FlowInv, Before, Receiving, futureVars, childVars, streamVars
<1>5. DecodeInv'
  <2>1. CASE pc = "prepare"
    BY <1>1, <2>1 DEF DecodeInv, Receiving
  <2>2. CASE pc # "prepare"
    BY <1>1, <2>2, SameDecoded DEF Receiving, streamVars
  <2> QED
    BY <2>1, <2>2
<1>6. GivenInv'
  BY <1>1, SameGiven DEF futureVars, streamVars
<1> QED
  BY <1>2, <1>3, <1>4, <1>5, <1>6

\* Prepare and Check.
LEMMA PrepareCheckStep ==
    ASSUME IndInv, Prepare \/ Check
    PROVE  IndInv'
<1>1. CASE Prepare
  BY <1>1, FailureStep, GotoStep DEF Prepare
<1>2. CASE Check
  BY <1>2, FailureStep, GotoStep DEF Check
<1> QED
  BY <1>1, <1>2

\* The child is started: nothing has been read or decoded yet.
LEMMA SpawnStep ==
    ASSUME IndInv, Spawn
    PROVE  IndInv'
<1>1. CASE Return(Failure)
  BY <1>1, FailureStep DEF Spawn
<1>2. CASE ~Return(Failure)
  <2> USE DEF IndInv
  <2>1. /\ pc = "spawn" /\ pc' = "check" /\ child' = "running" /\ guard' = TRUE
        /\ reader' = "reading"
        /\ UNCHANGED <<futureVars, tokens, exit, reaper, stale, sent, cut, queued,
                       result, got, decoder, preview>>
    BY <1>2 DEF Spawn
  <2>2. /\ sent = <<>> /\ got = 0 /\ queued = 0 /\ decoder = EmptyDecoder /\ preview = <<>>
        /\ slot = None /\ reply = None /\ result = None /\ task # "unborn"
    BY <2>1 DEF FlowInv, Before
  <2>3. TypeInv'
    BY <2>1 DEF TypeInv, TypeOK, futureVars, tokens
  <2>4. ChildInv'
    BY <2>1 DEF ChildInv, Before, Waiting
  <2>5. FlowInv'
    BY <2>1, <2>2 DEF FlowInv, Before, futureVars
  <2>6. DecodeInv'
    <3>1. First(<<>>, 0) = <<>>
      BY DEF First
    <3>2. EmptyDecoder.data = None /\ EmptyDecoder.texts = <<>>
      BY DEF EmptyDecoder
    <3>3. Dispatched' = 0
      BY <2>1, <2>2, <3>2 DEF Dispatched
    <3> QED
      BY <2>1, <2>2, <3>1, <3>2, <3>3, EmptyDecoded DEF DecodeInv
  <2>7. GivenInv'
    BY <2>1, SameGiven DEF futureVars
  <2> QED
    BY <2>3, <2>4, <2>5, <2>6, <2>7
<1> QED
  BY <1>1, <1>2

\* The loop that waits for the exit.
LEMMA WaitStep ==
    ASSUME IndInv, Wait
    PROVE  IndInv'
<1>1. CASE Return(Failure)
  BY <1>1, FailureStep DEF Wait
<1>2. CASE UNCHANGED vars
  <2>1. UNCHANGED <<task, waker, slot, reply, cancelled, abandoned, late, pc, result, child, exit,
                    guard, reaper, stale, sent, cut, reader, queued, got, decoder, preview>>
    BY <1>2 DEF vars, futureVars, childVars, streamVars, workVars, tokens
  <2> QED
    BY <2>1 DEF IndInv, TypeInv, TypeOK, ChildInv, FlowInv, DecodeInv, GivenInv, Receiving,
                Dispatched
<1>3. CASE ~Return(Failure) /\ ~UNCHANGED vars
  <2> USE DEF IndInv
  <2>1. /\ pc = "wait" /\ pc' = "parse" /\ child' = "reaped" /\ guard' = FALSE
        /\ UNCHANGED <<futureVars, streamVars, tokens, exit, reaper, stale,
                       result, got, decoder, preview>>
    BY <1>3 DEF Wait, Reaped
  <2>2. TypeInv'
    BY <2>1 DEF TypeInv, TypeOK, futureVars, streamVars, tokens
  <2>3. ChildInv'
    BY <2>1 DEF ChildInv, Before, Waiting
  <2>4. FlowInv'
    BY <2>1 DEF FlowInv, Before, Receiving, futureVars, streamVars
  <2>5. DecodeInv'
    BY <2>1, SameDecoded DEF Receiving, streamVars
  <2>6. GivenInv'
    BY <2>1, SameGiven DEF futureVars, streamVars
  <2> QED
    BY <2>2, <2>3, <2>4, <2>5, <2>6
<1> QED
  BY <1>1, <1>2, <1>3

\* The result, or the failure of an observer that panics, is stored.
LEMMA StoreStep ==
    ASSUME IndInv, Store
    PROVE  IndInv'
<1> USE DEF IndInv
<1>1. /\ pc = "finished" /\ pc' = "done" /\ slot' \in {result, Failure} /\ result' = None
      /\ UNCHANGED <<reply, childVars, streamVars, tokens, got, decoder, preview>>
  BY DEF Store
<1>2. /\ task' \in {"unborn", "runnable", "parked", "done", "dropped"}
      /\ waker' \in BOOLEAN /\ task' # "unborn"
  BY <1>1 DEF Store, TypeInv, TypeOK, FlowInv
<1>3. TypeInv'
  <2>1. {slot', reply', result'} \subseteq Results
    BY <1>1 DEF TypeInv, TypeOK, Results
  <2> QED
    BY <1>1, <1>2, <2>1 DEF TypeInv, TypeOK, childVars, streamVars, tokens
<1>4. ChildInv'
  BY <1>1 DEF ChildInv, Before, Waiting, childVars
<1>5. FlowInv'
  BY <1>1, <1>2 DEF FlowInv, Before, Receiving
<1>6. DecodeInv'
  BY <1>1 DEF DecodeInv, Receiving
<1>7. GivenInv'
  BY <1>1, SameGiven DEF streamVars
<1> QED
  BY <1>3, <1>4, <1>5, <1>6, <1>7

\* Taking one frame more keeps what the decoder holds true.
LEMMA DecodedMore ==
    ASSUME NEW d \in Decoders, NEW frames \in Seq(Frames), NEW f \in Frames,
           Decoded(d, frames), ~d.done, ~DispatchRefused(d, f)
    PROVE  LET next == Dispatch(d, f, Len(frames) + 1)
           IN  /\ next \in Decoders /\ next.data = None
               /\ next.texts = IF f.text THEN Append(d.texts, Len(frames) + 1) ELSE d.texts
               /\ Decoded(next, Append(frames, f))
<1> DEFINE p == Len(frames) + 1
           next == Dispatch(d, f, p)
<1>1. p \in Nat
  OBVIOUS
<1>2. Shape(next, Append(frames, f))
  BY <1>1, DispatchShape DEF Decoded
<1>3. /\ next \in Decoders /\ next.data = None
      /\ next.texts = IF f.text THEN Append(d.texts, p) ELSE d.texts
      /\ next.entries = d.entries \cup EntriesIn(f.frags)
      /\ \A i \in Indexes, field \in Fields :
            next.calls[i][field] = d.calls[i][field] \o PiecesIn(f.frags, i, field)
  <2> HIDE DEF p
  <2> QED
    BY <1>1, DispatchAdds
<1> HIDE DEF next
<1>4. next.texts = TextOf(Append(frames, f))
  BY <1>3, TextAppend DEF Decoded
<1>5. /\ next.entries = EntriesOf(Append(frames, f))
      /\ \A i \in Indexes, field \in Fields :
            next.calls[i][field] = PiecesOf(Append(frames, f), i, field)
  <2>1. next.entries = EntriesOf(Append(frames, f))
    BY <1>3, EntriesAppend DEF Decoded
  <2>2. ASSUME NEW i \in Indexes, NEW field \in Fields
        PROVE  next.calls[i][field] = PiecesOf(Append(frames, f), i, field)
    <3>1. next.calls[i][field] = d.calls[i][field] \o PiecesIn(f.frags, i, field)
      BY <1>3
    <3>2. d.calls[i][field] = PiecesOf(frames, i, field)
      BY DEF Decoded
    <3>3. PiecesOf(Append(frames, f), i, field) =
              PiecesOf(frames, i, field) \o PiecesIn(f.frags, i, field)
      BY PiecesAppend
    <3> QED
      BY <3>1, <3>2, <3>3
  <2> QED
    BY <2>1, <2>2
<1>6. Decoded(next, Append(frames, f))
  BY <1>2, <1>4, <1>5 DEF Decoded
<1> QED
  BY <1>3, <1>6 DEF next

\* A frame is taken from the channel and decoded.
LEMMA PullFrame ==
    ASSUME IndInv, pc = "pull", got < queued, Pull, ~Return(Failure)
    PROVE  IndInv'
<1> USE DEF IndInv
<1> DEFINE position == got + 1
           frame == sent[position]
           open == cut /\ position = Len(sent)
<1>1. /\ ~decoder.done /\ pc' = "check" /\ got' = position
      /\ open \/ ~DispatchRefused(decoder, frame)
      /\ decoder' = IF open THEN [decoder EXCEPT !.data = frame]
                    ELSE Dispatch(decoder, frame, position)
      /\ preview' = IF ~open /\ frame.text THEN Append(preview, position) ELSE preview
      /\ UNCHANGED <<futureVars, childVars, streamVars, tokens, result>>
  BY DEF Pull, LineRefused
<1>2. /\ sent \in Seq(Frames) /\ Len(sent) \in Nat /\ got \in Nat /\ queued \in Nat
      /\ queued =< Len(sent) /\ queued - got =< ChannelSize
      /\ decoder \in Decoders /\ preview \in Seq(Nat)
  BY DEF TypeInv, TypeOK
<1>3. /\ position \in Nat /\ position \in 1..Len(sent) /\ position =< queued /\ frame \in Frames
      /\ got \in 0..Len(sent) /\ got < Len(sent) /\ queued - position =< ChannelSize
  BY <1>2, SizesAssumption
<1>4. Receiving
  BY DEF Receiving
<1>5. decoder.data = None /\ Dispatched = got
  BY <1>3, <1>4 DEF DecodeInv, Dispatched
<1>6. preview = decoder.texts /\ Decoded(decoder, First(sent, got))
  BY <1>4, <1>5 DEF DecodeInv
<1>7. /\ First(sent, got) \in Seq(Frames) /\ Len(First(sent, got)) = got
      /\ First(sent, position) = Append(First(sent, got), frame)
  BY <1>2, <1>3, FirstFacts
<1> HIDE DEF position, frame, open
<1>8. /\ decoder' \in Decoders /\ preview' = decoder'.texts
      /\ decoder'.data # None => open /\ decoder'.data = frame /\ ~decoder'.done
      /\ Decoded(decoder', First(sent, IF decoder'.data = None THEN position ELSE position - 1))
  <2>1. CASE open
    <3>1. decoder' = [decoder EXCEPT !.data = frame] /\ preview' = preview
      BY <1>1, <2>1
    <3>2. /\ decoder' \in Decoders /\ decoder'.data = frame
          /\ decoder'.texts = decoder.texts /\ decoder'.calls = decoder.calls
          /\ decoder'.entries = decoder.entries
          /\ decoder'.finish = decoder.finish /\ decoder'.done = decoder.done
      BY <1>2, <1>3, <3>1 DEF Decoders
    <3>3. Decoded(decoder', First(sent, got))
      BY <1>6, <3>2 DEF Decoded, Shape
    <3>4. frame # None
      BY <1>3, FrameFacts
    <3>5. position - 1 = got
      BY <1>2 DEF position
    <3> QED
      BY <1>1, <1>6, <2>1, <3>1, <3>2, <3>3, <3>4, <3>5
  <2>2. CASE ~open
    <3>1. /\ decoder' = Dispatch(decoder, frame, position) /\ ~DispatchRefused(decoder, frame)
          /\ preview' = IF frame.text THEN Append(preview, position) ELSE preview
      BY <1>1, <2>2
    <3>2. position = Len(First(sent, got)) + 1
      BY <1>7 DEF position
    <3>3. /\ decoder' \in Decoders /\ decoder'.data = None
          /\ decoder'.texts = IF frame.text THEN Append(decoder.texts, position)
                              ELSE decoder.texts
          /\ Decoded(decoder', First(sent, position))
      <4> DEFINE frames == First(sent, got)
      <4>1. /\ frames \in Seq(Frames) /\ Decoded(decoder, frames) /\ position = Len(frames) + 1
            /\ First(sent, position) = Append(frames, frame)
        BY <1>6, <1>7, <3>2
      <4> HIDE DEF frames
      <4>2. /\ Dispatch(decoder, frame, position) \in Decoders
            /\ Dispatch(decoder, frame, position).data = None
            /\ Dispatch(decoder, frame, position).texts =
                   IF frame.text THEN Append(decoder.texts, position) ELSE decoder.texts
            /\ Decoded(Dispatch(decoder, frame, position), Append(frames, frame))
        BY <1>1, <1>2, <1>3, <3>1, <4>1, DecodedMore
      <4> QED
        BY <3>1, <4>1, <4>2
    <3> QED
      BY <1>6, <3>1, <3>3
  <2> QED
    BY <2>1, <2>2
<1>9. preview' \in Seq(Nat)
  BY <1>8 DEF Decoders
<1>10. TypeInv'
  <2>1. got' \in 0..queued' /\ queued' - got' =< ChannelSize /\ queued' \in 0..Len(sent')
    BY <1>1, <1>2, <1>3 DEF streamVars
  <2> QED
    BY <1>1, <1>8, <1>9, <2>1 DEF TypeInv, TypeOK, futureVars, childVars, streamVars, tokens
<1>11. ChildInv'
  BY <1>1 DEF ChildInv, Before, Waiting, childVars
<1>12. FlowInv'
  BY <1>1 DEF FlowInv, Before, Receiving, futureVars, childVars, streamVars
<1>13. DecodeInv'
  <2>1. Dispatched' = IF decoder'.data = None THEN position ELSE position - 1
    BY <1>1 DEF Dispatched
  <2>2. sent' = sent /\ cut' = cut /\ got' = position /\ position > 0
    BY <1>1, <1>3 DEF streamVars
  <2>3. decoder'.data # None => cut' /\ got' > 0 /\ got' = Len(sent') /\ decoder'.data = sent'[got']
    BY <1>8, <2>2 DEF open, frame
  <2> QED
    BY <1>8, <2>1, <2>2, <2>3 DEF DecodeInv
<1>14. GivenInv'
  <2>1. slot' = None /\ reply' = None /\ result' = None /\ sent' = sent
    BY <1>1 DEF FlowInv, futureVars, streamVars
  <2> DEFINE n == IF decoder'.data = None THEN position ELSE position - 1
  <2>2. n \in 0..Len(sent) /\ preview' = TextOf(First(sent, n))
    BY <1>3, <1>8 DEF Decoded
  <2> HIDE DEF n
  <2>3. IsPrefix(preview', TextOf(sent))
    BY <1>2, <2>2, TextPrefix
  <2> QED
    BY <2>1, <2>3 DEF GivenInv
<1> QED
  BY <1>10, <1>11, <1>12, <1>13, <1>14

\* recv_timeout and what follows it.
LEMMA PullStep ==
    ASSUME IndInv, Pull
    PROVE  IndInv'
<1>1. pc = "pull"
  BY DEF Pull
<1>2. CASE Return(Failure)
  BY <1>1, <1>2, FailureStep
<1>3. CASE got < queued /\ ~Return(Failure)
  BY <1>1, <1>3, PullFrame
<1>4. CASE ~(got < queued)
  <2>1. got = queued
    BY <1>4 DEF IndInv, TypeInv, TypeOK
  <2>2. (Goto("wait") /\ reader = "gone") \/ Goto("check")
    BY <1>4 DEF Pull
  <2> QED
    BY <1>1, <2>1, <2>2, GotoStep
<1> QED
  BY <1>2, <1>3, <1>4

\* At the end of the body, the decoder accepts the stream exactly if it is well formed,
\* and its text is what was previewed.
LEMMA AnswerExact ==
    ASSUME IndInv, pc = "parse"
    PROVE  /\ Answer(decoder) \in Results
           /\ Answer(decoder).ok = WellFormed(sent)
           /\ Answer(decoder).ok =>
                 /\ Answer(decoder).texts = TextOf(sent)
                 /\ Answer(decoder).texts = preview
                 /\ Answer(decoder).entries = EntriesOf(sent)
                 /\ \A i \in Indexes, field \in Fields :
                       Answer(decoder).calls[i][field] = PiecesOf(sent, i, field)
<1> USE DEF IndInv
<1> DEFINE data == decoder.data
           N == Len(sent)
           last == IF data = None THEN decoder ELSE Dispatch(decoder, data, N)
<1>1. /\ sent \in Seq(Frames) /\ N \in Nat /\ decoder \in Decoders
      /\ got = N
  BY DEF TypeInv, TypeOK, FlowInv, Receiving
<1>2. Receiving
  BY DEF Receiving
<1>3. ASSUME NEW d \in Decoders, Decoded(d, sent), d.done => d.texts = preview
      PROVE  LET answer == IF Complete(d) /\ Parses(d) THEN Success(d) ELSE Failure
             IN  /\ answer \in Results
                 /\ answer.ok = WellFormed(sent)
                 /\ answer.ok => /\ answer.texts = TextOf(sent) /\ answer.texts = preview
                                 /\ answer.entries = EntriesOf(sent)
                                 /\ \A i \in Indexes, field \in Fields :
                                       answer.calls[i][field] = PiecesOf(sent, i, field)
  <2>1. Complete(d) /\ Parses(d) <=> WellFormed(sent)
    <3>1. d.done <=> Ended(sent)
      BY <1>1, <1>3, DoneShape DEF Decoded
    <3>2. d.entries = EntriesOf(sent) /\ d.entries \subseteq Indexes
      BY <1>3 DEF Decoded, Decoders
    <3>3. ASSUME NEW i \in d.entries
          PROVE  /\ d.calls[i]["arguments"] = PiecesOf(sent, i, "arguments")
                 /\ \A field \in Fields : d.calls[i][field] = PiecesOf(sent, i, field)
      BY <1>3, <3>2 DEF Decoded, Fields
    <3> QED
      BY <3>1, <3>2, <3>3, CallsAccepted DEF WellFormed
  <2>2. CASE Complete(d) /\ Parses(d)
    <3>1. d.done
      BY <2>2 DEF Complete
    <3>2. /\ Success(d).ok = TRUE /\ Success(d).texts = d.texts /\ Success(d).calls = d.calls
          /\ Success(d).entries = d.entries
      BY DEF Success
    <3>3. Success(d) \in Results
      BY <1>3 DEF Success, Results, Decoders
    <3>4. WellFormed(sent) = TRUE
      BY <2>1, <2>2 DEF WellFormed
    <3> QED
      BY <1>3, <2>2, <3>1, <3>2, <3>3, <3>4 DEF Decoded
  <2>3. CASE ~(Complete(d) /\ Parses(d))
    <3>1. Failure \in Results /\ Failure.ok = FALSE
      BY DEF Failure, Results
    <3>2. WellFormed(sent) = FALSE
      BY <2>1, <2>3 DEF WellFormed
    <3> QED
      BY <2>3, <3>1, <3>2
  <2> QED
    BY <2>2, <2>3
<1>4. CASE data = None
  <2>1. Dispatched = N /\ First(sent, N) = sent
    <3>1. N \in 0..Len(sent)
      BY <1>1
    <3> QED
      BY <1>1, <1>4, <3>1, FirstFacts DEF Dispatched
  <2>2. Decoded(decoder, sent) /\ decoder.texts = preview
    BY <1>2, <2>1 DEF DecodeInv
  <2>3. Answer(decoder) = IF Complete(decoder) /\ Parses(decoder) THEN Success(decoder) ELSE Failure
    BY <1>4 DEF Answer
  <2> QED
    BY <1>1, <1>3, <2>2, <2>3
<1>5. CASE data # None
  <2> DEFINE n == N - 1
             frames == First(sent, n)
  <2>1. /\ N > 0 /\ data = sent[N] /\ ~decoder.done /\ preview = decoder.texts
        /\ Dispatched = n /\ Decoded(decoder, frames)
    BY <1>1, <1>2, <1>5 DEF DecodeInv, Dispatched
  <2>2. n \in Nat /\ n \in 0..Len(sent) /\ n < Len(sent) /\ n + 1 = N /\ data \in Frames
    BY <1>1, <2>1
  <2>3. frames \in Seq(Frames) /\ Len(frames) = n /\ sent = Append(frames, data)
    <3>1. /\ First(sent, n) \in Seq(Frames) /\ Len(First(sent, n)) = n
          /\ First(sent, n + 1) = Append(First(sent, n), sent[n + 1])
      BY <1>1, <2>2, FirstFacts
    <3>2. First(sent, N) = sent
      <4>1. N \in 0..Len(sent)
        BY <1>1
      <4> QED
        BY <1>1, <4>1, FirstFacts
    <3> HIDE DEF n
    <3> QED
      BY <2>1, <2>2, <3>1, <3>2
  <2> HIDE DEF frames
  <2>4. CASE DispatchRefused(decoder, data)
    <3>1. Answer(decoder) = Failure
      BY <1>5, <2>4 DEF Answer
    <3>2. ~WellFormed(sent)
      BY <1>1, <2>1, <2>2, <2>3, <2>4, RefusedShape DEF WellFormed, Decoded
    <3>3. Failure \in Results /\ Failure.ok = FALSE
      BY DEF Failure, Results
    <3>4. WellFormed(sent) = FALSE
      BY <3>2 DEF WellFormed
    <3> QED
      BY <3>1, <3>3, <3>4
  <2>5. CASE ~DispatchRefused(decoder, data)
    <3>1. N = Len(frames) + 1
      BY <2>2, <2>3
    <3>2. /\ last \in Decoders /\ Decoded(last, sent)
          /\ last.texts = IF data.text THEN Append(decoder.texts, N) ELSE decoder.texts
      <4> HIDE DEF N, n, data
      <4> QED
        BY <1>1, <1>5, <2>1, <2>2, <2>3, <2>5, <3>1, DecodedMore
    <3>3. last.done => ~data.text
      <4>1. last = Dispatch(decoder, data, N)
        BY <1>5
      <4>2. data.type = "choice" => last.done = decoder.done
        BY <1>1, <4>1 DEF Dispatch, Decoders
      <4>3. data.type # "choice" => ~data.text
        BY <2>2, FrameFacts
      <4> QED
        BY <2>1, <4>2, <4>3
    <3>4. Answer(decoder) = IF Complete(last) /\ Parses(last) THEN Success(last) ELSE Failure
      BY <1>5, <2>5 DEF Answer
    <3> HIDE DEF last
    <3>5. last.done => last.texts = preview
      BY <2>1, <3>2, <3>3
    <3> QED
      BY <1>3, <3>2, <3>4, <3>5
  <2> QED
    BY <2>4, <2>5
<1> QED
  BY <1>4, <1>5

\* The body is parsed and the answer returned.
LEMMA ParseStep ==
    ASSUME IndInv, Parse
    PROVE  IndInv'
<1>1. pc = "parse"
  BY DEF Parse
<1>2. CASE exit = "success"
  BY <1>1, <1>2, AnswerExact, ReturnStep DEF Parse
<1>3. CASE exit # "success"
  BY <1>1, <1>3, FailureStep DEF Parse
<1> QED
  BY <1>2, <1>3

\* Every step keeps the invariant.
LEMMA StepIndInv == IndInv /\ [Next]_vars => IndInv'
<1> SUFFICES ASSUME IndInv, [Next]_vars PROVE IndInv'
  OBVIOUS
<1>1. CASE UNCHANGED vars
  <2>1. UNCHANGED <<task, waker, slot, reply, cancelled, abandoned, late, pc, result, child, exit,
                    guard, reaper, stale, sent, cut, reader, queued, got, decoder, preview>>
    BY <1>1 DEF vars, futureVars, childVars, streamVars, workVars, tokens
  <2> QED
    BY <2>1 DEF IndInv, TypeInv, TypeOK, ChildInv, FlowInv, DecodeInv, GivenInv, Receiving,
                Dispatched
<1>2. CASE Start \/ Poll \/ DropFuture \/ Cancel \/ Expire
  BY <1>2, FutureStep
<1>3. CASE WorkerStep
  BY <1>3, PrepareCheckStep, SpawnStep, PullStep, WaitStep, ParseStep, StoreStep DEF WorkerStep
<1>4. CASE Read \/ Reap \/ Die \/ \E status \in {"success", "failure"} : CurlExits(status)
  BY <1>4, ProcessStep
<1>5. CASE \E frame \in Frames, open \in BOOLEAN : CurlWrites(frame, open)
  BY <1>5, WriteStep
<1> QED
  BY <1>1, <1>2, <1>3, <1>4, <1>5 DEF Next

(***************************************************************************)
(* The provider answers with a success exactly for the streams that are    *)
(* whole, with all their text and calls, and whatever curl, the reader and *)
(* the worker do in between, the text previewed is the stream's (Decoder   *)
(* of stream.rs, post_json_controlled of transport.rs).                    *)
(***************************************************************************)
THEOREM OnlyCompleteHolds == Spec => []OnlyComplete
<1>1. IndInv => OnlyComplete
  <2> SUFFICES ASSUME IndInv PROVE OnlyComplete
    OBVIOUS
  <2>1. /\ IsPrefix(preview, TextOf(sent))
        /\ \A given \in {slot, reply} : given # None /\ given.ok => preview = given.texts
    BY DEF IndInv, GivenInv
  <2>2. pc = "parse" /\ exit = "success" =>
          /\ Answer(decoder).ok = WellFormed(sent)
          /\ Answer(decoder).ok =>
                /\ Answer(decoder).texts = TextOf(sent)
                /\ Answer(decoder).entries = EntriesOf(sent)
                /\ \A i \in Indexes, field \in Fields :
                      Answer(decoder).calls[i][field] = PiecesOf(sent, i, field)
    BY AnswerExact
  <2> QED
    BY <2>1, <2>2 DEF OnlyComplete
<1> QED
  BY InitIndInv, StepIndInv, <1>1, PTL DEF Spec

(***************************************************************************)
(* The process group of curl is never signalled once its leader has been   *)
(* reaped (ChildGuard of transport.rs).                                    *)
(***************************************************************************)
THEOREM NoStaleSignalHolds == Spec => []NoStaleSignal
<1>1. IndInv => NoStaleSignal
  BY DEF IndInv, ChildInv, NoStaleSignal
<1> QED
  BY InitIndInv, StepIndInv, <1>1, PTL DEF Spec
=============================================================================
