--------------------------- MODULE RecorderProofs ---------------------------
(***************************************************************************)
(* What a recording holds and what its cast says, for every script of the  *)
(* program and the person and every recording: any number of events, cut   *)
(* anywhere.                                                               *)
(*                                                                         *)
(* The operators of Asciicast are recursive functions over sequences, and  *)
(* a theorem about them needs induction.  Here that is a fact about sets:  *)
(* every nonempty set of numbers has a least one (LeastOf), so what holds  *)
(* at zero and goes on holding holds all the way (AllTheWay).  From it:    *)
(* what is defined by recursion is there and is one (RecursionExists,      *)
(* OnlyOne), so each operator obeys the equations it was defined by.       *)
(*                                                                         *)
(* The decoder is the heart of the rest: what it holds is whether the      *)
(* bytes so far end in a first half (EndsHeld), and each byte adds to the  *)
(* text of all of them exactly what it tells (WholeTextAppend).  A turn of *)
(* the loop keeps that for the one decoder it uses and for the other,      *)
(* whose direction it leaves alone (LineTells).                            *)
(***************************************************************************)
EXTENDS Recorder, SequenceTheorems, WellFoundedInduction, TLAPS

-----------------------------------------------------------------------------
(* Induction, as a fact about sets.                                        *)

\* Every nonempty set of numbers has a least one.
LEMMA LeastOf ==
  ASSUME NEW T \in SUBSET Nat, T # {}
  PROVE  \E x \in T : \A y \in T : x <= y
<1> DEFINE R == OpToRel(<, Nat)
<1>1. IsWellFoundedOn(R, Nat)
  BY NatLessThanWellFounded
<1>2. \A x, y \in Nat : y < x => <<y, x>> \in R
  BY DEF OpToRel
<1>3. PICK x \in T : \A y \in T : ~ (<<y, x>> \in R)
  <2> HIDE DEF R
  <2> QED BY <1>1, WFMin, Zenon
<1>4. \A y \in T : x \in Nat /\ y \in Nat /\ ~ (y < x)
  <2> HIDE DEF R
  <2> QED BY <1>2, <1>3
<1>5. \A y \in T : x <= y
  <2> HIDE DEF R
  <2> QED BY <1>4
<1> QED BY <1>5, Zenon

\* What holds at zero, and at each number behind one where it holds, holds
\* all the way.
LEMMA AllTheWay ==
  ASSUME NEW N \in Nat, NEW T, 0 \in T,
         \A n \in 1..N : n - 1 \in T => n \in T
  PROVE  \A n \in 0..N : n \in T
<1> SUFFICES ASSUME NEW m \in 0..N, m \notin T PROVE FALSE
  OBVIOUS
<1> DEFINE U == {n \in 0..N : n \notin T}
<1>1. U \in SUBSET Nat /\ U # {}
  OBVIOUS
<1>2. PICK x \in U : \A y \in U : x <= y
  <2> HIDE DEF U
  <2> QED BY <1>1, LeastOf, Zenon
<1>3. x \in 1..N /\ x - 1 \in 0..N
  BY <1>2
<1>4. x - 1 \in T
  BY <1>2, <1>3
<1> QED BY <1>2, <1>3, <1>4

\* f[n] is what b and the first n of s come to, one at a time.
Accumulates(f, V, b, g, s) ==
  /\ f \in [0..Len(s) -> V] /\ f[0] = b
  /\ \A n \in 1..Len(s) : f[n] = g[<<f[n - 1], s[n]>>]

\* What is defined by recursion over a sequence is there.
LEMMA RecursionExists ==
  ASSUME NEW V, NEW b \in V, NEW E, NEW s \in Seq(E), NEW g \in [V \X E -> V]
  PROVE  \E f : Accumulates(f, V, b, g, s)
<1> DEFINE Upto(m) == {f \in [0..m -> V] :
                         /\ f[0] = b
                         /\ \A n \in 1..m : f[n] = g[<<f[n - 1], s[n]>>]}
           T == {m \in 0..Len(s) : Upto(m) # {}}
<1>1. Len(s) \in Nat
  BY LenProperties
<1>2. 0 \in T
  <2>1. [k \in 0..0 |-> b] \in Upto(0)
    BY <1>1
  <2> QED BY <1>1, <2>1
<1>3. ASSUME NEW n \in 1..Len(s), n - 1 \in T PROVE n \in T
  <2>1. PICK f : f \in Upto(n - 1)
    BY <1>3
  <2>2. s[n] \in E
    BY ElementOfSeq
  <2>3. n - 1 \in Nat /\ f \in [0..(n - 1) -> V] /\ f[n - 1] \in V
    BY <1>1, <2>1
  <2>4. g[<<f[n - 1], s[n]>>] \in V
    <3>1. <<f[n - 1], s[n]>> \in V \X E
      BY <2>2, <2>3
    <3> QED BY <3>1
  <2> DEFINE h == [k \in 0..n |-> IF k = n THEN g[<<f[n - 1], s[n]>>] ELSE f[k]]
  <2>5. h \in [0..n -> V]
    BY <1>1, <2>3, <2>4
  <2>6. h[0] = b
    BY <1>1, <2>1
  <2>7. ASSUME NEW k \in 1..n PROVE h[k] = g[<<h[k - 1], s[k]>>]
    <3>1. CASE k = n
      <4>1. k \in 0..n /\ k - 1 \in 0..n /\ k - 1 # n
        BY <1>1, <3>1
      <4>2. h[k] = g[<<f[n - 1], s[n]>>] /\ h[k - 1] = f[n - 1]
        BY <3>1, <4>1
      <4> QED BY <3>1, <4>2
    <3>2. CASE k # n
      <4>1. k \in 1..(n - 1) /\ k \in 0..n /\ k - 1 \in 0..n /\ k # n /\ k - 1 # n
        BY <1>1, <3>2
      <4>2. h[k] = f[k] /\ h[k - 1] = f[k - 1]
        BY <4>1
      <4> QED BY <2>1, <4>1, <4>2
    <3> QED BY <3>1, <3>2
  <2>8. h \in Upto(n)
    BY <2>5, <2>6, <2>7
  <2>9. n \in 0..Len(s) /\ Upto(n) # {}
    <3> HIDE DEF h, Upto
    <3> QED BY <1>1, <2>8
  <2> QED BY <2>9
<1>4. \A n \in 0..Len(s) : n \in T
  <2> HIDE DEF T
  <2> QED BY <1>1, <1>2, <1>3, AllTheWay
<1>5. Len(s) \in T
  BY <1>1, <1>4
<1> QED BY <1>5 DEF Accumulates

\* h begins like that, and goes on like that where it is typed.
Follows(h, V, b, g, s) ==
  /\ h = [n \in 0..Len(s) |-> h[n]] /\ h[0] = b
  /\ \A n \in 1..Len(s) : h[n - 1] \in V => h[n] = g[<<h[n - 1], s[n]>>]

\* There is only one.
LEMMA OnlyOne ==
  ASSUME NEW V, NEW b, NEW g, NEW E, NEW s \in Seq(E),
         NEW f, Accumulates(f, V, b, g, s),
         NEW h, Follows(h, V, b, g, s)
  PROVE  h = f
<1> DEFINE T == {n \in 0..Len(s) : h[n] = f[n]}
<1>1. Len(s) \in Nat /\ f \in [0..Len(s) -> V]
  BY LenProperties DEF Accumulates
<1>2. 0 \in T
  BY <1>1 DEF Accumulates, Follows
<1>3. ASSUME NEW n \in 1..Len(s), n - 1 \in T PROVE n \in T
  <2>1. h[n - 1] = f[n - 1] /\ n - 1 \in 0..Len(s) /\ n \in 0..Len(s)
    BY <1>1, <1>3
  <2>2. h[n - 1] \in V
    BY <1>1, <2>1
  <2>3. h[n] = g[<<h[n - 1], s[n]>>]
    BY <2>2, Zenon DEF Follows
  <2>4. f[n] = g[<<f[n - 1], s[n]>>]
    BY Zenon DEF Accumulates
  <2>5. h[n] = f[n]
    BY <2>1, <2>3, <2>4, Zenon
  <2> QED BY <2>1, <2>5, Zenon
<1>4. \A n \in 0..Len(s) : n \in T
  <2> HIDE DEF T
  <2> QED BY <1>1, <1>2, <1>3, AllTheWay
<1>5. f = [n \in 0..Len(s) |-> f[n]] /\ \A n \in 0..Len(s) : h[n] = f[n]
  BY <1>1, <1>4
<1>6. [n \in 0..Len(s) |-> h[n]] = [n \in 0..Len(s) |-> f[n]]
  BY <1>5, Zenon
<1> QED BY <1>5, <1>6, Zenon DEF Follows

-----------------------------------------------------------------------------
(* Concatenating.                                                          *)

\* Each of a sequence of sequences put behind the ones before.
LEMMA ConcatenationsExist ==
  ASSUME NEW C, NEW ss \in Seq(Seq(C))
  PROVE  \E f \in [0..Len(ss) -> Seq(C)] :
           f[0] = <<>> /\ \A n \in 1..Len(ss) : f[n] = f[n - 1] \o ss[n]
<1> DEFINE S == Seq(C)
           g == [p \in S \X S |-> p[1] \o p[2]]
           b == <<>>
<1>1. b \in S /\ Len(ss) \in Nat /\ \A n \in 1..Len(ss) : ss[n] \in S
  BY LenProperties, ElementOfSeq, EmptySeq
<1>2. g \in [S \X S -> S]
  <2>1. \A p \in S \X S : p[1] \o p[2] \in S
    BY ConcatProperties
  <2> HIDE DEF S
  <2> QED BY <2>1
<1>3. \A x, y \in S : g[<<x, y>>] = x \o y
  <2> HIDE DEF S
  <2> QED OBVIOUS
<1>4. PICK f : Accumulates(f, S, b, g, ss)
  <2>1. ss \in Seq(S)
    OBVIOUS
  <2> HIDE DEF g, b, S
  <2> QED BY <1>1, <1>2, <2>1, RecursionExists, Zenon
<1>5. ASSUME NEW n \in 1..Len(ss) PROVE f[n] = f[n - 1] \o ss[n]
  <2> HIDE DEF g, b, S
  <2>1. n - 1 \in 0..Len(ss)
    BY <1>1
  <2>2. f[n - 1] \in S /\ ss[n] \in S
    BY <1>1, <1>4, <2>1 DEF Accumulates
  <2> QED BY <1>3, <1>4, <2>2 DEF Accumulates
<1> QED BY <1>4, <1>5 DEF Accumulates

\* Concatenating a sequence of sequences is concatenating one at a time.
LEMMA FlattenIsConcatenation ==
  ASSUME NEW C, NEW ss \in Seq(Seq(C)), NEW f \in [0..Len(ss) -> Seq(C)],
         f[0] = <<>>, \A n \in 1..Len(ss) : f[n] = f[n - 1] \o ss[n]
  PROVE  FlattenSeq(ss) = f[Len(ss)]
<1> DEFINE N == Len(ss)
           Body(h) == [i \in 1..N |-> IF i = 1 THEN ss[i] ELSE h[i - 1] \o ss[i]]
           flat == CHOOSE h : h = Body(h)
           r == [i \in 1..N |-> f[i]]
<1>1. N \in Nat /\ \A n \in 1..N : ss[n] \in Seq(C)
  BY LenProperties, ElementOfSeq
<1>2. CASE N = 0
  BY <1>2 DEF FlattenSeq
<1>3. CASE N # 0
  <2>1. FlattenSeq(ss) = flat[N]
    BY <1>3, Zenon DEF FlattenSeq
  <2>2. f[1] = ss[1]
    <3>1. 1 \in 1..Len(ss) /\ ss[1] \in Seq(C)
      BY <1>1, <1>3
    <3>2. f[1] = f[1 - 1] \o ss[1]
      BY <3>1, Zenon
    <3>3. 1 - 1 = 0
      OBVIOUS
    <3>4. f[1] = <<>> \o ss[1]
      BY <3>2, <3>3, Zenon
    <3> QED BY <3>1, <3>4, ConcatEmptySeq, Zenon
  <2> HIDE DEF flat, N
  <2>3. ASSUME NEW i \in 1..N, i # 1 PROVE f[i] = r[i - 1] \o ss[i]
    <3>1. i - 1 \in 1..N
      BY <1>1, <2>3
    <3> QED BY <3>1 DEF N
  <2>4. r = Body(r)
    BY <2>2, <2>3
  <2>5. flat = Body(flat)
    <3> HIDE DEF r, Body
    <3> QED BY <2>4, Zenon DEF flat
  <2>6. \A n \in 1..N : flat[n] = IF n = 1 THEN ss[n] ELSE flat[n - 1] \o ss[n]
    BY <2>5
  <2> HIDE DEF Body, r
  <2> DEFINE T == {n \in 0..N : n # 0 => flat[n] = f[n]}
  <2>7. 0 \in T
    BY <1>1
  <2>8. ASSUME NEW n \in 1..N, n - 1 \in T PROVE n \in T
    <3>1. CASE n = 1
      BY <2>2, <2>6, <3>1
    <3>2. CASE n # 1
      <4>1. flat[n - 1] = f[n - 1]
        BY <1>1, <2>8, <3>2
      <4>2. flat[n] = f[n - 1] \o ss[n]
        BY <2>6, <3>2, <4>1
      <4>3. f[n] = f[n - 1] \o ss[n]
        BY Zenon DEF N
      <4>4. n \in 0..N
        BY <1>1
      <4> QED BY <4>2, <4>3, <4>4
    <3> QED BY <3>1, <3>2
  <2>9. \A n \in 0..N : n \in T
    <3> HIDE DEF T
    <3> QED BY <1>1, <2>7, <2>8, AllTheWay
  <2>10. flat[N] = f[N]
    BY <1>1, <1>3, <2>9
  <2> QED BY <2>1, <2>10 DEF N
<1> QED BY <1>2, <1>3

\* Nothing to concatenate.
LEMMA FlattenEmpty == FlattenSeq(<<>>) = <<>>
<1>1. Len(<<>>) = 0
  OBVIOUS
<1> QED BY <1>1, Zenon DEF FlattenSeq

\* What comes of concatenating is a sequence of the same things.
LEMMA FlattenType ==
  ASSUME NEW C, NEW ss \in Seq(Seq(C))
  PROVE  FlattenSeq(ss) \in Seq(C)
<1>1. PICK f \in [0..Len(ss) -> Seq(C)] :
        f[0] = <<>> /\ \A n \in 1..Len(ss) : f[n] = f[n - 1] \o ss[n]
  BY ConcatenationsExist, Zenon
<1>2. FlattenSeq(ss) = f[Len(ss)]
  BY <1>1, FlattenIsConcatenation, Zenon
<1>3. Len(ss) \in 0..Len(ss)
  BY LenProperties
<1> QED BY <1>2, <1>3

\* One sequence more comes last.
LEMMA FlattenAppend ==
  ASSUME NEW C, NEW ss \in Seq(Seq(C)), NEW t \in Seq(C)
  PROVE  FlattenSeq(Append(ss, t)) = FlattenSeq(ss) \o t
<1> DEFINE N == Len(ss)
           more == Append(ss, t)
<1>1. /\ more \in Seq(Seq(C)) /\ N \in Nat /\ Len(more) = N + 1
      /\ \A n \in 1..N : more[n] = ss[n]
      /\ more[N + 1] = t
  BY AppendProperties, LenProperties
<1> HIDE DEF more
<1>2. PICK f \in [0..Len(more) -> Seq(C)] :
        f[0] = <<>> /\ \A n \in 1..Len(more) : f[n] = f[n - 1] \o more[n]
  BY <1>1, ConcatenationsExist, Zenon
<1>3. FlattenSeq(more) = f[Len(more)]
  BY <1>1, <1>2, FlattenIsConcatenation, Zenon
<1> DEFINE r == [n \in 0..Len(ss) |-> f[n]]
<1>4. r \in [0..Len(ss) -> Seq(C)] /\ r[0] = <<>>
  BY <1>1, <1>2
<1>5. ASSUME NEW n \in 1..Len(ss) PROVE r[n] = r[n - 1] \o ss[n]
  <2>1. n \in 1..Len(more) /\ n \in 0..N /\ n - 1 \in 0..N
    BY <1>1
  <2>2. r[n] = f[n] /\ r[n - 1] = f[n - 1]
    BY <2>1
  <2>3. f[n] = f[n - 1] \o more[n]
    BY <1>2, <2>1, Zenon
  <2>4. more[n] = ss[n]
    BY <1>1
  <2> HIDE DEF r
  <2> QED BY <2>2, <2>3, <2>4, Zenon
<1>6. FlattenSeq(ss) = r[Len(ss)]
  <2> HIDE DEF r
  <2> QED BY <1>4, <1>5, FlattenIsConcatenation, Zenon
<1>7. r[Len(ss)] = f[N]
  BY <1>1
<1>8. f[N + 1] = f[N] \o t
  <2>1. N + 1 \in 1..Len(more) /\ (N + 1) - 1 = N
    BY <1>1
  <2>2. f[N + 1] = f[(N + 1) - 1] \o more[N + 1]
    BY <1>2, <2>1, Zenon
  <2> HIDE DEF N
  <2> QED BY <1>1, <2>1, <2>2, Zenon
<1> HIDE DEF r, N
<1> QED BY <1>1, <1>3, <1>6, <1>7, <1>8, Zenon DEF more

-----------------------------------------------------------------------------
(* A function over a sequence.                                             *)

\* What h gives for each of s, one behind the other.
Mapped(h, s) == FlattenSeq([i \in 1..Len(s) |-> h[s[i]]])

GrowsBy(h, s, e) == Mapped(h, Append(s, e)) = Mapped(h, s) \o h[e]

\* One element more, and its image comes last.
LEMMA MappedAppend ==
  ASSUME NEW C, NEW E, NEW h \in [E -> Seq(C)], NEW s \in Seq(E), NEW e \in E
  PROVE  Mapped(h, s) \in Seq(C) /\ GrowsBy(h, s, e)
<1> DEFINE more == Append(s, e)
           pieces == [i \in 1..Len(s) |-> h[s[i]]]
           appended == Append(pieces, h[e])
           all == [i \in 1..Len(more) |-> h[more[i]]]
<1>1. /\ more \in Seq(E) /\ Len(s) \in Nat /\ Len(more) = Len(s) + 1
      /\ \A n \in 1..Len(s) : more[n] = s[n] /\ s[n] \in E
      /\ more[Len(s) + 1] = e
  BY AppendProperties, LenProperties, ElementOfSeq
<1> HIDE DEF more
<1>2. pieces \in Seq(Seq(C)) /\ Len(pieces) = Len(s)
  BY <1>1
<1>3. all \in Seq(Seq(C)) /\ Len(all) = Len(s) + 1
  BY <1>1
<1>4. /\ appended \in Seq(Seq(C)) /\ Len(appended) = Len(s) + 1
      /\ appended[Len(s) + 1] = h[e]
      /\ \A i \in 1..Len(s) : appended[i] = h[s[i]]
  BY <1>2, AppendProperties
<1> HIDE DEF appended
<1>5. ASSUME NEW i \in 1..(Len(s) + 1) PROVE all[i] = appended[i]
  <2>1. CASE i = Len(s) + 1
    BY <1>1, <1>4, <2>1
  <2>2. CASE i \in 1..Len(s)
    BY <1>1, <1>4, <2>2
  <2> QED BY <1>1, <2>1, <2>2
<1> HIDE DEF all, pieces
<1>6. all = appended
  BY <1>3, <1>4, <1>5, SeqEqual
<1>7. FlattenSeq(appended) = FlattenSeq(pieces) \o h[e]
  BY <1>2, FlattenAppend, Zenon DEF appended
<1>8. FlattenSeq(pieces) \in Seq(C)
  BY <1>2, FlattenType, Zenon
<1>9. FlattenSeq(all) = FlattenSeq(pieces) \o h[e]
  BY <1>6, <1>7, Zenon
<1> QED BY <1>8, <1>9, Zenon DEF all, pieces, more, Mapped, GrowsBy

-----------------------------------------------------------------------------
(* Bytes and text of a kind, an event or a line at a time.                 *)

LineType == [time2 : Int, time3 : Int, kind : Kind, text : Seq(Char)]

\* Of no events, no bytes and no text.
LEMMA OfNone == \A k : BytesOf(<<>>, k) = <<>> /\ TextOf(<<>>, k) = <<>>
<1> TAKE k
<1>1. [i \in 1..Len(<<>>) |->
         IF <<>>[i].kind = k THEN <<>>[i].bytes ELSE <<>>] = <<>>
  OBVIOUS
<1>2. [i \in 1..Len(<<>>) |->
         IF <<>>[i].kind = k THEN <<>>[i].text ELSE <<>>] = <<>>
  OBVIOUS
<1> QED BY <1>1, <1>2, FlattenEmpty, Zenon DEF BytesOf, TextOf

\* An event more adds its bytes to those of its kind.
LEMMA BytesOfAppend ==
  ASSUME NEW evs \in Seq(Event), NEW e \in Event, NEW k
  PROVE  /\ BytesOf(evs, k) \in Seq(Byte)
         /\ BytesOf(Append(evs, e), k)
              = BytesOf(evs, k) \o (IF e.kind = k THEN e.bytes ELSE <<>>)
<1> DEFINE h == [x \in Event |-> IF x.kind = k THEN x.bytes ELSE <<>>]
<1>1. h \in [Event -> Seq(Byte)]
  BY EmptySeq DEF Event
<1>2. h[e] = IF e.kind = k THEN e.bytes ELSE <<>>
  OBVIOUS
<1>3. ASSUME NEW s \in Seq(Event)
      PROVE  BytesOf(s, k) = Mapped(h, s)
  <2>1. \A i \in 1..Len(s) : h[s[i]] = IF s[i].kind = k THEN s[i].bytes ELSE <<>>
    BY ElementOfSeq
  <2> HIDE DEF h
  <2>2. [i \in 1..Len(s) |-> IF s[i].kind = k THEN s[i].bytes ELSE <<>>]
          = [i \in 1..Len(s) |-> h[s[i]]]
    BY <2>1
  <2> QED BY <2>2, Zenon DEF BytesOf, Mapped
<1>4. Append(evs, e) \in Seq(Event)
  BY AppendProperties
<1> HIDE DEF h
<1>5. Mapped(h, evs) \in Seq(Byte) /\ GrowsBy(h, evs, e)
  BY <1>1, MappedAppend, Zenon
<1> QED BY <1>2, <1>3, <1>4, <1>5, Zenon DEF GrowsBy

\* A line more adds its text to that of its kind.
LEMMA TextOfAppend ==
  ASSUME NEW lines \in Seq(LineType), NEW e \in LineType, NEW k
  PROVE  /\ TextOf(lines, k) \in Seq(Char)
         /\ TextOf(Append(lines, e), k)
              = TextOf(lines, k) \o (IF e.kind = k THEN e.text ELSE <<>>)
<1> DEFINE h == [x \in LineType |-> IF x.kind = k THEN x.text ELSE <<>>]
<1>1. h \in [LineType -> Seq(Char)]
  BY EmptySeq DEF LineType
<1>2. h[e] = IF e.kind = k THEN e.text ELSE <<>>
  OBVIOUS
<1>3. ASSUME NEW s \in Seq(LineType)
      PROVE  TextOf(s, k) = Mapped(h, s)
  <2>1. \A i \in 1..Len(s) : h[s[i]] = IF s[i].kind = k THEN s[i].text ELSE <<>>
    BY ElementOfSeq
  <2> HIDE DEF h
  <2>2. [i \in 1..Len(s) |-> IF s[i].kind = k THEN s[i].text ELSE <<>>]
          = [i \in 1..Len(s) |-> h[s[i]]]
    BY <2>1
  <2> QED BY <2>2, Zenon DEF TextOf, Mapped
<1>4. Append(lines, e) \in Seq(LineType)
  BY AppendProperties
<1> HIDE DEF h
<1>5. Mapped(h, lines) \in Seq(Char) /\ GrowsBy(h, lines, e)
  BY <1>1, MappedAppend, Zenon
<1> QED BY <1>2, <1>3, <1>4, <1>5, Zenon DEF GrowsBy

-----------------------------------------------------------------------------
(* What bytes stand for, a byte at a time.                                 *)

\* Whether the text of bytes waits for a second half.
EndsHeld(bytes) == Len(bytes) > 0 /\ bytes[Len(bytes)] = "lead"

\* Texts are concatenated in any order.
LEMMA TextsAssociate ==
  \A s, t, u \in Seq(Char) : (s \o t) \o u = s \o (t \o u)
BY ConcatAssociative

\* A byte stands for characters.
LEMMA TextAtType ==
  ASSUME NEW bytes \in Seq(Byte), NEW i \in 1..Len(bytes)
  PROVE  TextAt(bytes, i) \in Seq(Char)
<1>1. bytes[i] \in Byte
  BY ElementOfSeq
<1>2. {<<>>, <<"a">>, <<"e">>, <<"?">>} \subseteq Seq(Char)
  BY DEF Char
<1> QED BY <1>1, <1>2 DEF TextAt, Byte

\* A byte more changes at most what the last one before it stands for.
LEMMA NeighboursTell ==
  ASSUME NEW bytes \in Seq(Byte), Len(bytes) > 0, NEW x \in Byte
  PROVE  TextAt(Append(bytes, x), Len(bytes))
             \o TextAt(Append(bytes, x), Len(bytes) + 1)
           = TextAt(bytes, Len(bytes)) \o Decode(EndsHeld(bytes), x).text
<1> DEFINE more == Append(bytes, x)
           L == Len(bytes)
<1> SUFFICES TextAt(more, L) \o TextAt(more, L + 1)
               = TextAt(bytes, L) \o Decode(EndsHeld(bytes), x).text
  OBVIOUS
<1>1. /\ L \in Nat /\ L > 0 /\ bytes[L] \in Byte
      /\ Len(more) = L + 1 /\ more[L] = bytes[L] /\ more[L + 1] = x
      /\ L > 1 => more[L - 1] = bytes[L - 1]
      /\ more[(L + 1) - 1] = bytes[L]
  BY AppendProperties, LenProperties, ElementOfSeq
<1>2. /\ \A t \in Seq(Char) : t \o <<>> = t /\ <<>> \o t = t
      /\ {<<>>, <<"a">>, <<"e">>, <<"?">>, <<"?", "a">>} \subseteq Seq(Char)
  BY ConcatEmptySeq DEF Char
<1>5. <<"?">> \o <<"a">> = <<"?", "a">>
  <2> DEFINE both == <<"?">> \o <<"a">>
  <2>1. <<"?">> \in Seq(Char) /\ <<"a">> \in Seq(Char) /\ <<"?", "a">> \in Seq(Char)
    BY <1>2
  <2>2. both \in Seq(Char) /\ Len(both) = 2 /\ both[1] = "?" /\ both[2] = "a"
    BY <2>1, ConcatProperties
  <2> HIDE DEF both
  <2>3. both = <<"?", "a">>
    BY <2>1, <2>2, SeqEqual
  <2> QED BY <2>3 DEF both
<1> HIDE DEF more, L
<1>3. CASE bytes[L] = "lead"
  <2>1. EndsHeld(bytes) = TRUE
    BY <1>1, <1>3 DEF EndsHeld, L
  <2>2. TextAt(bytes, L) = <<>>
    BY <1>1, <1>3 DEF TextAt, L
  <2>3. CASE x = "lead"
    <3>1. /\ TextAt(more, L) = <<"?">> /\ TextAt(more, L + 1) = <<>>
          /\ Decode(TRUE, x).text = <<"?">>
      BY <1>1, <1>3, <2>3 DEF TextAt, Decode
    <3>2. <<"?">> \o <<>> = <<"?">> /\ <<>> \o <<"?">> = <<"?">>
      BY <1>2, Zenon
    <3> QED BY <2>1, <2>2, <3>1, <3>2, Zenon
  <2>4. CASE x = "rest"
    <3>1. /\ TextAt(more, L) = <<"e">> /\ TextAt(more, L + 1) = <<>>
          /\ Decode(TRUE, x).text = <<"e">>
      BY <1>1, <1>3, <2>4 DEF TextAt, Decode
    <3>2. <<"e">> \o <<>> = <<"e">> /\ <<>> \o <<"e">> = <<"e">>
      BY <1>2, Zenon
    <3> QED BY <2>1, <2>2, <3>1, <3>2, Zenon
  <2>5. CASE x = "a"
    <3>1. TextAt(more, L) = <<"?">> /\ TextAt(more, L + 1) = <<"a">>
      BY <1>1, <1>3, <2>5 DEF TextAt
    <3>4. Decode(TRUE, x).text = <<"?", "a">>
      BY <2>5 DEF Decode
    <3>2. <<>> \o <<"?", "a">> = <<"?", "a">>
      BY <1>2, Zenon
    <3> QED BY <1>5, <2>1, <2>2, <3>1, <3>2, <3>4, Zenon
  <2> QED BY <2>3, <2>4, <2>5 DEF Byte
<1>4. CASE bytes[L] # "lead"
  <2>1. EndsHeld(bytes) = FALSE
    BY <1>1, <1>4 DEF EndsHeld, L
  <2>2. TextAt(more, L) = TextAt(bytes, L)
    BY <1>1, <1>4 DEF TextAt, Byte
  <2>3. TextAt(more, L + 1) = Decode(FALSE, x).text
    BY <1>1, <1>4 DEF TextAt, Decode, Byte
  <2> QED BY <2>1, <2>2, <2>3, Zenon
<1> QED BY <1>3, <1>4

\* So do all of them.
LEMMA WholeTextType ==
  ASSUME NEW bytes \in Seq(Byte)
  PROVE  WholeText(bytes) \in Seq(Char)
<1> DEFINE pieces == [i \in 1..Len(bytes) |-> TextAt(bytes, i)]
<1>1. pieces \in Seq(Seq(Char))
  BY TextAtType, LenProperties
<1> HIDE DEF pieces
<1>2. FlattenSeq(pieces) \in Seq(Char)
  BY <1>1, FlattenType, Zenon
<1> QED BY <1>2, Zenon DEF WholeText, pieces

\* The text of the bytes but the last is not changed by what follows it.
LEMMA WholeTextSplits ==
  ASSUME NEW bytes \in Seq(Byte), Len(bytes) > 0
  PROVE  WholeText(bytes)
           = FlattenSeq([i \in 1..(Len(bytes) - 1) |-> TextAt(bytes, i)])
               \o TextAt(bytes, Len(bytes))
<1> DEFINE L == Len(bytes)
           front == [i \in 1..(L - 1) |-> TextAt(bytes, i)]
           last == TextAt(bytes, L)
           pieces == [i \in 1..L |-> TextAt(bytes, i)]
           joined == Append(front, last)
<1>1. L \in Nat /\ L > 0 /\ \A i \in 1..L : TextAt(bytes, i) \in Seq(Char)
  BY TextAtType, LenProperties
<1>2. front \in Seq(Seq(Char)) /\ Len(front) = L - 1 /\ last \in Seq(Char)
  BY <1>1
<1>3. pieces \in Seq(Seq(Char)) /\ Len(pieces) = L
  BY <1>1
<1>4. /\ joined \in Seq(Seq(Char)) /\ Len(joined) = L
      /\ \A i \in 1..(L - 1) : joined[i] = front[i]
      /\ joined[L] = last
  <2> HIDE DEF front, last
  <2>1. Len(front) + 1 = L
    BY <1>1, <1>2
  <2> QED BY <1>2, <2>1, AppendProperties
<1> HIDE DEF joined
<1>5. ASSUME NEW i \in 1..L PROVE joined[i] = pieces[i]
  <2>1. CASE i = L
    BY <1>4, <2>1
  <2>2. CASE i \in 1..(L - 1)
    BY <1>4, <2>2
  <2> QED BY <1>1, <2>1, <2>2
<1> HIDE DEF pieces, front, last
<1>6. joined = pieces
  BY <1>3, <1>4, <1>5, SeqEqual
<1>7. FlattenSeq(joined) = FlattenSeq(front) \o last
  BY <1>2, FlattenAppend, Zenon DEF joined
<1>8. WholeText(bytes) = FlattenSeq(pieces)
  BY Zenon DEF WholeText, pieces
<1> QED BY <1>6, <1>7, <1>8, Zenon DEF front, last

\* A decoder that holds what the bytes so far leave open tells of one byte
\* more exactly what the text of all of them has more.
LEMMA WholeTextAppend ==
  ASSUME NEW bytes \in Seq(Byte), NEW x \in Byte
  PROVE  WholeText(Append(bytes, x))
           = WholeText(bytes) \o Decode(EndsHeld(bytes), x).text
<1> DEFINE L == Len(bytes)
           more == Append(bytes, x)
           front(b) == FlattenSeq([i \in 1..(L - 1) |-> TextAt(b, i)])
           told == Decode(EndsHeld(bytes), x).text
<1>1. /\ L \in Nat /\ more \in Seq(Byte) /\ Len(more) = L + 1
      /\ \A i \in 1..L : more[i] = bytes[i]
      /\ more[L + 1] = x
  BY AppendProperties, LenProperties
<1>2. told \in Seq(Char)
  <2>1. EndsHeld(bytes) = TRUE \/ EndsHeld(bytes) = FALSE
    BY DEF EndsHeld
  <2>2. {<<>>, <<"a">>, <<"e">>, <<"?">>, <<"?", "a">>} \subseteq Seq(Char)
    BY DEF Char
  <2>3. Decode(TRUE, x).text \in {<<>>, <<"a">>, <<"e">>, <<"?">>, <<"?", "a">>}
    BY DEF Decode, Byte
  <2>4. Decode(FALSE, x).text \in {<<>>, <<"a">>, <<"e">>, <<"?">>, <<"?", "a">>}
    BY DEF Decode, Byte
  <2> QED BY <2>1, <2>2, <2>3, <2>4, Zenon
<1>3. WholeText(more) = FlattenSeq([i \in 1..L |-> TextAt(more, i)])
                          \o TextAt(more, L + 1)
  <2> HIDE DEF more
  <2>1. Len(more) > 0 /\ Len(more) - 1 = L
    BY <1>1
  <2> HIDE DEF L
  <2>2. WholeText(more) = FlattenSeq([i \in 1..(Len(more) - 1) |-> TextAt(more, i)])
                            \o TextAt(more, Len(more))
    BY <1>1, <2>1, WholeTextSplits, Zenon
  <2> QED BY <1>1, <2>1, <2>2, Zenon
<1>4. CASE L = 0
  <2>1. EndsHeld(bytes) = FALSE
    BY <1>4 DEF EndsHeld
  <2>2. TextAt(more, 1) = Decode(FALSE, x).text
    <3> HIDE DEF more
    <3> QED BY <1>1, <1>4 DEF TextAt, Decode, Byte
  <2>3. [i \in 1..L |-> TextAt(more, i)] = <<>>
    <3> HIDE DEF more
    <3> QED BY <1>4
  <2>4. [i \in 1..Len(bytes) |-> TextAt(bytes, i)] = <<>>
    BY <1>4
  <2>5. WholeText(bytes) = <<>>
    BY <2>4, FlattenEmpty, Zenon DEF WholeText
  <2>6. WholeText(more) = <<>> \o TextAt(more, 1)
    <3> HIDE DEF more
    <3>1. L + 1 = 1
      BY <1>4
    <3> QED BY <1>3, <2>3, <3>1, FlattenEmpty, Zenon
  <2> HIDE DEF more, L
  <2> QED BY <2>1, <2>2, <2>5, <2>6, Zenon DEF more
<1>5. CASE L > 0
  <2>1. /\ \A i \in 1..L : TextAt(more, i) \in Seq(Char) /\ TextAt(bytes, i) \in Seq(Char)
        /\ TextAt(more, L + 1) \in Seq(Char)
    <3>1. L + 1 \in 1..Len(more) /\ \A i \in 1..L : i \in 1..Len(more)
      BY <1>1
    <3> HIDE DEF more
    <3> QED BY <1>1, <3>1, TextAtType
  <2>2. \A i \in 1..(L - 1) : TextAt(more, i) = TextAt(bytes, i)
    <3> HIDE DEF more
    <3>1. ASSUME NEW i \in 1..(L - 1) PROVE TextAt(more, i) = TextAt(bytes, i)
      <4>1. /\ i \in 1..L /\ i + 1 \in 1..L /\ (i > 1 => i - 1 \in 1..L)
            /\ i < Len(more) /\ i < Len(bytes)
        BY <1>1
      <4>2. /\ more[i] = bytes[i] /\ more[i + 1] = bytes[i + 1]
            /\ (i > 1 => more[i - 1] = bytes[i - 1])
        BY <1>1, <4>1
      <4> QED BY <4>1, <4>2 DEF TextAt
    <3> QED BY <3>1
  <2>3. front(more) = front(bytes)
    <3>1. [i \in 1..(L - 1) |-> TextAt(more, i)] = [i \in 1..(L - 1) |-> TextAt(bytes, i)]
      <4> HIDE DEF more, L
      <4> QED BY <2>2
    <3> QED BY <3>1, Zenon
  <2>4. front(bytes) \in Seq(Char)
    <3> DEFINE pieces == [i \in 1..(L - 1) |-> TextAt(bytes, i)]
    <3>1. pieces \in Seq(Seq(Char))
      BY <1>1, <1>5, <2>1
    <3> HIDE DEF pieces
    <3>2. FlattenSeq(pieces) \in Seq(Char)
      BY <3>1, FlattenType, Zenon
    <3> QED BY <3>2, Zenon DEF pieces
  <2>5. WholeText(bytes) = front(bytes) \o TextAt(bytes, L)
    BY <1>5, WholeTextSplits, Zenon
  <2>6. FlattenSeq([i \in 1..L |-> TextAt(more, i)]) = front(more) \o TextAt(more, L)
    <3> DEFINE part == [i \in 1..L |-> TextAt(more, i)]
               parts == [i \in 1..(L - 1) |-> TextAt(more, i)]
               joined == Append(parts, TextAt(more, L))
    <3>1. part \in Seq(Seq(Char)) /\ Len(part) = L
      <4> HIDE DEF more
      <4> QED BY <1>1, <2>1
    <3>2. parts \in Seq(Seq(Char)) /\ Len(parts) = L - 1 /\ TextAt(more, L) \in Seq(Char)
      <4> HIDE DEF more
      <4> QED BY <1>1, <1>5, <2>1
    <3>3. /\ joined \in Seq(Seq(Char)) /\ Len(joined) = L
          /\ \A i \in 1..(L - 1) : joined[i] = parts[i]
          /\ joined[L] = TextAt(more, L)
      <4> HIDE DEF parts, more
      <4>1. Len(parts) + 1 = L
        BY <1>1, <3>2
      <4> QED BY <3>2, <4>1, AppendProperties
    <3> HIDE DEF joined, more
    <3>4. ASSUME NEW i \in 1..L PROVE joined[i] = part[i]
      <4>1. CASE i = L
        BY <3>3, <4>1
      <4>2. CASE i \in 1..(L - 1)
        BY <3>3, <4>2
      <4> QED BY <1>1, <4>1, <4>2
    <3> HIDE DEF part, parts
    <3>5. joined = part
      BY <3>1, <3>3, <3>4, SeqEqual
    <3>6. FlattenSeq(joined) = FlattenSeq(parts) \o TextAt(more, L)
      BY <3>2, FlattenAppend, Zenon DEF joined
    <3> QED BY <3>5, <3>6, Zenon DEF part, parts
  <2>7. TextAt(more, L) \o TextAt(more, L + 1) = TextAt(bytes, L) \o told
    BY <1>5, NeighboursTell, Zenon
  <2>8. L \in 1..L
    BY <1>1, <1>5
  <2> HIDE DEF more, told, front, L
  <2>9. WholeText(more) = front(bytes) \o (TextAt(more, L) \o TextAt(more, L + 1))
    <3>1. WholeText(more) = (front(bytes) \o TextAt(more, L)) \o TextAt(more, L + 1)
      BY <1>3, <2>3, <2>6, Zenon
    <3>2. TextAt(more, L) \in Seq(Char) /\ TextAt(more, L + 1) \in Seq(Char)
      BY <2>1, <2>8, Zenon
    <3> QED BY <2>4, <3>1, <3>2, TextsAssociate, Zenon
  <2>10. front(bytes) \o (TextAt(bytes, L) \o told) = (front(bytes) \o TextAt(bytes, L)) \o told
    <3>1. TextAt(bytes, L) \in Seq(Char)
      BY <2>1, <2>8, Zenon
    <3> QED BY <1>2, <2>4, <3>1, TextsAssociate, Zenon
  <2> QED BY <2>5, <2>7, <2>9, <2>10, Zenon DEF more, told
<1> QED BY <1>1, <1>4, <1>5
-----------------------------------------------------------------------------
(* The decoder over any bytes.                                             *)

Decoder == [text : Seq(Char), held : BOOLEAN]

feeding == [p \in Decoder \X Byte |-> Feeds(p[1], p[2])]

\* A byte more leaves a decoder.
LEMMA FeedsType ==
  ASSUME NEW d \in Decoder, NEW x \in Byte
  PROVE  Feeds(d, x) \in Decoder
<1>1. {<<>>, <<"a">>, <<"e">>, <<"?">>, <<"?", "a">>} \subseteq Seq(Char)
  BY DEF Char
<1>2. d.text \in Seq(Char) /\ d.held \in BOOLEAN
  BY DEF Decoder
<1>3. /\ Decode(d.held, x).text \in {<<>>, <<"a">>, <<"e">>, <<"?">>, <<"?", "a">>}
      /\ Decode(d.held, x).held \in BOOLEAN
  <2>1. ASSUME NEW h \in BOOLEAN
        PROVE  /\ Decode(h, x).text \in {<<>>, <<"a">>, <<"e">>, <<"?">>, <<"?", "a">>}
               /\ Decode(h, x).held \in BOOLEAN
    BY DEF Decode, Byte
  <2> QED BY <1>2, <2>1, Zenon
<1>4. Decode(d.held, x).text \in Seq(Char)
  BY <1>1, <1>3, Zenon
<1>5. d.text \o Decode(d.held, x).text \in Seq(Char)
  BY <1>2, <1>4, ConcatProperties, Zenon
<1> QED BY <1>3, <1>5 DEF Feeds, Decoder

\* ... with what the byte tells behind what was told, and what it leaves open.
LEMMA FeedsTells ==
  \A d, x : /\ Feeds(d, x).text = d.text \o Decode(d.held, x).text
            /\ Feeds(d, x).held = Decode(d.held, x).held
<1> TAKE d, x
<1> DEFINE one == Decode(d.held, x)
           text == d.text \o one.text
<1>1. Feeds(d, x) = [text |-> text, held |-> one.held]
  BY Zenon DEF Feeds
<1> HIDE DEF one, text
<1>2. Feeds(d, x).text = text /\ Feeds(d, x).held = one.held
  BY <1>1
<1> QED BY <1>2, Zenon DEF one, text

\* Decoding is feeding one byte at a time.
LEMMA DecodingIs ==
  ASSUME NEW held \in BOOLEAN, NEW bytes \in Seq(Byte)
  PROVE  Accumulates(Decoding(held, bytes), Decoder,
                     [text |-> <<>>, held |-> held], feeding, bytes)
<1> DEFINE N == Len(bytes)
           b == [text |-> <<>>, held |-> held]
           Body(h) == [n \in 0..N |-> IF n = 0 THEN b ELSE Feeds(h[n - 1], bytes[n])]
           after == CHOOSE h : h = Body(h)
<1>1. N \in Nat /\ b \in Decoder /\ \A n \in 1..N : bytes[n] \in Byte
  BY LenProperties, ElementOfSeq, EmptySeq DEF Decoder
<1>2. /\ feeding \in [Decoder \X Byte -> Decoder]
      /\ \A d \in Decoder, x \in Byte : feeding[<<d, x>>] = Feeds(d, x)
  BY FeedsType DEF feeding
<1>3. Decoding(held, bytes) = after
  BY Zenon DEF Decoding
<1> HIDE DEF b
<1>4. PICK f : Accumulates(f, Decoder, b, feeding, bytes)
  BY <1>1, <1>2, RecursionExists, Zenon
<1>5. f = Body(f)
  <2>1. f = [n \in 0..N |-> f[n]] /\ f[0] = b
    BY <1>4 DEF Accumulates
  <2>2. ASSUME NEW n \in 1..N PROVE f[n] = Feeds(f[n - 1], bytes[n])
    <3>1. n - 1 \in 0..N
      BY <1>1
    <3>2. f[n - 1] \in Decoder /\ bytes[n] \in Byte
      BY <1>1, <1>4, <3>1 DEF Accumulates
    <3>3. f[n] = feeding[<<f[n - 1], bytes[n]>>]
      BY <1>4, Zenon DEF Accumulates
    <3> QED BY <1>2, <3>2, <3>3, Zenon
  <2>3. \A n \in 0..N : f[n] = IF n = 0 THEN b ELSE Feeds(f[n - 1], bytes[n])
    BY <1>1, <2>1, <2>2
  <2> HIDE DEF N
  <2> QED BY <2>1, <2>3
<1> HIDE DEF after, Body
<1>6. after = Body(after)
  BY <1>5, Zenon DEF after
<1>7. /\ after = [n \in 0..N |-> after[n]] /\ after[0] = b
      /\ \A n \in 1..N : after[n] = Feeds(after[n - 1], bytes[n])
  BY <1>1, <1>6 DEF Body
<1>8. \A n \in 1..N : after[n - 1] \in Decoder
        => after[n] = feeding[<<after[n - 1], bytes[n]>>]
  BY <1>1, <1>2, <1>7, Zenon
<1>9. Follows(after, Decoder, b, feeding, bytes)
  BY <1>7, <1>8, Zenon DEF Follows
<1>10. after = f
  BY <1>4, <1>9, OnlyOne, Zenon
<1> QED BY <1>3, <1>4, <1>10, Zenon DEF b

\* One element more of what follows.
LEMMA FrontGrows ==
  ASSUME NEW C, NEW before \in Seq(C), NEW s \in Seq(C), NEW n \in 1..Len(s)
  PROVE  /\ before \o SubSeq(s, 1, n) = Append(before \o SubSeq(s, 1, n - 1), s[n])
         /\ before \o SubSeq(s, 1, n - 1) \in Seq(C)
         /\ s[n] \in C
<1> DEFINE less == before \o SubSeq(s, 1, n - 1)
           more == before \o SubSeq(s, 1, n)
           one == Append(less, s[n])
           B == Len(before)
<1>1. s[n] \in C /\ n \in Nat /\ B \in Nat
  BY ElementOfSeq, LenProperties
<1>2. /\ SubSeq(s, 1, n - 1) \in Seq(C) /\ Len(SubSeq(s, 1, n - 1)) = n - 1
      /\ \A i \in 1..(n - 1) : SubSeq(s, 1, n - 1)[i] = s[i]
  BY LenProperties, SubSeqProperties
<1>3. /\ SubSeq(s, 1, n) \in Seq(C) /\ Len(SubSeq(s, 1, n)) = n
      /\ \A i \in 1..n : SubSeq(s, 1, n)[i] = s[i]
  BY LenProperties, SubSeqProperties
<1>4. /\ less \in Seq(C) /\ Len(less) = B + (n - 1)
      /\ \A i \in 1..(B + (n - 1)) : less[i] = IF i <= B THEN before[i] ELSE s[i - B]
  BY <1>1, <1>2, ConcatProperties
<1>5. /\ more \in Seq(C) /\ Len(more) = B + n
      /\ \A i \in 1..(B + n) : more[i] = IF i <= B THEN before[i] ELSE s[i - B]
  BY <1>1, <1>3, ConcatProperties
<1> HIDE DEF less, more
<1>6. /\ one \in Seq(C) /\ Len(one) = B + n
      /\ \A i \in 1..(B + (n - 1)) : one[i] = less[i]
      /\ one[B + n] = s[n]
  <2>1. (B + (n - 1)) + 1 = B + n
    BY <1>1
  <2> HIDE DEF B
  <2>2. /\ Append(less, s[n]) \in Seq(C) /\ Len(Append(less, s[n])) = Len(less) + 1
        /\ \A i \in 1..Len(less) : Append(less, s[n])[i] = less[i]
        /\ Append(less, s[n])[Len(less) + 1] = s[n]
    BY <1>1, <1>4, AppendProperties
  <2> QED BY <1>4, <2>1, <2>2
<1> HIDE DEF one, B
<1>7. ASSUME NEW i \in 1..(B + n) PROVE more[i] = one[i]
  <2>1. CASE i = B + n
    <3>1. ~ (i <= B) /\ i - B = n
      BY <1>1, <2>1
    <3> QED BY <1>5, <1>6, <2>1, <3>1
  <2>2. CASE i # B + n
    <3>1. i \in 1..(B + (n - 1))
      BY <1>1, <2>2
    <3> QED BY <1>4, <1>5, <1>6, <3>1
  <2> QED BY <2>1, <2>2
<1>8. more = one
  BY <1>5, <1>6, <1>7, SeqEqual
<1> QED BY <1>1, <1>4, <1>8 DEF more, less, one

\* A decoder that holds what is open tells what there is more, and holds what
\* is open then.
LEMMA DecodeTells ==
  ASSUME NEW before \in Seq(Byte), NEW bytes \in Seq(Byte)
  PROVE  /\ DecodePiece(EndsHeld(before), bytes) \in Decoder
         /\ DecodePiece(EndsHeld(before), bytes).held = EndsHeld(before \o bytes)
         /\ WholeText(before \o bytes)
              = WholeText(before) \o DecodePiece(EndsHeld(before), bytes).text
<1> DEFINE N == Len(bytes)
           D == Decoding(EndsHeld(before), bytes)
           upto(n) == before \o SubSeq(bytes, 1, n)
           Tells(n) == /\ D[n].held = EndsHeld(upto(n))
                       /\ WholeText(upto(n)) = WholeText(before) \o D[n].text
           T == {n \in 0..N : Tells(n)}
<1>1. N \in Nat /\ EndsHeld(before) \in BOOLEAN
  BY LenProperties DEF EndsHeld
<1>2. Accumulates(D, Decoder, [text |-> <<>>, held |-> EndsHeld(before)], feeding, bytes)
  BY <1>1, DecodingIs, Zenon
<1> HIDE DEF D
<1>3. /\ \A n \in 0..N : D[n] \in Decoder
      /\ D[0].text = <<>> /\ D[0].held = EndsHeld(before)
  <2>1. D \in [0..N -> Decoder] /\ 0 \in 0..N
    BY <1>1, <1>2 DEF Accumulates
  <2>2. D[0] = [text |-> <<>>, held |-> EndsHeld(before)]
    BY <1>2, Zenon DEF Accumulates
  <2> QED BY <2>1, <2>2
<1>4. ASSUME NEW n \in 1..N PROVE D[n] = Feeds(D[n - 1], bytes[n])
  <2>1. n - 1 \in 0..N
    BY <1>1
  <2>2. D[n - 1] \in Decoder /\ bytes[n] \in Byte
    BY <1>3, <2>1, ElementOfSeq
  <2>3. D[n] = feeding[<<D[n - 1], bytes[n]>>]
    BY <1>2, Zenon DEF Accumulates
  <2>4. feeding[<<D[n - 1], bytes[n]>>] = Feeds(D[n - 1], bytes[n])
    BY <2>2 DEF feeding
  <2> QED BY <2>3, <2>4, Zenon
<1>5. 0 \in T
  <2>1. SubSeq(bytes, 1, 0) = <<>>
    BY SubSeqEmpty
  <2>2. upto(0) = before
    BY <2>1, ConcatEmptySeq, Zenon
  <2>3. WholeText(before) \o <<>> = WholeText(before)
    BY WholeTextType, ConcatEmptySeq, Zenon
  <2>4. Tells(0)
    BY <1>3, <2>2, <2>3, Zenon
  <2> HIDE DEF Tells
  <2> QED BY <1>1, <2>4
<1>6. ASSUME NEW n \in 1..N, n - 1 \in T PROVE n \in T
  <2> DEFINE so == upto(n - 1)
             x == bytes[n]
             told == Decode(D[n - 1].held, x)
  <2>1. so \in Seq(Byte) /\ x \in Byte /\ upto(n) = Append(so, x)
    BY FrontGrows, Zenon
  <2>2. /\ D[n].text = D[n - 1].text \o told.text
        /\ D[n].held = told.held
    <3>1. D[n] = Feeds(D[n - 1], bytes[n])
      BY <1>4
    <3> QED BY <3>1, FeedsTells, ZenonT(30)
  <2>3. n - 1 \in 0..N /\ n \in 0..N
    BY <1>1
  <2>4. D[n - 1].held = EndsHeld(so) /\ WholeText(so) = WholeText(before) \o D[n - 1].text
    BY <1>6, Zenon
  <2> HIDE DEF so, x, upto
  <2>5. told.held = EndsHeld(Append(so, x))
    <3>1. told.held = (x = "lead")
      BY <2>1 DEF Decode, Byte
    <3>2. Len(Append(so, x)) = Len(so) + 1 /\ Append(so, x)[Len(so) + 1] = x /\ Len(so) \in Nat
      BY <2>1, AppendProperties, LenProperties
    <3> HIDE DEF told
    <3> QED BY <3>1, <3>2 DEF EndsHeld
  <2>6. WholeText(upto(n)) = WholeText(so) \o told.text
    BY <2>1, <2>4, WholeTextAppend, Zenon
  <2>7. told.text \in Seq(Char) /\ D[n - 1].text \in Seq(Char) /\ WholeText(before) \in Seq(Char)
    <3>3. told.text \in {<<>>, <<"a">>, <<"e">>, <<"?">>, <<"?", "a">>}
      <4>1. ASSUME NEW h \in BOOLEAN
            PROVE  Decode(h, x).text \in {<<>>, <<"a">>, <<"e">>, <<"?">>, <<"?", "a">>}
        BY <2>1 DEF Decode, Byte
      <4>2. D[n - 1].held \in BOOLEAN
        BY <1>3, <2>3 DEF Decoder
      <4> QED BY <4>1, <4>2, Zenon
    <3>4. {<<>>, <<"a">>, <<"e">>, <<"?">>, <<"?", "a">>} \subseteq Seq(Char)
      BY DEF Char
    <3>5. told.text \in Seq(Char)
      BY <3>3, <3>4, Zenon
    <3>6. D[n - 1].text \in Seq(Char)
      BY <1>3, <2>3 DEF Decoder
    <3> QED BY <3>5, <3>6, WholeTextType, Zenon
  <2> HIDE DEF told
  <2>8. WholeText(upto(n)) = WholeText(before) \o D[n].text
    <3>1. WholeText(upto(n)) = (WholeText(before) \o D[n - 1].text) \o told.text
      BY <2>4, <2>6, Zenon
    <3>2. (WholeText(before) \o D[n - 1].text) \o told.text
            = WholeText(before) \o (D[n - 1].text \o told.text)
      BY <2>7, TextsAssociate, Zenon
    <3> QED BY <2>2, <3>1, <3>2, Zenon
  <2>9. Tells(n)
    BY <2>1, <2>2, <2>5, <2>8, Zenon
  <2> HIDE DEF Tells
  <2> QED BY <2>3, <2>9
<1>7. \A n \in 0..N : n \in T
  <2> HIDE DEF T, N
  <2> QED BY <1>1, <1>5, <1>6, AllTheWay
<1>8. N \in 0..N /\ upto(N) = before \o bytes
  <2>1. SubSeq(bytes, 1, N) = bytes
    BY SubSeqFull
  <2> HIDE DEF N
  <2> QED BY <1>1, <2>1
<1>9. Tells(N) /\ D[N] \in Decoder
  <2> HIDE DEF Tells
  <2> QED BY <1>3, <1>7, <1>8
<1> QED BY <1>8, <1>9, Zenon DEF DecodePiece, D

-----------------------------------------------------------------------------
(* Where a player is.                                                      *)

playing == [p \in Int \X LineType |-> p[1] + p[2].time3]

\* Playing is adding one interval at a time.
LEMMA PlayedIs ==
  ASSUME NEW lines \in Seq(LineType)
  PROVE  Accumulates(Played(lines), Int, 0, playing, lines)
<1> DEFINE N == Len(lines)
           Body(h) == [n \in 0..N |-> IF n = 0 THEN 0 ELSE h[n - 1] + lines[n].time3]
           after == CHOOSE h : h = Body(h)
<1>1. N \in Nat /\ 0 \in Int /\ \A n \in 1..N : lines[n] \in LineType
  BY LenProperties, ElementOfSeq
<1>2. /\ playing \in [Int \X LineType -> Int]
      /\ \A t \in Int, l \in LineType : playing[<<t, l>>] = t + l.time3
  BY DEF playing, LineType
<1>3. Played(lines) = after
  BY Zenon DEF Played
<1>4. PICK f : Accumulates(f, Int, 0, playing, lines)
  BY <1>1, <1>2, RecursionExists, Zenon
<1>5. f = Body(f)
  <2>1. f = [n \in 0..N |-> f[n]] /\ f[0] = 0
    BY <1>4 DEF Accumulates
  <2>2. ASSUME NEW n \in 1..N PROVE f[n] = f[n - 1] + lines[n].time3
    <3>1. n - 1 \in 0..N
      BY <1>1
    <3>2. f[n - 1] \in Int /\ lines[n] \in LineType
      BY <1>1, <1>4, <3>1 DEF Accumulates
    <3>3. f[n] = playing[<<f[n - 1], lines[n]>>]
      BY <1>4, Zenon DEF Accumulates
    <3> QED BY <1>2, <3>2, <3>3, Zenon
  <2>3. \A n \in 0..N : f[n] = IF n = 0 THEN 0 ELSE f[n - 1] + lines[n].time3
    BY <1>1, <2>1, <2>2, SMTT(30)
  <2> HIDE DEF N
  <2> QED BY <2>1, <2>3
<1> HIDE DEF after, Body
<1>6. after = Body(after)
  BY <1>5, Zenon DEF after
<1>7. /\ after = [n \in 0..N |-> after[n]] /\ after[0] = 0
      /\ \A n \in 1..N : after[n] = after[n - 1] + lines[n].time3
  BY <1>1, <1>6 DEF Body
<1>8. \A n \in 1..N : after[n - 1] \in Int
        => after[n] = playing[<<after[n - 1], lines[n]>>]
  BY <1>1, <1>2, <1>7, Zenon
<1>9. Follows(after, Int, 0, playing, lines)
  BY <1>7, <1>8, Zenon DEF Follows
<1>10. after = f
  BY <1>4, <1>9, OnlyOne, Zenon
<1> QED BY <1>3, <1>4, <1>10, Zenon

\* So a player is where the line before left it, an interval on.
LEMMA PlayedTells ==
  ASSUME NEW lines \in Seq(LineType)
  PROVE  /\ \A n \in 0..Len(lines) : Played(lines)[n] \in Int
         /\ Played(lines)[0] = 0
         /\ \A n \in 1..Len(lines) : Played(lines)[n] = Played(lines)[n - 1] + lines[n].time3
<1> DEFINE p == Played(lines)
<1>1. Accumulates(p, Int, 0, playing, lines) /\ Len(lines) \in Nat
  BY PlayedIs, LenProperties, Zenon
<1> HIDE DEF p
<1>2. p[0] = 0 /\ \A n \in 0..Len(lines) : p[n] \in Int
  BY <1>1 DEF Accumulates
<1>3. ASSUME NEW n \in 1..Len(lines) PROVE p[n] = p[n - 1] + lines[n].time3
  <2>1. n - 1 \in 0..Len(lines)
    BY <1>1
  <2>2. p[n - 1] \in Int /\ lines[n] \in LineType
    BY <1>2, <2>1, ElementOfSeq
  <2>3. p[n] = playing[<<p[n - 1], lines[n]>>]
    BY <1>1, Zenon DEF Accumulates
  <2>4. playing[<<p[n - 1], lines[n]>>] = p[n - 1] + lines[n].time3
    BY <2>2 DEF playing
  <2> QED BY <2>3, <2>4, Zenon
<1> QED BY <1>2, <1>3 DEF p

\* A line more does not move a player before it.
LEMMA PlayedAppend ==
  ASSUME NEW lines \in Seq(LineType), NEW l \in LineType
  PROVE  /\ \A n \in 0..Len(lines) : Played(Append(lines, l))[n] = Played(lines)[n]
         /\ Played(Append(lines, l))[Len(lines) + 1] = Played(lines)[Len(lines)] + l.time3
<1> DEFINE more == Append(lines, l)
           N == Len(lines)
           p == Played(lines)
           q == Played(more)
           T == {n \in 0..N : q[n] = p[n]}
<1>1. /\ more \in Seq(LineType) /\ N \in Nat /\ Len(more) = N + 1
      /\ \A n \in 1..N : more[n] = lines[n]
      /\ more[N + 1] = l
  BY AppendProperties, LenProperties
<1> HIDE DEF more
<1>2. /\ p[0] = 0 /\ \A n \in 1..N : p[n] = p[n - 1] + lines[n].time3
      /\ q[0] = 0 /\ \A n \in 1..Len(more) : q[n] = q[n - 1] + more[n].time3
  BY <1>1, PlayedTells, Zenon
<1> HIDE DEF p, q
<1>3. 0 \in T
  BY <1>1, <1>2
<1>4. ASSUME NEW n \in 1..N, n - 1 \in T PROVE n \in T
  <2>1. n \in 1..Len(more) /\ n \in 0..N /\ q[n - 1] = p[n - 1] /\ more[n] = lines[n]
    BY <1>1, <1>4
  <2>2. q[n] = p[n]
    BY <1>2, <2>1, Zenon
  <2> QED BY <2>1, <2>2
<1>5. \A n \in 0..N : n \in T
  <2> HIDE DEF T, N
  <2> QED BY <1>1, <1>3, <1>4, AllTheWay
<1>6. \A n \in 0..N : q[n] = p[n]
  BY <1>5
<1>7. q[N + 1] = p[N] + l.time3
  <2>1. N + 1 \in 1..Len(more) /\ (N + 1) - 1 = N /\ N \in 0..N
    BY <1>1
  <2>2. q[N + 1] = q[(N + 1) - 1] + more[N + 1].time3
    BY <1>2, <2>1, Zenon
  <2> HIDE DEF N
  <2> QED BY <1>1, <1>6, <2>1, <2>2, Zenon
<1> QED BY <1>6, <1>7, Zenon DEF p, q, more

-----------------------------------------------------------------------------
(* The cast.                                                               *)

CastState == [held : [Kind -> BOOLEAN], previous : Int, lines : Seq(LineType)]

\* A decoder is left behind a piece.
LEMMA DecodePieceType ==
  ASSUME NEW held \in BOOLEAN, NEW bytes \in Seq(Byte)
  PROVE  DecodePiece(held, bytes) \in Decoder
<1>1. Accumulates(Decoding(held, bytes), Decoder,
                  [text |-> <<>>, held |-> held], feeding, bytes)
  BY DecodingIs
<1>2. Len(bytes) \in 0..Len(bytes)
  BY LenProperties
<1> QED BY <1>1, <1>2 DEF Accumulates, DecodePiece

\* Milliseconds are numbers.
LEMMA MillisType == \A micros \in Nat : Millis(micros) \in Int
<1> TAKE micros \in Nat
<1>1. micros \div 1000 \in Int /\ micros \div 1000 + 1 \in Int
  OBVIOUS
<1> QED BY <1>1, SMTT(30) DEF Millis

\* What a turn of the loop changes, spelled out.
LEMMA LineIs ==
  ASSUME NEW c \in CastState, NEW e \in Event
  PROVE  /\ Line(c, e) \in CastState
         /\ \A k \in Kind : Line(c, e).held[k] =
              IF k = e.kind THEN DecodePiece(c.held[e.kind], e.bytes).held ELSE c.held[k]
         /\ DecodePiece(c.held[e.kind], e.bytes).text = <<>> =>
              Line(c, e).previous = c.previous /\ Line(c, e).lines = c.lines
         /\ DecodePiece(c.held[e.kind], e.bytes).text # <<>> =>
              /\ Line(c, e).previous = Millis(e.time)
              /\ Line(c, e).lines =
                   Append(c.lines, [time2 |-> Millis(e.time),
                                    time3 |-> Millis(e.time) - c.previous,
                                    kind |-> e.kind,
                                    text |-> DecodePiece(c.held[e.kind], e.bytes).text])
<1> DEFINE piece == DecodePiece(c.held[e.kind], e.bytes)
           now == Millis(e.time)
           line == [time2 |-> now, time3 |-> now - c.previous,
                    kind |-> e.kind, text |-> piece.text]
           held == [k \in Kind |-> IF k \in {e.kind} THEN piece.held ELSE c.held[k]]
           previous == IF piece.text # <<>> THEN now ELSE c.previous
           lines == IF piece.text = <<>> THEN c.lines ELSE Append(c.lines, line)
<1>1. /\ e.kind \in Kind /\ e.bytes \in Seq(Byte) /\ e.time \in Nat
      /\ c.held \in [Kind -> BOOLEAN] /\ c.previous \in Int /\ c.lines \in Seq(LineType)
  BY DEF Event, CastState
<1>2. piece \in Decoder
  <2>1. c.held[e.kind] \in BOOLEAN
    BY <1>1
  <2> QED BY <1>1, <2>1, DecodePieceType, Zenon
<1>3. now \in Int
  BY <1>1, MillisType, Zenon
<1>4. Line(c, e) = [held |-> held, previous |-> previous, lines |-> lines]
  BY Zenon DEF Line, TheDecoderOf, MovesOn
<1> HIDE DEF piece, now
<1>5. line \in LineType
  BY <1>1, <1>2, <1>3 DEF LineType, Decoder
<1>6. held \in [Kind -> BOOLEAN] /\ previous \in Int
  BY <1>1, <1>2, <1>3 DEF Decoder
<1>7. lines \in Seq(LineType)
  <2> HIDE DEF line
  <2> QED BY <1>1, <1>5, AppendProperties
<1>8. \A k \in Kind : held[k] = IF k = e.kind THEN piece.held ELSE c.held[k]
  OBVIOUS
<1>9. /\ piece.text = <<>> => previous = c.previous /\ lines = c.lines
      /\ piece.text # <<>> => previous = now /\ lines = Append(c.lines, line)
  BY Zenon
<1> HIDE DEF held, previous, lines
<1>10. /\ Line(c, e).held = held /\ Line(c, e).previous = previous /\ Line(c, e).lines = lines
       /\ Line(c, e) \in CastState
  BY <1>4, <1>6, <1>7 DEF CastState
<1> QED BY <1>8, <1>9, <1>10, Zenon DEF line, piece, now

casting == [p \in CastState \X Event |-> Line(p[1], p[2])]

\* Casting is one turn of the loop for each event.
LEMMA CastingIs ==
  ASSUME NEW evs \in Seq(Event)
  PROVE  Accumulates(Casting(evs), CastState, NewCast, casting, evs)
<1> DEFINE N == Len(evs)
           Body(h) == [n \in 0..N |-> IF n = 0 THEN NewCast ELSE Line(h[n - 1], evs[n])]
           after == CHOOSE h : h = Body(h)
<1>1. N \in Nat /\ NewCast \in CastState /\ \A n \in 1..N : evs[n] \in Event
  BY LenProperties, ElementOfSeq, EmptySeq DEF NewCast, CastState
<1>2. /\ casting \in [CastState \X Event -> CastState]
      /\ \A c \in CastState, e \in Event : casting[<<c, e>>] = Line(c, e)
  BY LineIs DEF casting
<1>3. Casting(evs) = after
  BY Zenon DEF Casting
<1>4. PICK f : Accumulates(f, CastState, NewCast, casting, evs)
  BY <1>1, <1>2, RecursionExists, Zenon
<1>5. f = Body(f)
  <2>1. f = [n \in 0..N |-> f[n]] /\ f[0] = NewCast
    BY <1>4 DEF Accumulates
  <2>2. ASSUME NEW n \in 1..N PROVE f[n] = Line(f[n - 1], evs[n])
    <3>1. n - 1 \in 0..N
      BY <1>1
    <3>2. f[n - 1] \in CastState /\ evs[n] \in Event
      BY <1>1, <1>4, <3>1 DEF Accumulates
    <3>3. f[n] = casting[<<f[n - 1], evs[n]>>]
      BY <1>4, Zenon DEF Accumulates
    <3> QED BY <1>2, <3>2, <3>3, Zenon
  <2>3. \A n \in 0..N : f[n] = IF n = 0 THEN NewCast ELSE Line(f[n - 1], evs[n])
    BY <1>1, <2>1, <2>2
  <2> HIDE DEF N
  <2> QED BY <2>1, <2>3
<1> HIDE DEF after, Body
<1>6. after = Body(after)
  BY <1>5, Zenon DEF after
<1>7. /\ after = [n \in 0..N |-> after[n]] /\ after[0] = NewCast
      /\ \A n \in 1..N : after[n] = Line(after[n - 1], evs[n])
  BY <1>1, <1>6 DEF Body
<1>8. \A n \in 1..N : after[n - 1] \in CastState
        => after[n] = casting[<<after[n - 1], evs[n]>>]
  BY <1>1, <1>2, <1>7, Zenon
<1>9. Follows(after, CastState, NewCast, casting, evs)
  BY <1>7, <1>8, Zenon DEF Follows
<1>10. after = f
  BY <1>4, <1>9, OnlyOne, Zenon
<1> QED BY <1>3, <1>4, <1>10, Zenon

\* What a cast says of the events it was made of.
Tells(c, evs) ==
  /\ \A k \in Kind : /\ c.held[k] = EndsHeld(BytesOf(evs, k))
                     /\ TextOf(c.lines, k) = WholeText(BytesOf(evs, k))
  /\ c.previous = Played(c.lines)[Len(c.lines)]
  /\ TimesAgree(c.lines)

\* One event more, and it tells of that as well.
LEMMA LineTells ==
  ASSUME NEW c \in CastState, NEW evs \in Seq(Event), Tells(c, evs),
         NEW e \in Event
  PROVE  Tells(Line(c, e), Append(evs, e))
<1> DEFINE piece == DecodePiece(c.held[e.kind], e.bytes)
           d == Line(c, e)
           more == Append(evs, e)
           now == Millis(e.time)
           line == [time2 |-> now, time3 |-> now - c.previous,
                    kind |-> e.kind, text |-> piece.text]
<1>1. /\ e.kind \in Kind /\ e.bytes \in Seq(Byte) /\ now \in Int
      /\ c.lines \in Seq(LineType) /\ c.previous \in Int
  BY MillisType DEF Event, CastState
<1>2. /\ d \in CastState
      /\ \A k \in Kind : d.held[k] = IF k = e.kind THEN piece.held ELSE c.held[k]
      /\ piece.text = <<>> => d.previous = c.previous /\ d.lines = c.lines
      /\ piece.text # <<>> => d.previous = now /\ d.lines = Append(c.lines, line)
  BY LineIs, Zenon
<1> DEFINE before == BytesOf(evs, e.kind)
<1>3. /\ \A k : /\ BytesOf(evs, k) \in Seq(Byte)
                /\ BytesOf(more, k)
                     = BytesOf(evs, k) \o (IF e.kind = k THEN e.bytes ELSE <<>>)
  BY BytesOfAppend, Zenon
<1>4. c.held[e.kind] = EndsHeld(before) /\ TextOf(c.lines, e.kind) = WholeText(before)
  BY <1>1, Zenon DEF Tells
<1> HIDE DEF before
<1>5. /\ piece \in Decoder
      /\ piece.held = EndsHeld(before \o e.bytes)
      /\ WholeText(before \o e.bytes) = WholeText(before) \o piece.text
  BY <1>1, <1>3, <1>4, DecodeTells, ZenonT(30) DEF before
<1> HIDE DEF piece, d, more, now
<1>6. line \in LineType /\ line.kind = e.kind /\ line.text = piece.text
      /\ line.time2 = now /\ line.time3 = now - c.previous
  BY <1>1, <1>5 DEF LineType, Decoder
<1> HIDE DEF line
<1>7. ASSUME NEW k \in Kind
      PROVE  d.held[k] = EndsHeld(BytesOf(more, k))
  <2>1. CASE k = e.kind
    BY <1>2, <1>3, <1>5, <2>1, Zenon DEF before
  <2>2. CASE k # e.kind
    <3>1. BytesOf(more, k) = BytesOf(evs, k)
      BY <1>3, <2>2, ConcatEmptySeq, Zenon
    <3> QED BY <1>2, <2>2, <3>1, Zenon DEF Tells
  <2> QED BY <2>1, <2>2
<1>8. ASSUME NEW k \in Kind
      PROVE  TextOf(d.lines, k) = WholeText(BytesOf(more, k))
  <2>1. TextOf(c.lines, k) = WholeText(BytesOf(evs, k))
    BY Zenon DEF Tells
  <2>2. WholeText(BytesOf(evs, k)) \in Seq(Char)
    BY <1>3, WholeTextType, Zenon
  <2>3. WholeText(BytesOf(more, k))
          = TextOf(c.lines, k) \o (IF e.kind = k THEN piece.text ELSE <<>>)
    <3>1. CASE k = e.kind
      BY <1>3, <1>4, <1>5, <3>1, Zenon DEF before
    <3>2. CASE k # e.kind
      <4>1. BytesOf(more, k) = BytesOf(evs, k)
        BY <1>3, <3>2, ConcatEmptySeq, Zenon
      <4>2. TextOf(c.lines, k) \o <<>> = TextOf(c.lines, k)
        BY <2>1, <2>2, ConcatEmptySeq, Zenon
      <4> QED BY <2>1, <3>2, <4>1, <4>2, Zenon
    <3> QED BY <3>1, <3>2
  <2>4. CASE piece.text = <<>>
    <3>1. TextOf(c.lines, k) \o <<>> = TextOf(c.lines, k)
      BY <2>1, <2>2, ConcatEmptySeq, Zenon
    <3>2. WholeText(BytesOf(more, k)) = TextOf(c.lines, k)
      <4>1. (IF e.kind = k THEN piece.text ELSE <<>>) = <<>>
        BY <2>4, Zenon
      <4> QED BY <2>3, <3>1, <4>1, Zenon
    <3> QED BY <1>2, <2>4, <3>2, Zenon
  <2>5. CASE piece.text # <<>>
    <3>1. TextOf(Append(c.lines, line), k)
            = TextOf(c.lines, k) \o (IF line.kind = k THEN line.text ELSE <<>>)
      BY <1>1, <1>6, TextOfAppend, ZenonT(30)
    <3> QED BY <1>2, <1>6, <2>3, <2>5, <3>1, Zenon
  <2> QED BY <2>4, <2>5
<1>9. d.previous = Played(d.lines)[Len(d.lines)] /\ TimesAgree(d.lines)
  <2>1. CASE piece.text = <<>>
    BY <1>2, <2>1, Zenon DEF Tells
  <2>2. CASE piece.text # <<>>
    <3> DEFINE lines == c.lines
               longer == Append(lines, line)
               N == Len(lines)
    <3>1. /\ longer \in Seq(LineType) /\ N \in Nat /\ Len(longer) = N + 1
          /\ \A n \in 1..N : longer[n] = lines[n]
          /\ longer[N + 1] = line
      BY <1>1, <1>6, AppendProperties, LenProperties
    <3>2. /\ \A n \in 0..N : Played(longer)[n] = Played(lines)[n]
          /\ Played(longer)[N + 1] = Played(lines)[N] + line.time3
      BY <1>1, <1>6, PlayedAppend, Zenon
    <3>3. /\ c.previous = Played(lines)[N]
          /\ \A n \in 1..N : Played(lines)[n] = lines[n].time2
      BY Zenon DEF Tells, TimesAgree
    <3> HIDE DEF lines, longer
    <3>4. Played(longer)[N + 1] = now
      <4>1. Played(longer)[N + 1] = c.previous + (now - c.previous)
        BY <1>6, <3>2, <3>3, Zenon
      <4>2. c.previous + (now - c.previous) = now
        BY <1>1
      <4> QED BY <4>1, <4>2, Zenon
    <3>5. ASSUME NEW n \in 1..(N + 1) PROVE Played(longer)[n] = longer[n].time2
      <4>1. CASE n = N + 1
        BY <1>6, <3>1, <3>4, <4>1, Zenon
      <4>2. CASE n # N + 1
        <5>1. n \in 1..N /\ n \in 0..N
          BY <3>1, <4>2
        <5> QED BY <3>1, <3>2, <3>3, <5>1, Zenon
      <4> QED BY <4>1, <4>2
    <3>6. TimesAgree(longer)
      BY <3>1, <3>5, Zenon DEF TimesAgree
    <3>7. d.lines = longer /\ d.previous = now
      BY <1>2, <2>2, Zenon DEF longer, lines
    <3> QED BY <3>1, <3>4, <3>6, <3>7, Zenon
  <2> QED BY <2>1, <2>2
<1> QED BY <1>7, <1>8, <1>9, Zenon DEF Tells, d, more

\* A cast of nothing tells of nothing.
LEMMA NewCastTells == Tells(NewCast, <<>>)
<1>1. Len(<<>>) = 0 /\ NewCast.lines = <<>> /\ NewCast.previous = 0
  BY DEF NewCast
<1>2. \A k \in Kind : NewCast.held[k] = FALSE
  BY DEF NewCast
<1>3. \A k : BytesOf(<<>>, k) = <<>> /\ TextOf(<<>>, k) = <<>>
  BY OfNone
<1>4. EndsHeld(<<>>) = FALSE
  BY DEF EndsHeld
<1>5. WholeText(<<>>) = <<>>
  <2>1. [i \in 1..Len(<<>>) |-> TextAt(<<>>, i)] = <<>>
    OBVIOUS
  <2> QED BY <2>1, FlattenEmpty, Zenon DEF WholeText
<1>6. Played(<<>>)[0] = 0
  <2>1. <<>> \in Seq(LineType)
    BY EmptySeq
  <2> QED BY <2>1, PlayedTells, Zenon
<1>7. TimesAgree(<<>>)
  BY DEF TimesAgree
<1> QED BY <1>1, <1>2, <1>3, <1>4, <1>5, <1>6, <1>7, Zenon DEF Tells

\* Whatever was recorded, however it was cut and whatever came between: the
\* cast has the text of every byte of each direction, and the times of both
\* versions agree at every line.
THEOREM CastTells ==
  ASSUME NEW evs \in Seq(Event)
  PROVE  /\ \A kind \in Kind :
              TextOf(Cast(evs), kind) = WholeText(BytesOf(evs, kind))
         /\ TimesAgree(Cast(evs))
<1> DEFINE N == Len(evs)
           c == Casting(evs)
           T == {n \in 0..N : Tells(c[n], SubSeq(evs, 1, n))}
<1>1. N \in Nat /\ Accumulates(c, CastState, NewCast, casting, evs)
  BY CastingIs, LenProperties, Zenon
<1> HIDE DEF c
<1>2. c[0] = NewCast /\ \A n \in 0..N : c[n] \in CastState
  BY <1>1 DEF Accumulates
<1>3. 0 \in T
  <2>1. SubSeq(evs, 1, 0) = <<>>
    BY SubSeqEmpty
  <2>2. Tells(c[0], SubSeq(evs, 1, 0))
    BY <1>2, <2>1, NewCastTells, Zenon
  <2> QED BY <1>1, <2>2
<1>4. ASSUME NEW n \in 1..N, n - 1 \in T PROVE n \in T
  <2> DEFINE so == SubSeq(evs, 1, n - 1)
  <2>1. n - 1 \in 0..N /\ n \in 0..N
    BY <1>1
  <2>2. so \in Seq(Event) /\ evs[n] \in Event /\ SubSeq(evs, 1, n) = Append(so, evs[n])
    <3>1. /\ SubSeq(evs, 1, n) \in Seq(Event) /\ so \in Seq(Event)
      BY <1>1, <2>1, SubSeqProperties, ElementOfSeq
    <3>2. <<>> \in Seq(Event) /\ <<>> \o SubSeq(evs, 1, n) = SubSeq(evs, 1, n)
          /\ <<>> \o so = so
      BY <3>1, ConcatEmptySeq, EmptySeq, Zenon
    <3>3. <<>> \o SubSeq(evs, 1, n) = Append(<<>> \o so, evs[n]) /\ evs[n] \in Event
      BY <3>2, FrontGrows, Zenon
    <3> QED BY <3>1, <3>2, <3>3, Zenon
  <2>3. Tells(c[n - 1], so)
    BY <1>4
  <2>4. c[n] = Line(c[n - 1], evs[n])
    <3>1. c[n - 1] \in CastState
      BY <1>2, <2>1
    <3>2. c[n] = casting[<<c[n - 1], evs[n]>>]
      BY <1>1, Zenon DEF Accumulates
    <3>3. casting[<<c[n - 1], evs[n]>>] = Line(c[n - 1], evs[n])
      BY <2>2, <3>1 DEF casting
    <3> QED BY <3>2, <3>3, Zenon
  <2> HIDE DEF so
  <2>5. Tells(c[n], SubSeq(evs, 1, n))
    BY <1>2, <2>1, <2>2, <2>3, <2>4, LineTells, Zenon
  <2> QED BY <2>1, <2>5
<1>5. \A n \in 0..N : n \in T
  <2> HIDE DEF T, N
  <2> QED BY <1>1, <1>3, <1>4, AllTheWay
<1>6. N \in 0..N /\ SubSeq(evs, 1, N) = evs
  BY <1>1, SubSeqFull
<1>7. Tells(c[N], evs)
  BY <1>5, <1>6
<1>8. Cast(evs) = c[N].lines
  BY Zenon DEF Cast, c
<1> QED BY <1>7, <1>8, Zenon DEF Tells

-----------------------------------------------------------------------------
(* The recording.                                                          *)

USE RoomsAssumption, ScriptAssumption, GoneRaisesAssumption

Inductive ==
  /\ TypeOK
  /\ DrawnIsRecorded /\ TypedIsRecorded /\ EventsHaveBytes
  /\ NothingBehindTheEnd /\ EndedMeansComplete

\* Bytes are recorded, and counted.
LEMMA RecordedType ==
  ASSUME events \in Seq(Event), NEW k
  PROVE  BytesOf(events, k) \in Seq(Byte) /\ Recorded(k) \in Nat
<1>1. [kind |-> "out", bytes |-> <<>>, time |-> 0] \in Event
  BY EmptySeq DEF Event, Kind
<1>2. BytesOf(events, k) \in Seq(Byte)
  BY <1>1, BytesOfAppend, Zenon
<1> QED BY <1>2, LenProperties DEF Recorded

\* A piece is recorded behind the others of its kind.
LEMMA RecordsTells ==
  ASSUME events \in Seq(Event), Len(events) < Len(Moments),
         NEW kind \in Kind, NEW bytes \in Seq(Byte), Records(kind, bytes)
  PROVE  /\ events' \in Seq(Event) /\ Len(events') = Len(events) + 1
         /\ BytesOf(events', kind) = BytesOf(events, kind) \o bytes
         /\ \A k : k # kind => BytesOf(events', k) = BytesOf(events, k)
<1> DEFINE e == [kind |-> kind, bytes |-> bytes, time |-> Moments[Len(events) + 1]]
<1>1. e \in Event /\ e.kind = kind /\ e.bytes = bytes
  <2>1. Moments[Len(events) + 1] \in Nat
    <3>1. Len(events) + 1 \in 1..Len(Moments)
      BY LenProperties
    <3> QED BY <3>1, ElementOfSeq
  <2> QED BY <2>1 DEF Event
<1>2. events' = Append(events, e)
  BY DEF Records
<1> HIDE DEF e
<1>3. \A k : /\ BytesOf(events, k) \in Seq(Byte)
             /\ BytesOf(events', k)
                  = BytesOf(events, k) \o (IF kind = k THEN bytes ELSE <<>>)
  BY <1>1, <1>2, BytesOfAppend, Zenon
<1>4. events' \in Seq(Event) /\ Len(events') = Len(events) + 1
  BY <1>1, <1>2, AppendProperties
<1>5. \A k : k # kind => BytesOf(events', k) = BytesOf(events, k)
  BY <1>3, ConcatEmptySeq, Zenon
<1>6. BytesOf(events', kind) = BytesOf(events, kind) \o bytes
  BY <1>3, Zenon
<1> QED BY <1>4, <1>5, <1>6

\* The first of a sequence, and what comes behind.
LEMMA FirstOnes ==
  ASSUME NEW C, NEW s \in Seq(C), NEW d \in 0..Len(s), NEW r \in 0..d
  PROVE  /\ SubSeq(s, 1, r) \o SubSeq(s, r + 1, d) = SubSeq(s, 1, d)
         /\ SubSeq(s, r + 1, d) \in Seq(C)
         /\ SubSeq(s, 1, d) \in Seq(C) /\ Len(SubSeq(s, 1, d)) = d
<1>1. d \in Int /\ r \in Int /\ r + 1 \in Int /\ 1 \in Int /\ Len(s) \in Nat
  BY LenProperties
<1>2. 1 \in 1..(Len(s) + 1) /\ r \in (1 - 1)..Len(s) /\ d \in r..Len(s)
  BY <1>1
<1>3. SubSeq(s, 1, r) \o SubSeq(s, r + 1, d) = SubSeq(s, 1, d)
  BY <1>2, ConcatAdjacentSubSeq, Zenon
<1>4. \A i \in 1..d : s[i] \in C
  BY <1>1, ElementOfSeq
<1>5. \A i \in (r + 1)..d : s[i] \in C
  BY <1>1, ElementOfSeq
<1>6. /\ SubSeq(s, 1, d) \in Seq(C)
      /\ Len(SubSeq(s, 1, d)) = IF 1 <= d THEN d - 1 + 1 ELSE 0
  BY <1>1, <1>4, SubSeqProperties
<1>7. SubSeq(s, r + 1, d) \in Seq(C)
  BY <1>1, <1>5, SubSeqProperties
<1>8. Len(SubSeq(s, 1, d)) = d
  <2> DEFINE l == Len(SubSeq(s, 1, d))
  <2>1. l = IF 1 <= d THEN d - 1 + 1 ELSE 0
    BY <1>6
  <2> HIDE DEF l
  <2>2. l = d
    BY <1>1, <2>1
  <2> QED BY <2>2 DEF l
<1> QED BY <1>3, <1>6, <1>7, <1>8

\* Every key that is written is recorded, behind the ones before.
LEMMA KeysAreRecorded ==
  ASSUME Inductive, pc = "typing",
         Records("in", SubSeq(Typed, Recorded("in") + 1, typedAll - typed))
  PROVE  /\ events' \in Seq(Event) /\ Len(events') = Len(events) + 1
         /\ BytesOf(events', "out") = BytesOf(events, "out")
         /\ BytesOf(events', "in") = SubSeq(Typed, 1, typedAll - typed)
         /\ Len(BytesOf(events', "in")) = typedAll - typed
<1> DEFINE r == Recorded("in")
           d == typedAll - typed
<1>1. events \in Seq(Event) /\ typedAll \in 0..Len(Typed) /\ typed \in 0..typedAll /\ drew \in 0..Len(Drawn)
  BY DEF Inductive, TypeOK, LoopOK, OthersOK
<1>2. r \in Nat /\ Recorded("out") \in Nat /\ Len(events) \in Nat /\ Len(Typed) \in Nat
      /\ Len(Drawn) \in Nat /\ Len(Moments) \in Nat
  BY <1>1, RecordedType, LenProperties
<1>3. d \in 0..Len(Typed) /\ r \in 0..d /\ r < d
  BY <1>1, <1>2 DEF Inductive, TypedIsRecorded
<1>4. Len(events) < Len(Moments)
  BY <1>1, <1>2, <1>3 DEF Inductive, EventsHaveBytes, DrawnIsRecorded
<1>5. BytesOf(events, "in") = SubSeq(Typed, 1, r)
  BY DEF Inductive, TypedIsRecorded
<1> HIDE DEF r, d
<1>6. /\ SubSeq(Typed, 1, r) \o SubSeq(Typed, r + 1, d) = SubSeq(Typed, 1, d)
      /\ SubSeq(Typed, r + 1, d) \in Seq(Byte)
      /\ Len(SubSeq(Typed, 1, d)) = d
  <2>1. Typed \in Seq(Byte) /\ d \in 0..Len(Typed) /\ r \in 0..d
    BY <1>3
  <2> QED BY <2>1, FirstOnes, ZenonT(30)
<1>7. Records("in", SubSeq(Typed, r + 1, d))
  BY DEF r, d
<1>8. "in" \in Kind /\ "out" # "in"
  BY DEF Kind
<1>9. /\ events' \in Seq(Event) /\ Len(events') = Len(events) + 1
      /\ BytesOf(events', "in") = BytesOf(events, "in") \o SubSeq(Typed, r + 1, d)
      /\ BytesOf(events', "out") = BytesOf(events, "out")
  BY <1>1, <1>4, <1>6, <1>7, <1>8, RecordsTells, Zenon
<1> QED BY <1>5, <1>6, <1>9, Zenon DEF d

\* Everything that was drawn is recorded by a read.
LEMMA DrawnAreRecorded ==
  ASSUME Inductive, Unread > 0,
         Records("out", SubSeq(Drawn, Recorded("out") + 1, drew))
  PROVE  /\ events' \in Seq(Event) /\ Len(events') = Len(events) + 1
         /\ BytesOf(events', "in") = BytesOf(events, "in")
         /\ BytesOf(events', "out") = SubSeq(Drawn, 1, drew)
         /\ Len(BytesOf(events', "out")) = drew
<1> DEFINE r == Recorded("out")
<1>1. events \in Seq(Event) /\ typedAll \in 0..Len(Typed) /\ typed \in 0..typedAll /\ drew \in 0..Len(Drawn)
  BY DEF Inductive, TypeOK, LoopOK, OthersOK
<1>2. r \in Nat /\ Recorded("in") \in Nat /\ Len(events) \in Nat /\ Len(Typed) \in Nat
      /\ Len(Drawn) \in Nat /\ Len(Moments) \in Nat
  BY <1>1, RecordedType, LenProperties
<1>3. r \in 0..drew /\ r < drew
  BY <1>1, <1>2 DEF Inductive, DrawnIsRecorded, Unread
<1>4. Len(events) < Len(Moments)
  BY <1>1, <1>2, <1>3 DEF Inductive, EventsHaveBytes, TypedIsRecorded
<1>5. BytesOf(events, "out") = SubSeq(Drawn, 1, r)
  BY DEF Inductive, DrawnIsRecorded
<1> HIDE DEF r
<1>6. /\ SubSeq(Drawn, 1, r) \o SubSeq(Drawn, r + 1, drew) = SubSeq(Drawn, 1, drew)
      /\ SubSeq(Drawn, r + 1, drew) \in Seq(Byte)
      /\ Len(SubSeq(Drawn, 1, drew)) = drew
  <2>1. Drawn \in Seq(Byte) /\ drew \in 0..Len(Drawn) /\ r \in 0..drew
    BY <1>1, <1>3
  <2> QED BY <2>1, FirstOnes, ZenonT(30)
<1>7. Records("out", SubSeq(Drawn, r + 1, drew))
  BY DEF r
<1>8. "out" \in Kind /\ "in" # "out"
  BY DEF Kind
<1>9. /\ events' \in Seq(Event) /\ Len(events') = Len(events) + 1
      /\ BytesOf(events', "out") = BytesOf(events, "out") \o SubSeq(Drawn, r + 1, drew)
      /\ BytesOf(events', "in") = BytesOf(events, "in")
  BY <1>1, <1>4, <1>6, <1>7, <1>8, RecordsTells, Zenon
<1> QED BY <1>5, <1>6, <1>9, Zenon

\* Nobody draws, types or takes more than there is.
LEMMA OthersOKStep ==
  ASSUME OthersOK, [Next]_vars
  PROVE  OthersOK'
<1> USE DEF OthersOK
<1>1. CASE Decide
  BY <1>1 DEF Decide, Stop, DeadlineIsUp, program, person, timers
<1>2. CASE Select
  BY <1>2 DEF Select, SelectReturns, Readable, program, person, timers
<1>3. CASE ReadKeyboard
  BY <1>3 DEF ReadKeyboard, program, person, timers
<1>4. CASE WriteKey
  <2>1. keys' = keys + 1 /\ keys < InRoom /\ UNCHANGED <<program, person, raises>>
    BY <1>4 DEF WriteKey
  <2> QED BY <2>1 DEF program, person
<1>5. CASE WriteRaises
  BY <1>5 DEF WriteRaises, Stop, program, person, timers
<1>6. CASE ReadMaster
  <2>1. UNCHANGED <<program, keys, person, raises>>
    BY <1>6 DEF ReadMaster
  <2> QED BY <2>1 DEF program, person
<1>7. CASE CloseMaster
  BY <1>7 DEF CloseMaster, program, person, timers
<1>8. CASE HangUp
  BY <1>8 DEF HangUp, program, person, timers
<1>9. CASE GraceFindsEnded
  BY <1>9 DEF GraceFindsEnded, program, person, timers
<1>10. CASE GraceIsOver
  BY <1>10 DEF GraceIsOver, program, person, timers
<1>11. CASE Kill
  BY <1>11 DEF Kill, program, person, timers
<1>12. CASE WaitFindsEnded
  BY <1>12 DEF WaitFindsEnded, program, person, timers
<1>13. CASE ProgramDraws
  BY <1>13 DEF ProgramDraws, program, person, timers
<1>14. CASE ProgramReads
  BY <1>14 DEF ProgramReads, program, person, timers
<1>15. CASE LetsGo
  BY <1>15 DEF LetsGo, program, person, timers
<1>16. CASE Exits \/ IsKilled
  BY <1>16 DEF Exits, IsKilled, Dies, program, person, timers
<1>17. CASE Types
  BY <1>17 DEF Types, program, person, timers
<1>18. CASE KeyboardEnds
  BY <1>18 DEF KeyboardEnds, program, person, timers
<1>19. CASE TimeoutIsUp
  BY <1>19 DEF TimeoutIsUp, program, person, timers
<1>20. CASE IdleIsUp
  BY <1>20 DEF IdleIsUp, program, person, timers
<1>21. CASE GraceIsUp
  BY <1>21 DEF GraceIsUp, program, person, timers
<1>22. CASE UNCHANGED vars
  BY <1>22 DEF vars, program, person, timers
<1> QED BY <1>1, <1>2, <1>3, <1>4, <1>5, <1>6, <1>7, <1>8, <1>9, <1>10, <1>11,
           <1>12, <1>13, <1>14, <1>15, <1>16, <1>17, <1>18, <1>19, <1>20, <1>21,
           <1>22 DEF Next, LoopStep, StopStep

\* The recording keeps its type, and what is in hand was typed.
LEMMA LoopOKStep ==
  ASSUME Inductive, [Next]_vars
  PROVE  LoopOK'
<1> USE DEF LoopOK, Calls, Timer
<1>1. CASE Decide
  BY <1>1 DEF Decide, Stop, DeadlineIsUp, program, person, timers, Inductive,
     TypeOK
<1>2. CASE Select
  BY <1>2 DEF Select, SelectReturns, Readable, program, person, timers,
     Inductive,
     TypeOK
<1>3. CASE ReadKeyboard
  <2>1. typed \in Nat
    BY DEF Inductive, TypeOK, OthersOK
  <2>2. /\ pc' \in {"typing", "master"} /\ inHand' \in {inHand, typed}
        /\ UNCHANGED <<ready, reason, events, timers>>
    BY <1>3 DEF ReadKeyboard
  <2>3. watched' \in BOOLEAN
    <3>1. watched' = watched \/ watched' = (typed > 0)
      BY <1>3, Zenon DEF ReadKeyboard
    <3>2. (typed > 0) \in BOOLEAN
      OBVIOUS
    <3>3. watched \in BOOLEAN
      BY Zenon DEF Inductive, TypeOK
    <3> QED BY <3>1, <3>2, <3>3, Zenon
  <2> QED BY <2>1, <2>2, <2>3 DEF timers, Inductive, TypeOK
<1>4. CASE WriteKey
  <2>1. events' \in Seq(Event) /\ pc' \in Calls
    <3>1. CASE inHand' = 0
      BY <1>4, <3>1, KeysAreRecorded DEF WriteKey
    <3>2. CASE inHand' # 0
      BY <1>4, <3>2 DEF WriteKey, Inductive, TypeOK
    <3> QED BY <3>1, <3>2
  <2>2. inHand' \in Nat
    BY <1>4 DEF WriteKey, Inductive, TypeOK
  <2>3. UNCHANGED <<ready, reason, watched, timers>>
    BY <1>4 DEF WriteKey
  <2> QED BY <2>1, <2>2, <2>3 DEF timers, Inductive, TypeOK
<1>5. CASE WriteRaises
  BY <1>5 DEF WriteRaises, Stop, program, person, timers, Inductive, TypeOK
<1>6. CASE ReadMaster
  <2>1. events' \in Seq(Event)
    <3>1. CASE UNCHANGED events
      BY <3>1 DEF Inductive, TypeOK
    <3>2. CASE Unread > 0 /\ Records("out", SubSeq(Drawn, Recorded("out") + 1, drew))
      BY <3>2, DrawnAreRecorded
    <3> QED BY <1>6, <3>1, <3>2 DEF ReadMaster
  <2>2. /\ pc' \in {"deciding", "closing"} /\ reason' \in {reason, "ended"}
        /\ settles' \in {settles, "off", "running"}
    BY <1>6 DEF ReadMaster, Stop
  <2>3. UNCHANGED <<ready, inHand, watched, timeout, grace>>
    BY <1>6 DEF ReadMaster
  <2> QED BY <2>1, <2>2, <2>3 DEF Inductive, TypeOK
<1>7. CASE CloseMaster
  BY <1>7 DEF CloseMaster, program, person, timers, Inductive, TypeOK
<1>8. CASE HangUp
  BY <1>8 DEF HangUp, program, person, timers, Inductive, TypeOK
<1>9. CASE GraceFindsEnded
  BY <1>9 DEF GraceFindsEnded, program, person, timers, Inductive, TypeOK
<1>10. CASE GraceIsOver
  BY <1>10 DEF GraceIsOver, program, person, timers, Inductive, TypeOK
<1>11. CASE Kill
  BY <1>11 DEF Kill, program, person, timers, Inductive, TypeOK
<1>12. CASE WaitFindsEnded
  BY <1>12 DEF WaitFindsEnded, program, person, timers, Inductive, TypeOK
<1>13. CASE ProgramDraws
  BY <1>13 DEF ProgramDraws, program, person, timers, Inductive, TypeOK
<1>14. CASE ProgramReads
  BY <1>14 DEF ProgramReads, program, person, timers, Inductive, TypeOK
<1>15. CASE LetsGo
  BY <1>15 DEF LetsGo, program, person, timers, Inductive, TypeOK
<1>16. CASE Exits \/ IsKilled
  BY <1>16 DEF Exits, IsKilled, Dies, program, person, timers, Inductive, TypeOK
<1>17. CASE Types
  BY <1>17 DEF Types, program, person, timers, Inductive, TypeOK
<1>18. CASE KeyboardEnds
  BY <1>18 DEF KeyboardEnds, program, person, timers, Inductive, TypeOK
<1>19. CASE TimeoutIsUp
  BY <1>19 DEF TimeoutIsUp, program, person, timers, Inductive, TypeOK
<1>20. CASE IdleIsUp
  BY <1>20 DEF IdleIsUp, program, person, timers, Inductive, TypeOK
<1>21. CASE GraceIsUp
  BY <1>21 DEF GraceIsUp, program, person, timers, Inductive, TypeOK
<1>22. CASE UNCHANGED vars
  BY <1>22 DEF vars, program, person, timers, Inductive, TypeOK
<1> QED BY <1>1, <1>2, <1>3, <1>4, <1>5, <1>6, <1>7, <1>8, <1>9, <1>10, <1>11,
           <1>12, <1>13, <1>14, <1>15, <1>16, <1>17, <1>18, <1>19, <1>20, <1>21,
           <1>22 DEF Next, LoopStep, StopStep

\* What is recorded of the output is the first of what was drawn.
LEMMA DrawnStep ==
  ASSUME Inductive, [Next]_vars
  PROVE  DrawnIsRecorded'
<1> USE DEF Inductive, DrawnIsRecorded, Recorded
<1>0. /\ events \in Seq(Event) /\ Recorded("out") \in Nat /\ Recorded("in") \in Nat
      /\ Len(events) \in Nat
      /\ typedAll \in 0..Len(Typed) /\ typed \in 0..typedAll /\ drew \in 0..Len(Drawn)
      /\ Len(Typed) \in Nat /\ Len(Drawn) \in Nat
  BY RecordedType, LenProperties DEF Inductive, TypeOK, LoopOK, OthersOK
<1>1. CASE Decide
  BY <1>0, <1>1 DEF Decide, Stop, DeadlineIsUp, program, person, timers
<1>2. CASE Select
  BY <1>0, <1>2 DEF Select, SelectReturns, Readable, program, person, timers
<1>3. CASE ReadKeyboard
  BY <1>0, <1>3 DEF ReadKeyboard, program, person, timers
<1>4. CASE WriteKey
  <2>1. CASE inHand' = 0
    <3>1. BytesOf(events', "out") = BytesOf(events, "out")
      BY <1>4, <2>1, KeysAreRecorded DEF WriteKey
    <3>2. UNCHANGED <<reason, program, person>> /\ pc = "typing" /\ pc' = "master"
      BY <1>0, <1>4, <2>1 DEF WriteKey, person
    <3> QED BY <1>0, <3>1, <3>2 DEF program
  <2>2. CASE inHand' # 0
    BY <1>0, <1>4, <2>2 DEF WriteKey, program, person
  <2> QED BY <2>1, <2>2
<1>5. CASE WriteRaises
  BY <1>0, <1>5 DEF WriteRaises, Stop, program, person, timers
<1>6. CASE ReadMaster
  <2>1. CASE Unread > 0 /\ Records("out", SubSeq(Drawn, Recorded("out") + 1, drew))
             /\ UNCHANGED reason /\ pc' = "deciding"
    <3>1. /\ BytesOf(events', "out") = SubSeq(Drawn, 1, drew)
          /\ Len(BytesOf(events', "out")) = drew
      BY <2>1, DrawnAreRecorded
    <3>2. UNCHANGED <<program, person>> /\ pc = "master"
      BY <1>0, <1>6 DEF ReadMaster
    <3> QED BY <1>0, <2>1, <3>1, <3>2 DEF program
  <2>2. CASE UNCHANGED events /\ pc' \in {"deciding", "closing"}
             /\ (UNCHANGED reason \/ reason' = "ended")
    BY <1>0, <1>6, <2>2 DEF ReadMaster, program, person
  <2> QED BY <1>6, <2>1, <2>2 DEF ReadMaster, Stop
<1>7. CASE CloseMaster
  BY <1>0, <1>7 DEF CloseMaster, program, person, timers
<1>8. CASE HangUp
  BY <1>0, <1>8 DEF HangUp, program, person, timers
<1>9. CASE GraceFindsEnded
  BY <1>0, <1>9 DEF GraceFindsEnded, program, person, timers
<1>10. CASE GraceIsOver
  BY <1>0, <1>10 DEF GraceIsOver, program, person, timers
<1>11. CASE Kill
  BY <1>0, <1>11 DEF Kill, program, person, timers
<1>12. CASE WaitFindsEnded
  BY <1>0, <1>12 DEF WaitFindsEnded, program, person, timers
<1>13. CASE ProgramDraws
  BY <1>0, <1>13 DEF ProgramDraws, program, person, timers
<1>14. CASE ProgramReads
  BY <1>0, <1>14 DEF ProgramReads, program, person, timers
<1>15. CASE LetsGo
  BY <1>0, <1>15 DEF LetsGo, program, person, timers
<1>16. CASE Exits \/ IsKilled
  BY <1>0, <1>16 DEF Exits, IsKilled, Dies, program, person, timers
<1>17. CASE Types
  BY <1>0, <1>17 DEF Types, program, person, timers
<1>18. CASE KeyboardEnds
  BY <1>0, <1>18 DEF KeyboardEnds, program, person, timers
<1>19. CASE TimeoutIsUp
  BY <1>0, <1>19 DEF TimeoutIsUp, program, person, timers
<1>20. CASE IdleIsUp
  BY <1>0, <1>20 DEF IdleIsUp, program, person, timers
<1>21. CASE GraceIsUp
  BY <1>0, <1>21 DEF GraceIsUp, program, person, timers
<1>22. CASE UNCHANGED vars
  BY <1>0, <1>22 DEF vars, program, person, timers
<1> QED BY <1>1, <1>2, <1>3, <1>4, <1>5, <1>6, <1>7, <1>8, <1>9, <1>10, <1>11,
           <1>12, <1>13, <1>14, <1>15, <1>16, <1>17, <1>18, <1>19, <1>20, <1>21,
           <1>22 DEF Next, LoopStep, StopStep

\* What is recorded of the keyboard is what was typed, but what is in hand.
LEMMA TypedStep ==
  ASSUME Inductive, [Next]_vars
  PROVE  TypedIsRecorded'
<1> USE DEF Inductive, TypedIsRecorded, Recorded, NothingBehindTheEnd, Recording
<1>0. /\ events \in Seq(Event) /\ Recorded("out") \in Nat /\ Recorded("in") \in Nat
      /\ Len(events) \in Nat
      /\ typedAll \in 0..Len(Typed) /\ typed \in 0..typedAll /\ drew \in 0..Len(Drawn)
      /\ Len(Typed) \in Nat /\ Len(Drawn) \in Nat
  BY RecordedType, LenProperties DEF Inductive, TypeOK, LoopOK, OthersOK
<1>1. CASE Decide
  BY <1>0, <1>1 DEF Decide, Stop, DeadlineIsUp, program, person, timers, TypeOK,
     LoopOK, Calls
<1>2. CASE Select
  BY <1>0, <1>2 DEF Select, SelectReturns, Readable, program, person, timers,
     TypeOK, LoopOK, Calls
<1>3. CASE ReadKeyboard
  <2>1. UNCHANGED <<events, reason, typedAll>> /\ pc = "keyboard" /\ reason = "none"
    BY <1>0, <1>3 DEF ReadKeyboard
  <2>2. \/ pc' = "master" /\ typed' = typed
        \/ pc' = "typing" /\ typed > 0 /\ typed' = 0
        \/ pc' = "master" /\ ~ (typed > 0) /\ typed' = 0
    BY <1>0, <1>3 DEF ReadKeyboard
  <2> QED BY <1>0, <2>1, <2>2, SMTT(30)
<1>4. CASE WriteKey
  <2>1. CASE inHand' = 0
    <3>1. /\ BytesOf(events', "in") = SubSeq(Typed, 1, typedAll - typed)
          /\ Len(BytesOf(events', "in")) = typedAll - typed
      BY <1>4, <2>1, KeysAreRecorded DEF WriteKey
    <3>2. UNCHANGED <<reason, program, person>> /\ pc = "typing" /\ pc' = "master"
      BY <1>0, <1>4, <2>1 DEF WriteKey, person
    <3> DEFINE d == typedAll - typed
               in == BytesOf(events', "in")
    <3>3. d' = d /\ d \in Nat
      BY <1>0, <3>2 DEF person
    <3> HIDE DEF d
    <3>4. in = SubSeq(Typed, 1, Len(in)) /\ Len(in) <= d /\ Len(in) = d
      <4> HIDE DEF in
      <4>1. in = SubSeq(Typed, 1, d) /\ Len(in) = d
        BY <3>1 DEF in, d
      <4>2. d <= d
        BY <3>3
      <4> QED BY <4>1, <4>2, Zenon
    <3> HIDE DEF in
    <3> QED BY <1>0, <3>2, <3>3, <3>4 DEF in, d
  <2>2. CASE inHand' # 0
    BY <1>0, <1>4, <2>2 DEF WriteKey, program, person
  <2> QED BY <2>1, <2>2
<1>5. CASE WriteRaises
  BY <1>0, <1>5 DEF WriteRaises, Stop, program, person, timers, TypeOK, LoopOK,
     Calls
<1>6. CASE ReadMaster
  <2>1. CASE Unread > 0 /\ Records("out", SubSeq(Drawn, Recorded("out") + 1, drew))
             /\ UNCHANGED reason /\ pc' = "deciding"
    <3>1. BytesOf(events', "in") = BytesOf(events, "in")
      BY <2>1, DrawnAreRecorded
    <3>2. UNCHANGED <<program, person>> /\ pc = "master"
      BY <1>0, <1>6 DEF ReadMaster
    <3> QED BY <1>0, <2>1, <3>1, <3>2 DEF person
  <2>2. CASE UNCHANGED events /\ pc' \in {"deciding", "closing"}
             /\ (UNCHANGED reason \/ reason' = "ended")
    BY <1>0, <1>6, <2>2 DEF ReadMaster, program, person
  <2> QED BY <1>6, <2>1, <2>2 DEF ReadMaster, Stop
<1>7. CASE CloseMaster
  BY <1>0, <1>7 DEF CloseMaster, program, person, timers, TypeOK, LoopOK, Calls
<1>8. CASE HangUp
  BY <1>0, <1>8 DEF HangUp, program, person, timers, TypeOK, LoopOK, Calls
<1>9. CASE GraceFindsEnded
  BY <1>0, <1>9 DEF GraceFindsEnded, program, person, timers, TypeOK, LoopOK,
     Calls
<1>10. CASE GraceIsOver
  BY <1>0, <1>10 DEF GraceIsOver, program, person, timers, TypeOK, LoopOK, Calls
<1>11. CASE Kill
  BY <1>0, <1>11 DEF Kill, program, person, timers, TypeOK, LoopOK, Calls
<1>12. CASE WaitFindsEnded
  BY <1>0, <1>12 DEF WaitFindsEnded, program, person, timers, TypeOK, LoopOK,
     Calls
<1>13. CASE ProgramDraws
  BY <1>0, <1>13 DEF ProgramDraws, program, person, timers, TypeOK, LoopOK,
     Calls
<1>14. CASE ProgramReads
  BY <1>0, <1>14 DEF ProgramReads, program, person, timers, TypeOK, LoopOK,
     Calls
<1>15. CASE LetsGo
  BY <1>0, <1>15 DEF LetsGo, program, person, timers, TypeOK, LoopOK, Calls
<1>16. CASE Exits \/ IsKilled
  BY <1>0, <1>16 DEF Exits, IsKilled, Dies, program, person, timers, TypeOK,
     LoopOK, Calls
<1>17. CASE Types
  <2>1. /\ events' = events /\ reason' = reason /\ pc' = pc
        /\ typed' = typed + 1 /\ typedAll' = typedAll + 1
    BY <1>17 DEF Types
  <2>2. typedAll' - typed' = typedAll - typed
    BY <1>0, <2>1
  <2> QED BY <1>0, <2>1, <2>2
<1>18. CASE KeyboardEnds
  BY <1>0, <1>18 DEF KeyboardEnds, program, person, timers, TypeOK, LoopOK,
     Calls
<1>19. CASE TimeoutIsUp
  BY <1>0, <1>19 DEF TimeoutIsUp, program, person, timers, TypeOK, LoopOK, Calls
<1>20. CASE IdleIsUp
  BY <1>0, <1>20 DEF IdleIsUp, program, person, timers, TypeOK, LoopOK, Calls
<1>21. CASE GraceIsUp
  BY <1>0, <1>21 DEF GraceIsUp, program, person, timers, TypeOK, LoopOK, Calls
<1>22. CASE UNCHANGED vars
  BY <1>0, <1>22 DEF vars, program, person, timers, TypeOK, LoopOK, Calls
<1> QED BY <1>1, <1>2, <1>3, <1>4, <1>5, <1>6, <1>7, <1>8, <1>9, <1>10, <1>11,
           <1>12, <1>13, <1>14, <1>15, <1>16, <1>17, <1>18, <1>19, <1>20, <1>21,
           <1>22 DEF Next, LoopStep, StopStep

\* Each event has a byte at least.
LEMMA EventsStep ==
  ASSUME Inductive, [Next]_vars
  PROVE  EventsHaveBytes'
<1> USE DEF Inductive, EventsHaveBytes, DrawnIsRecorded, TypedIsRecorded,
            Recorded
<1>0. /\ events \in Seq(Event) /\ Recorded("out") \in Nat /\ Recorded("in") \in Nat
      /\ Len(events) \in Nat
      /\ typedAll \in 0..Len(Typed) /\ typed \in 0..typedAll /\ drew \in 0..Len(Drawn)
      /\ Len(Typed) \in Nat /\ Len(Drawn) \in Nat
  BY RecordedType, LenProperties DEF Inductive, TypeOK, LoopOK, OthersOK
<1>1. CASE Decide
  BY <1>0, <1>1 DEF Decide, Stop, DeadlineIsUp, program, person, timers
<1>2. CASE Select
  BY <1>0, <1>2 DEF Select, SelectReturns, Readable, program, person, timers
<1>3. CASE ReadKeyboard
  BY <1>0, <1>3 DEF ReadKeyboard, program, person, timers
<1>4. CASE WriteKey
  <2>1. CASE inHand' = 0
    <3>1. /\ Len(events') = Len(events) + 1
          /\ BytesOf(events', "out") = BytesOf(events, "out")
          /\ Len(BytesOf(events', "in")) = typedAll - typed
      BY <1>4, <2>1, KeysAreRecorded DEF WriteKey
    <3>2. UNCHANGED <<reason, program, person>> /\ pc = "typing" /\ pc' = "master"
      BY <1>0, <1>4, <2>1 DEF WriteKey, person
    <3> QED BY <1>0, <3>1, <3>2, SMTT(30)
  <2>2. CASE inHand' # 0
    BY <1>0, <1>4, <2>2 DEF WriteKey, program, person
  <2> QED BY <2>1, <2>2
<1>5. CASE WriteRaises
  BY <1>0, <1>5 DEF WriteRaises, Stop, program, person, timers
<1>6. CASE ReadMaster
  <2>1. CASE Unread > 0 /\ Records("out", SubSeq(Drawn, Recorded("out") + 1, drew))
             /\ UNCHANGED reason /\ pc' = "deciding"
    <3>1. /\ Len(events') = Len(events) + 1
          /\ BytesOf(events', "in") = BytesOf(events, "in")
          /\ Len(BytesOf(events', "out")) = drew
      BY <2>1, DrawnAreRecorded
    <3>2. UNCHANGED <<program, person>> /\ pc = "master"
      BY <1>0, <1>6 DEF ReadMaster
    <3> QED BY <1>0, <2>1, <3>1, <3>2 DEF Unread
  <2>2. CASE UNCHANGED events /\ pc' \in {"deciding", "closing"}
             /\ (UNCHANGED reason \/ reason' = "ended")
    BY <1>0, <1>6, <2>2 DEF ReadMaster, program, person
  <2> QED BY <1>6, <2>1, <2>2 DEF ReadMaster, Stop
<1>7. CASE CloseMaster
  BY <1>0, <1>7 DEF CloseMaster, program, person, timers
<1>8. CASE HangUp
  BY <1>0, <1>8 DEF HangUp, program, person, timers
<1>9. CASE GraceFindsEnded
  BY <1>0, <1>9 DEF GraceFindsEnded, program, person, timers
<1>10. CASE GraceIsOver
  BY <1>0, <1>10 DEF GraceIsOver, program, person, timers
<1>11. CASE Kill
  BY <1>0, <1>11 DEF Kill, program, person, timers
<1>12. CASE WaitFindsEnded
  BY <1>0, <1>12 DEF WaitFindsEnded, program, person, timers
<1>13. CASE ProgramDraws
  BY <1>0, <1>13 DEF ProgramDraws, program, person, timers
<1>14. CASE ProgramReads
  BY <1>0, <1>14 DEF ProgramReads, program, person, timers
<1>15. CASE LetsGo
  BY <1>0, <1>15 DEF LetsGo, program, person, timers
<1>16. CASE Exits \/ IsKilled
  BY <1>0, <1>16 DEF Exits, IsKilled, Dies, program, person, timers
<1>17. CASE Types
  BY <1>0, <1>17 DEF Types, program, person, timers
<1>18. CASE KeyboardEnds
  BY <1>0, <1>18 DEF KeyboardEnds, program, person, timers
<1>19. CASE TimeoutIsUp
  BY <1>0, <1>19 DEF TimeoutIsUp, program, person, timers
<1>20. CASE IdleIsUp
  BY <1>0, <1>20 DEF IdleIsUp, program, person, timers
<1>21. CASE GraceIsUp
  BY <1>0, <1>21 DEF GraceIsUp, program, person, timers
<1>22. CASE UNCHANGED vars
  BY <1>0, <1>22 DEF vars, program, person, timers
<1> QED BY <1>1, <1>2, <1>3, <1>4, <1>5, <1>6, <1>7, <1>8, <1>9, <1>10, <1>11,
           <1>12, <1>13, <1>14, <1>15, <1>16, <1>17, <1>18, <1>19, <1>20, <1>21,
           <1>22 DEF Next, LoopStep, StopStep

\* Nothing is drawn behind the end, and the recording has it all.
LEMMA EndStep ==
  ASSUME Inductive, [Next]_vars
  PROVE  NothingBehindTheEnd' /\ EndedMeansComplete'
<1> USE DEF Inductive, NothingBehindTheEnd, EndedMeansComplete, Recording,
            Unread, Recorded
<1>0. /\ events \in Seq(Event) /\ Recorded("out") \in Nat /\ Recorded("in") \in Nat
      /\ Len(events) \in Nat
      /\ typedAll \in 0..Len(Typed) /\ typed \in 0..typedAll /\ drew \in 0..Len(Drawn)
      /\ Len(Typed) \in Nat /\ Len(Drawn) \in Nat
  BY RecordedType, LenProperties DEF Inductive, TypeOK, LoopOK, OthersOK
<1>1. CASE Decide
  BY <1>0, <1>1 DEF Decide, Stop, DeadlineIsUp, program, person, timers,
     MasterIsOpen, TypeOK, LoopOK, Calls
<1>2. CASE Select
  BY <1>0, <1>2 DEF Select, SelectReturns, Readable, program, person, timers,
     MasterIsOpen, TypeOK, LoopOK, Calls
<1>3. CASE ReadKeyboard
  BY <1>0, <1>3 DEF ReadKeyboard, program, person, timers, MasterIsOpen, TypeOK,
     LoopOK, Calls
<1>4. CASE WriteKey
  <2>1. CASE inHand' = 0
    <3>1. BytesOf(events', "out") = BytesOf(events, "out")
      BY <1>4, <2>1, KeysAreRecorded DEF WriteKey
    <3>2. UNCHANGED <<reason, program, person>> /\ pc = "typing" /\ pc' = "master"
      BY <1>0, <1>4, <2>1 DEF WriteKey, person
    <3> QED BY <1>0, <3>1, <3>2 DEF program
  <2>2. CASE inHand' # 0
    BY <1>0, <1>4, <2>2 DEF WriteKey, program, person
  <2> QED BY <2>1, <2>2
<1>5. CASE WriteRaises
  BY <1>0, <1>5 DEF WriteRaises, Stop, program, person, timers, MasterIsOpen,
     TypeOK, LoopOK, Calls
<1>6. CASE ReadMaster
  <2>1. CASE Unread > 0 /\ Records("out", SubSeq(Drawn, Recorded("out") + 1, drew))
             /\ UNCHANGED reason /\ pc' = "deciding"
    <3>1. /\ BytesOf(events', "out") = SubSeq(Drawn, 1, drew)
          /\ Len(BytesOf(events', "out")) = drew
      BY <2>1, DrawnAreRecorded
    <3>2. UNCHANGED <<program, person>> /\ pc = "master"
      BY <1>0, <1>6 DEF ReadMaster
    <3> QED BY <1>0, <2>1, <3>1, <3>2
  <2>2. CASE UNCHANGED <<events, reason>> /\ pc' = "deciding"
    BY <1>0, <1>6, <2>2 DEF ReadMaster, program, person
  <2>3. CASE AtTheEnd /\ UNCHANGED events /\ pc' = "closing" /\ reason' = "ended"
    BY <1>0, <1>6, <2>3 DEF ReadMaster, AtTheEnd, program, DrawnIsRecorded
  <2> QED BY <1>6, <2>1, <2>2, <2>3 DEF ReadMaster, Stop
<1>7. CASE CloseMaster
  BY <1>0, <1>7 DEF CloseMaster, program, person, timers, MasterIsOpen, TypeOK,
     LoopOK, Calls
<1>8. CASE HangUp
  BY <1>0, <1>8 DEF HangUp, program, person, timers, MasterIsOpen, TypeOK,
     LoopOK,
     Calls
<1>9. CASE GraceFindsEnded
  BY <1>0, <1>9 DEF GraceFindsEnded, program, person, timers, MasterIsOpen,
     TypeOK, LoopOK, Calls
<1>10. CASE GraceIsOver
  BY <1>0, <1>10 DEF GraceIsOver, program, person, timers, MasterIsOpen, TypeOK,
     LoopOK, Calls
<1>11. CASE Kill
  BY <1>0, <1>11 DEF Kill, program, person, timers, MasterIsOpen, TypeOK,
     LoopOK,
     Calls
<1>12. CASE WaitFindsEnded
  BY <1>0, <1>12 DEF WaitFindsEnded, program, person, timers, MasterIsOpen,
     TypeOK, LoopOK, Calls
<1>13. CASE ProgramDraws
  BY <1>0, <1>13 DEF ProgramDraws, program, person, timers, MasterIsOpen,
     TypeOK,
     LoopOK, Calls
<1>14. CASE ProgramReads
  BY <1>0, <1>14 DEF ProgramReads, program, person, timers, MasterIsOpen,
     TypeOK,
     LoopOK, Calls
<1>15. CASE LetsGo
  BY <1>0, <1>15 DEF LetsGo, program, person, timers, MasterIsOpen, TypeOK,
     LoopOK, Calls
<1>16. CASE Exits \/ IsKilled
  <2>1. UNCHANGED <<pc, reason, events, drew>> /\ (slave' = slave \/ slave' = FALSE)
    BY <1>0, <1>16 DEF Exits, IsKilled, Dies
  <2>2. CASE slave' = slave
    BY <2>1, <2>2
  <2>3. CASE slave' = FALSE
    BY <2>1, <2>3
  <2> QED BY <2>1, <2>2, <2>3
<1>17. CASE Types
  BY <1>0, <1>17 DEF Types, program, person, timers, MasterIsOpen, TypeOK,
     LoopOK,
     Calls
<1>18. CASE KeyboardEnds
  BY <1>0, <1>18 DEF KeyboardEnds, program, person, timers, MasterIsOpen,
     TypeOK,
     LoopOK, Calls
<1>19. CASE TimeoutIsUp
  BY <1>0, <1>19 DEF TimeoutIsUp, program, person, timers, MasterIsOpen, TypeOK,
     LoopOK, Calls
<1>20. CASE IdleIsUp
  BY <1>0, <1>20 DEF IdleIsUp, program, person, timers, MasterIsOpen, TypeOK,
     LoopOK, Calls
<1>21. CASE GraceIsUp
  BY <1>0, <1>21 DEF GraceIsUp, program, person, timers, MasterIsOpen, TypeOK,
     LoopOK, Calls
<1>22. CASE UNCHANGED vars
  BY <1>0, <1>22 DEF vars, program, person, timers, MasterIsOpen, TypeOK,
     LoopOK,
     Calls
<1> QED BY <1>1, <1>2, <1>3, <1>4, <1>5, <1>6, <1>7, <1>8, <1>9, <1>10, <1>11,
           <1>12, <1>13, <1>14, <1>15, <1>16, <1>17, <1>18, <1>19, <1>20, <1>21,
           <1>22 DEF Next, LoopStep, StopStep

\* Nothing was drawn, typed or recorded.
LEMMA InitInductive == Init => Inductive
<1> SUFFICES ASSUME Init PROVE Inductive
  OBVIOUS
<1>1. events = <<>> /\ events \in Seq(Event)
  BY EmptySeq DEF Init
<1>2. \A k : BytesOf(events, k) = <<>> /\ Recorded(k) = 0
  <2>1. Len(<<>>) = 0
    OBVIOUS
  <2> QED BY <1>1, <2>1, OfNone, Zenon DEF Recorded
<1>3. TypeOK
  <2>1. LoopOK
    <3>1. watched \in BOOLEAN
      BY Zenon DEF Init
    <3> QED BY <1>1, <3>1 DEF Init, LoopOK, Calls, Timer
  <2>2. OthersOK
    <3>1. Len(Drawn) \in Nat /\ Len(Typed) \in Nat
      BY LenProperties
    <3>2. raises \in BOOLEAN /\ keyboardEnds = FALSE /\ slave = TRUE
      BY Zenon DEF Init, GoneRaisesAssumption
    <3>3. {keyboardEnds, slave, raises} \subseteq BOOLEAN
      BY <3>2, Zenon
    <3>4. drew = 0 /\ keys = 0 /\ typed = 0 /\ typedAll = 0 /\ child = "running" /\ pending = {}
      BY Zenon DEF Init
    <3> QED BY <3>1, <3>3, <3>4 DEF OthersOK, RoomsAssumption
  <2> QED BY <2>1, <2>2 DEF TypeOK
<1>4. \A s : SubSeq(s, 1, 0) = <<>>
  BY SubSeqEmpty
<1>5. DrawnIsRecorded
  <2>1. Recorded("out") <= drew
    BY <1>2 DEF Init
  <2> QED BY <1>2, <1>4, <2>1, Zenon DEF DrawnIsRecorded
<1>6. TypedIsRecorded
  <2>1. Recorded("in") <= typedAll - typed /\ Recorded("in") = typedAll - typed
    BY <1>2 DEF Init
  <2>2. pc # "typing"
    BY DEF Init
  <2> QED BY <1>2, <1>4, <2>1, <2>2, Zenon DEF TypedIsRecorded
<1>7. EventsHaveBytes
  <2>1. Len(events) = 0
    BY <1>1
  <2>2. Recorded("out") = 0 /\ Recorded("in") = 0
    BY <1>2, Zenon
  <2> QED BY <2>1, <2>2 DEF EventsHaveBytes
<1>8. NothingBehindTheEnd /\ EndedMeansComplete
  BY DEF Init, NothingBehindTheEnd, EndedMeansComplete, Recording
<1> QED BY <1>3, <1>5, <1>6, <1>7, <1>8 DEF Inductive

\* No step breaks it.
LEMMA NextInductive == Inductive /\ [Next]_vars => Inductive'
<1> SUFFICES ASSUME Inductive, [Next]_vars PROVE Inductive'
  OBVIOUS
<1>1. LoopOK'
  BY LoopOKStep, Zenon
<1>2. OthersOK'
  BY OthersOKStep, Zenon DEF Inductive, TypeOK
<1>3. DrawnIsRecorded' /\ TypedIsRecorded' /\ EventsHaveBytes'
  BY DrawnStep, TypedStep, EventsStep, Zenon
<1>4. NothingBehindTheEnd' /\ EndedMeansComplete'
  BY EndStep, Zenon
<1> QED BY <1>1, <1>2, <1>3, <1>4, Zenon DEF Inductive, TypeOK

\* The recording, its types and its end carry each other.
THEOREM InductiveInvariant == Spec => []Inductive
BY InitInductive, NextInductive, PTL DEF Spec

\* Every variable stays in its type, and no one draws, types or reads more
\* than there is.
THEOREM TypeCorrect == Spec => []TypeOK
BY InductiveInvariant, PTL DEF Inductive

\* record.py:19-21: a recording that ends with the program has all that was
\* drawn, in order, whatever the reads cut and whoever let the terminal go.
THEOREM EndedIsComplete == Spec => []EndedMeansComplete
BY InductiveInvariant, PTL DEF Inductive

\* record.py:248-255: whenever one looks, and whyever it stops, the recording
\* is the first of what was drawn and of what was typed, each byte once.
THEOREM NothingIsRecordedTwice == Spec => [](DrawnIsRecorded /\ TypedIsRecorded)
BY InductiveInvariant, PTL DEF Inductive

\* asciicast.py:58-61 and 69-72: the cast of what was recorded has the text of
\* all the bytes of each direction, whatever the reads cut and whichever of the
\* two came between, and its two versions agree on the time of every line.
THEOREM CastIsTrue == Spec => []CastTellsTheRecording
<1>1. Inductive => CastTellsTheRecording
  <2> SUFFICES ASSUME Inductive PROVE CastTellsTheRecording
    OBVIOUS
  <2>1. events \in Seq(Event)
    BY DEF Inductive, TypeOK, LoopOK
  <2>2. /\ \A kind \in Kind :
              TextOf(Cast(events), kind) = WholeText(BytesOf(events, kind))
        /\ TimesAgree(Cast(events))
    BY <2>1, CastTells, Zenon
  <2> QED BY <2>2, Zenon DEF CastTellsTheRecording
<1> QED BY <1>1, InductiveInvariant, PTL

-----------------------------------------------------------------------------
(* The end of the program.                                                 *)

Stopping == TypeOK /\ StoppedMeansReaped /\ AskedBeforeKilled

\* The one who waited for the program is the one that stops behind it, and
\* whoever kills it has asked it, and given it its grace.
LEMMA StoppingStep ==
  ASSUME Stopping, [Next]_vars
  PROVE  StoppedMeansReaped' /\ AskedBeforeKilled'
<1> USE DEF Stopping, StoppedMeansReaped, AskedBeforeKilled
<1>1. CASE Decide
  BY <1>1 DEF Decide, Stop, DeadlineIsUp, program, person, timers
<1>2. CASE Select
  BY <1>2 DEF Select, SelectReturns, Readable, program, person, timers
<1>3. CASE ReadKeyboard
  BY <1>3 DEF ReadKeyboard, program, person, timers
<1>4. CASE WriteKey
  <2>1. UNCHANGED <<child, pending, grace>> /\ pc = "typing" /\ pc' \in {"typing", "master"}
    BY <1>4 DEF WriteKey, program, timers
  <2> QED BY <2>1
<1>5. CASE WriteRaises
  BY <1>5 DEF WriteRaises, Stop, program, person, timers
<1>6. CASE ReadMaster
  <2>1. UNCHANGED <<child, pending, grace>> /\ pc = "master" /\ pc' \in {"deciding", "closing"}
    BY <1>6 DEF ReadMaster, Stop, program
  <2> QED BY <2>1
<1>7. CASE CloseMaster
  BY <1>7 DEF CloseMaster, program, person, timers
<1>8. CASE HangUp
  BY <1>8 DEF HangUp, program, person, timers
<1>9. CASE GraceFindsEnded
  BY <1>9 DEF GraceFindsEnded, program, person, timers
<1>10. CASE GraceIsOver
  BY <1>10 DEF GraceIsOver, program, person, timers
<1>11. CASE Kill
  BY <1>11 DEF Kill, program, person, timers
<1>12. CASE WaitFindsEnded
  BY <1>12 DEF WaitFindsEnded, program, person, timers
<1>13. CASE ProgramDraws
  BY <1>13 DEF ProgramDraws, program, person, timers
<1>14. CASE ProgramReads
  BY <1>14 DEF ProgramReads, program, person, timers
<1>15. CASE LetsGo
  BY <1>15 DEF LetsGo, program, person, timers
<1>16. CASE Exits \/ IsKilled
  BY <1>16 DEF Exits, IsKilled, Dies, program, person, timers
<1>17. CASE Types
  BY <1>17 DEF Types, program, person, timers
<1>18. CASE KeyboardEnds
  BY <1>18 DEF KeyboardEnds, program, person, timers
<1>19. CASE TimeoutIsUp
  BY <1>19 DEF TimeoutIsUp, program, person, timers
<1>20. CASE IdleIsUp
  BY <1>20 DEF IdleIsUp, program, person, timers
<1>21. CASE GraceIsUp
  BY <1>21 DEF GraceIsUp, program, person, timers
<1>22. CASE UNCHANGED vars
  BY <1>22 DEF vars, program, person, timers
<1> QED BY <1>1, <1>2, <1>3, <1>4, <1>5, <1>6, <1>7, <1>8, <1>9, <1>10, <1>11,
           <1>12, <1>13, <1>14, <1>15, <1>16, <1>17, <1>18, <1>19, <1>20, <1>21,
           <1>22 DEF Next, LoopStep, StopStep

\* record.py:105-132: whatever stopped the recording, once stop_the_program is
\* through the program was waited for, and never was it killed before it was
\* hung up on and had its grace.
THEOREM StoppedIsReaped == Spec => [](StoppedMeansReaped /\ AskedBeforeKilled)
<1>1. Init => StoppedMeansReaped /\ AskedBeforeKilled
  BY DEF Init, StoppedMeansReaped, AskedBeforeKilled
<1>2. TypeOK /\ StoppedMeansReaped /\ AskedBeforeKilled /\ [Next]_vars
        => (StoppedMeansReaped /\ AskedBeforeKilled)'
  BY StoppingStep, Zenon DEF Stopping
<1> QED BY <1>1, <1>2, TypeCorrect, PTL DEF Spec
=============================================================================
