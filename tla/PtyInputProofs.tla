--------------------------- MODULE PtyInputProofs ---------------------------
(***************************************************************************)
(* The way in, for any amount of input, any room and any number of         *)
(* callers: every byte in its order, a writer for whatever waits, and an   *)
(* answer that is true.                                                    *)
(***************************************************************************)
EXTENDS PtyInput, SequenceTheorems, TLAPS

USE InputBoundsAssumption, GoneRaisesAssumption

(***************************************************************************)
(* The invariant.                                                          *)
(***************************************************************************)

\* Of the bytes given so far, t is with the pty and u waits: u is the last of
\* them, without a gap, and t comes before, in order.
Ordered(t, u, g) ==
  /\ Len(t) + Len(u) <= g
  /\ \A i \in 1..Len(u) : u[i] = (g - Len(u)) + i
  /\ \A i \in 1..Len(t) : t[i] <= g - Len(u)
  /\ \A i, j \in 1..Len(t) : i < j => t[i] < t[j]

\* None of them is lost.
Whole(t, u, g) ==
  /\ Len(t) + Len(u) = g
  /\ \A i \in 1..Len(t) : t[i] = i

StreamOK ==
  /\ Ordered(took, unwritten, given)
  /\ master /\ ~hungUp => Whole(took, unwritten, given)

\* The event of this moment tells whether something waits, and there is a new
\* one only for a write that had to wait.
EventsOK == WrittenIsTruthful /\ written <= given

\* Who waits on an event that is set has what it asked about with the pty.
AnswersOK ==
  \A w \in Waiters :
    /\ waiting[w].waits /\ waiting[w].event \in setWritten
    /\ master /\ ~hungUp
    => Len(took) >= waiting[w].upto

\* A writer that is gone has left nothing, and nothing will wait for it.
WriterOK ==
  /\ NobodyIsForgotten
  /\ ~master => unwritten = <<>>
  /\ writer = "done" => scope = "cancelled" \/ ~master \/ WriteRaises

\* The type of what is in no sequence.
PlainOK ==
  /\ given \in 0..MaxGiven /\ written \in 0..MaxGiven
  /\ setWritten \subseteq 0..written
  /\ moreSet \in BOOLEAN /\ master \in BOOLEAN /\ hungUp \in BOOLEAN
  /\ raises \in GoneRaises
  /\ writer \in WriterStates
  /\ scope \in {"open", "cancelled"}

SeqsOK ==
  /\ took \in Seq(Bytes) /\ unwritten \in Seq(Bytes)
  /\ readBy \in 0..Len(took)
  /\ Len(took) - readBy <= Room

WaitingOK ==
  waiting \in [Waiters ->
                 [event : 0..written, upto : 0..given, waits : BOOLEAN]]

Inductive ==
  /\ PlainOK /\ SeqsOK /\ WaitingOK
  /\ StreamOK /\ EventsOK /\ AnswersOK /\ WriterOK

-----------------------------------------------------------------------------
(* Sequences.                                                              *)

\* The pty takes the first k of what waits.
LEMMA FirstGo ==
  ASSUME NEW t \in Seq(Bytes), NEW u \in Seq(Bytes), NEW g \in Nat,
         Ordered(t, u, g), NEW k \in 0..Len(u)
  PROVE  LET t2 == t \o SubSeq(u, 1, k)
             u2 == SubSeq(u, k + 1, Len(u))
         IN /\ t2 \in Seq(Bytes) /\ Len(t2) = Len(t) + k
            /\ u2 \in Seq(Bytes) /\ Len(u2) = Len(u) - k
            /\ Ordered(t2, u2, g)
            /\ Whole(t, u, g) => Whole(t2, u2, g)
<1> DEFINE a == SubSeq(u, 1, k)
           t2 == t \o a
           u2 == SubSeq(u, k + 1, Len(u))
<1>0. Len(u) \in Nat /\ Len(t) \in Nat /\ k \in Nat
  OBVIOUS
<1>e. /\ \A i \in 1..Len(u) : u[i] \in Nat
      /\ \A i \in 1..Len(t) : t[i] \in Nat
  BY DEF Bytes
<1>1. /\ a \in Seq(Bytes) /\ Len(a) = k
      /\ \A i \in 1..k : a[i] = u[i]
  <2>1. \A i \in 1..k : u[i] \in Bytes
    BY <1>0
  <2> QED BY <1>0, <2>1, SubSeqProperties
<1>2. /\ u2 \in Seq(Bytes) /\ Len(u2) = Len(u) - k
      /\ \A i \in 1..(Len(u) - k) : u2[i] = u[k + i]
  <2>1. \A i \in (k + 1)..Len(u) : u[i] \in Bytes
    BY <1>0
  <2>2. k + 1 \in Int /\ Len(u) \in Int
    BY <1>0
  <2>3. /\ SubSeq(u, k + 1, Len(u)) \in Seq(Bytes)
        /\ Len(SubSeq(u, k + 1, Len(u))) =
             IF k + 1 <= Len(u) THEN Len(u) - (k + 1) + 1 ELSE 0
        /\ \A i \in 1..(Len(u) - (k + 1) + 1) :
             SubSeq(u, k + 1, Len(u))[i] = u[(k + 1) + i - 1]
    BY <2>1, <2>2, SubSeqProperties
  <2> QED BY <1>0, <2>3
<1>3. /\ t2 \in Seq(Bytes) /\ Len(t2) = Len(t) + k
      /\ \A i \in 1..Len(t) : t2[i] = t[i]
      /\ \A i \in 1..k : t2[Len(t) + i] = u[i]
  <2>1. /\ t \o a \in Seq(Bytes)
        /\ Len(t \o a) = Len(t) + Len(a)
        /\ \A i \in 1..(Len(t) + Len(a)) :
             (t \o a)[i] = IF i <= Len(t) THEN t[i] ELSE a[i - Len(t)]
    BY <1>1, ConcatProperties
  <2> HIDE DEF a
  <2> QED BY <1>0, <1>1, <2>1
<1> SUFFICES /\ t2 \in Seq(Bytes) /\ Len(t2) = Len(t) + k
             /\ u2 \in Seq(Bytes) /\ Len(u2) = Len(u) - k
             /\ Ordered(t2, u2, g)
             /\ Whole(t, u, g) => Whole(t2, u2, g)
  OBVIOUS
<1> HIDE DEF a, t2, u2
<1>l. /\ Len(t2) = Len(t) + k /\ Len(u2) = Len(u) - k
      /\ Len(t) + Len(u) <= g
  BY <1>2, <1>3 DEF Ordered
<1>4. \A i \in 1..Len(t2) :
        \/ i \in 1..Len(t) /\ t2[i] = t[i]
        \/ /\ i - Len(t) \in 1..k
           /\ t2[i] = (g - Len(u)) + (i - Len(t))
  <2> SUFFICES ASSUME NEW i \in 1..Len(t2), i \notin 1..Len(t)
               PROVE  /\ i - Len(t) \in 1..k
                      /\ t2[i] = (g - Len(u)) + (i - Len(t))
    BY <1>3
  <2>1. i - Len(t) \in 1..k /\ i = Len(t) + (i - Len(t))
    BY <1>0, <1>3
  <2>2. t2[i] = u[i - Len(t)]
    BY <1>3, <2>1
  <2>3. i - Len(t) \in 1..Len(u)
    BY <1>0, <2>1
  <2> QED BY <2>1, <2>2, <2>3 DEF Ordered
<1>5. Ordered(t2, u2, g)
  <2>1. Len(t2) + Len(u2) <= g
    BY <1>0, <1>l
  <2>2. \A i \in 1..Len(u2) : u2[i] = (g - Len(u2)) + i
    <3> SUFFICES ASSUME NEW i \in 1..Len(u2) PROVE u2[i] = (g - Len(u2)) + i
      OBVIOUS
    <3>1. i \in 1..(Len(u) - k) /\ k + i \in 1..Len(u)
      BY <1>0, <1>2
    <3>2. u2[i] = (g - Len(u)) + (k + i)
      BY <1>2, <3>1 DEF Ordered
    <3> QED BY <1>0, <1>l, <3>2
  <2>3. \A i \in 1..Len(t2) : t2[i] <= g - Len(u2)
    <3> SUFFICES ASSUME NEW i \in 1..Len(t2) PROVE t2[i] <= g - Len(u2)
      OBVIOUS
    <3>1. CASE i \in 1..Len(t) /\ t2[i] = t[i]
      <4>1. t[i] <= g - Len(u) /\ t[i] \in Nat
        BY <3>1, <1>e DEF Ordered
      <4> QED BY <1>0, <1>2, <3>1, <4>1
    <3>2. CASE i - Len(t) \in 1..k /\ t2[i] = (g - Len(u)) + (i - Len(t))
      BY <1>0, <1>2, <3>2
    <3> QED BY <1>4, <3>1, <3>2
  <2>4. ASSUME NEW i \in 1..Len(t2), NEW j \in 1..Len(t2), i < j
        PROVE  t2[i] < t2[j]
    <3>1. CASE j \in 1..Len(t)
      <4>1. i \in 1..Len(t)
        BY <1>0, <2>4, <3>1
      <4> QED BY <1>3, <2>4, <3>1, <4>1 DEF Ordered
    <3>2. CASE j \notin 1..Len(t)
      <4>1. j - Len(t) \in 1..k /\ t2[j] = (g - Len(u)) + (j - Len(t))
        BY <1>4, <3>2
      <4>2. CASE i \in 1..Len(t)
        <5>1. t2[i] = t[i] /\ t[i] <= g - Len(u) /\ t[i] \in Nat
          BY <1>3, <1>e, <4>2 DEF Ordered
        <5> QED BY <1>0, <4>1, <5>1
      <4>3. CASE i \notin 1..Len(t)
        <5>1. i - Len(t) \in 1..k /\ t2[i] = (g - Len(u)) + (i - Len(t))
          BY <1>4, <4>3
        <5> QED BY <1>0, <2>4, <4>1, <5>1
      <4> QED BY <4>2, <4>3
    <3> QED BY <3>1, <3>2
  <2> QED BY <2>1, <2>2, <2>3, <2>4 DEF Ordered
<1>6. ASSUME Whole(t, u, g) PROVE Whole(t2, u2, g)
  <2>1. Len(t2) + Len(u2) = g /\ g - Len(u) = Len(t)
    <3>1. Len(t) + Len(u) = g
      BY <1>6 DEF Whole
    <3> QED BY <1>0, <1>l, <3>1, SMTT(30)
  <2>2. ASSUME NEW i \in 1..Len(t2) PROVE t2[i] = i
    <3>1. CASE i \in 1..Len(t) /\ t2[i] = t[i]
      BY <1>6, <3>1 DEF Whole
    <3>2. CASE i - Len(t) \in 1..k /\ t2[i] = (g - Len(u)) + (i - Len(t))
      BY <1>0, <2>1, <3>2
    <3> QED BY <1>4, <3>1, <3>2
  <2> QED BY <2>1, <2>2 DEF Whole
<1> QED BY <1>2, <1>3, <1>5, <1>6

\* d is what is given behind g bytes.
Follows(d, g) == \A i \in 1..Len(d) : d[i] = g + i

\* What write_bytes is given.
LEMMA Data ==
  ASSUME NEW g \in Nat, NEW n \in Nat \ {0}, g + n <= MaxGiven
  PROVE  LET d == [i \in 1..n |-> g + i]
         IN d \in Seq(Bytes) /\ Len(d) = n /\ Follows(d, g)
<1> DEFINE d == [i \in 1..n |-> g + i]
<1>1. d \in [1..n -> Bytes] /\ DOMAIN d = 1..n /\ \A i \in 1..n : d[i] = g + i
  BY DEF Bytes
<1> HIDE DEF d
<1>2. d \in Seq(Bytes)
  <2>1. Seq(Bytes) = UNION {[1..m -> Bytes] : m \in Nat}
    BY SeqDef, Zenon
  <2> QED BY <1>1, <2>1, Zenon
<1>3. Len(d) = n
  BY <1>1, <1>2, LenProperties
<1>4. Follows(d, g)
  BY <1>1, <1>3 DEF Follows
<1> QED BY <1>2, <1>3, <1>4 DEF d

\* n more bytes are given, behind what waits.
LEMMA MoreWait ==
  ASSUME NEW t \in Seq(Bytes), NEW u \in Seq(Bytes), NEW g \in Nat,
         Ordered(t, u, g), NEW d \in Seq(Bytes), Follows(d, g)
  PROVE  /\ (u \o d) \in Seq(Bytes) /\ Len(u \o d) = Len(u) + Len(d)
         /\ Ordered(t, u \o d, g + Len(d))
         /\ Whole(t, u, g) => Whole(t, u \o d, g + Len(d))
<1> DEFINE u2 == u \o d
           n == Len(d)
<1>3. /\ u2 \in Seq(Bytes) /\ Len(u2) = Len(u) + n
      /\ \A i \in 1..(Len(u) + n) :
           u2[i] = IF i <= Len(u) THEN u[i] ELSE d[i - Len(u)]
  BY ConcatProperties
<1>4. Len(u) \in Nat /\ Len(t) \in Nat /\ n \in Nat
  OBVIOUS
<1>1. \A i \in 1..n : d[i] = g + i
  BY DEF Follows
<1> SUFFICES /\ u2 \in Seq(Bytes) /\ Len(u2) = Len(u) + n
             /\ Ordered(t, u2, g + n)
             /\ Whole(t, u, g) => Whole(t, u2, g + n)
  OBVIOUS
<1> HIDE DEF u2, n
<1>l. Len(u2) = Len(u) + n
  BY <1>3
<1>5. \A i \in 1..Len(u2) : u2[i] = ((g + n) - Len(u2)) + i
  <2> SUFFICES ASSUME NEW i \in 1..Len(u2)
               PROVE  u2[i] = ((g + n) - Len(u2)) + i
    OBVIOUS
  <2>1. CASE i <= Len(u)
    <3>1. i \in 1..Len(u) /\ u2[i] = u[i]
      BY <1>3, <1>4, <2>1
    <3>2. u2[i] = (g - Len(u)) + i
      BY <3>1 DEF Ordered
    <3> QED BY <1>3, <1>4, <3>2
  <2>2. CASE i > Len(u)
    <3>1. i - Len(u) \in 1..n
      BY <1>3, <1>4, <2>2
    <3>2. u2[i] = d[i - Len(u)]
      BY <1>3, <1>4, <2>2
    <3>3. d[i - Len(u)] = g + (i - Len(u))
      BY <1>1, <3>1
    <3> QED BY <1>l, <1>4, <3>2, <3>3
  <2> QED BY <1>4, <2>1, <2>2
<1>6. Ordered(t, u2, g + n)
  <2>1. Len(t) + Len(u2) <= g + n /\ (g + n) - Len(u2) = g - Len(u)
    BY <1>3, <1>4 DEF Ordered
  <2> QED BY <1>5, <2>1 DEF Ordered
<1>7. ASSUME Whole(t, u, g) PROVE Whole(t, u2, g + n)
  <2>1. Len(t) + Len(u) = g
    BY <1>7 DEF Whole
  <2>2. Len(t) + Len(u2) = g + n
    BY <1>4, <1>l, <2>1, SMTT(30)
  <2> QED BY <1>7, <2>2 DEF Whole
<1> QED BY <1>3, <1>6, <1>7

\* What waited is dropped, and more may be given that goes nowhere.
LEMMA NoneWait ==
  ASSUME NEW t \in Seq(Bytes), NEW u \in Seq(Bytes), NEW g \in Nat,
         Ordered(t, u, g), NEW n \in Nat
  PROVE  Ordered(t, <<>>, g + n)
<1>1. Len(<<>>) = 0 /\ Len(u) \in Nat /\ Len(t) \in Nat
  OBVIOUS
<1>2. \A i \in 1..Len(t) : t[i] <= (g + n) - 0
  <2>1. \A i \in 1..Len(t) : t[i] <= g - Len(u) /\ t[i] \in Nat
    BY DEF Ordered, Bytes
  <2> QED BY <1>1, <2>1
<1>3. Len(t) + 0 <= g + n
  BY <1>1 DEF Ordered
<1> QED BY <1>1, <1>2, <1>3 DEF Ordered

\* What the pty takes.
LEMMA TakesSome ==
  ASSUME SeqsOK, NEW n \in Nat, NEW k \in Takes(n)
  PROVE  k \in 0..n /\ Len(took) + k - readBy <= Room
<1>1. Len(took) \in Nat /\ readBy \in Nat /\ Room \in Nat /\ Free \in Nat
  BY DEF SeqsOK, Free
<1>2. k \in 0..n /\ k <= Free
  BY <1>1 DEF Takes
<1> QED BY <1>1, <1>2 DEF Free

-----------------------------------------------------------------------------
(* What the two writes do.                                                 *)

\* write_bytes: nothing waits then, or something waited before, or what the
\* pty had no room for waits, with a fresh event and a writer that is told.
LEMMA WriteDoes ==
  ASSUME Inductive, NEW n \in 1..MaxChunk, WriteBytes(n)
  PROVE  /\ SeqsOK' /\ StreamOK'
         /\ given' = given + n /\ given + n <= MaxGiven
         /\ Len(took') >= Len(took)
         /\ \/ /\ unwritten = <<>> /\ unwritten' = <<>>
               /\ written' = written /\ moreSet' = moreSet
            \/ /\ unwritten # <<>> /\ unwritten' # <<>>
               /\ written' = written /\ moreSet' = moreSet
            \/ /\ unwritten = <<>> /\ unwritten' # <<>> /\ ~WriteRaises
               /\ written' = written + 1 /\ moreSet' = TRUE
<1> DEFINE data == [i \in 1..n |-> given + i]
<1>0. /\ n \in Nat \ {0} /\ given \in Nat /\ given + n <= MaxGiven
      /\ given' = given + n /\ readBy' = readBy
      /\ master' = master /\ hungUp' = hungUp /\ master
      /\ took \in Seq(Bytes) /\ unwritten \in Seq(Bytes)
      /\ Ordered(took, unwritten, given)
      /\ readBy \in Nat /\ Len(took) \in Nat
  BY DEF Inductive, PlainOK, SeqsOK, StreamOK, WriteBytes
<1>d. data \in Seq(Bytes) /\ Len(data) = n /\ Follows(data, given)
  BY <1>0, Data
<1>1. CASE MustQueue
  <2>1. /\ unwritten' = unwritten \o data /\ took' = took
        /\ written' = written /\ moreSet' = moreSet
    BY <1>1 DEF WriteBytes
  <2>2. /\ unwritten' \in Seq(Bytes) /\ Len(unwritten') = Len(unwritten) + n
        /\ Ordered(took', unwritten', given')
        /\ Whole(took, unwritten, given) => Whole(took', unwritten', given')
    <3> HIDE DEF data
    <3>1. /\ (unwritten \o data) \in Seq(Bytes)
          /\ Len(unwritten \o data) = Len(unwritten) + Len(data)
          /\ Ordered(took, unwritten \o data, given + Len(data))
          /\ Whole(took, unwritten, given)
               => Whole(took, unwritten \o data, given + Len(data))
      <4>1. /\ took \in Seq(Bytes) /\ unwritten \in Seq(Bytes)
            /\ given \in Nat /\ Ordered(took, unwritten, given)
            /\ data \in Seq(Bytes) /\ Follows(data, given)
        BY <1>0, <1>d
      <4> QED BY ONLY <4>1, MoreWait
    <3> QED BY <1>0, <1>d, <2>1, <3>1
  <2>3. unwritten # <<>> /\ unwritten' # <<>>
    <3>1. Len(unwritten) \in Nat /\ Len(<<>>) = 0
      BY <1>0
    <3> QED BY <1>0, <1>1, <2>2, <3>1 DEF MustQueue
  <2>4. SeqsOK'
    BY <1>0, <2>1, <2>2 DEF Inductive, SeqsOK
  <2>5. StreamOK'
    BY <1>0, <2>2 DEF Inductive, StreamOK
  <2> QED BY <1>0, <2>1, <2>3, <2>4, <2>5
<1>2. CASE ~MustQueue /\ WriteRaises
  <2>1. /\ unwritten = <<>> /\ unwritten' = unwritten /\ took' = took
        /\ written' = written /\ moreSet' = moreSet /\ hungUp
    BY <1>2 DEF WriteBytes, MustQueue, WriteRaises
  <2>2. Ordered(took, <<>>, given + n)
    BY <1>0, NoneWait
  <2>3. SeqsOK'
    BY <1>0, <2>1 DEF Inductive, SeqsOK
  <2>4. StreamOK'
    BY <1>0, <2>1, <2>2 DEF StreamOK
  <2> QED BY <1>0, <2>1, <2>3, <2>4
<1>3. CASE ~MustQueue /\ ~WriteRaises
  <2>1. unwritten = <<>>
    BY <1>3 DEF MustQueue
  <2>2. PICK k \in Takes(n) :
          /\ took' = took \o SubSeq(data, 1, k)
          /\ IF k < n THEN Queue(SubSeq(data, k + 1, n))
                      ELSE UNCHANGED <<unwritten, written, moreSet>>
    BY <1>3 DEF WriteBytes
  <2>3. k \in 0..n /\ Len(took) + k - readBy <= Room
    BY <1>0, TakesSome DEF Inductive
  <2>4. /\ data \in Seq(Bytes) /\ Len(data) = n
        /\ Ordered(took, data, given + n)
        /\ Whole(took, unwritten, given) => Whole(took, data, given + n)
    <3> HIDE DEF data
    <3>2. unwritten \o data = data
      BY <2>1, <1>d, ConcatEmptySeq
    <3>3. /\ (unwritten \o data) \in Seq(Bytes)
          /\ Len(unwritten \o data) = Len(unwritten) + Len(data)
          /\ Ordered(took, unwritten \o data, given + Len(data))
          /\ Whole(took, unwritten, given)
               => Whole(took, unwritten \o data, given + Len(data))
      <4>1. /\ took \in Seq(Bytes) /\ unwritten \in Seq(Bytes)
            /\ given \in Nat /\ Ordered(took, unwritten, given)
            /\ data \in Seq(Bytes) /\ Follows(data, given)
        BY <1>0, <1>d
      <4> QED BY ONLY <4>1, MoreWait
    <3>4. Len(unwritten) = 0
      BY <2>1
    <3> QED BY <1>0, <1>d, <3>2, <3>3, <3>4
  <2> HIDE DEF data
  <2>5. unwritten' = SubSeq(data, k + 1, Len(data))
    <3>1. CASE k < n
      BY <2>2, <2>4, <3>1 DEF Queue
    <3>2. CASE ~(k < n)
      <4>1. k = n /\ unwritten' = <<>>
        BY <1>0, <2>1, <2>2, <2>3, <3>2
      <4>2. Len(data) < k + 1 /\ k + 1 \in Int /\ Len(data) \in Int
        BY <1>0, <2>4, <4>1
      <4>3. SubSeq(data, k + 1, Len(data)) = <<>>
        BY <4>2, SubSeqEmpty
      <4> QED BY <4>1, <4>3
    <3> QED BY <3>1, <3>2
  <2>6. /\ took' \in Seq(Bytes) /\ Len(took') = Len(took) + k
        /\ unwritten' \in Seq(Bytes) /\ Len(unwritten') = n - k
        /\ Ordered(took', unwritten', given')
        /\ Whole(took, data, given + n) => Whole(took', unwritten', given')
    <3>1. k \in 0..Len(data) /\ given + n \in Nat
      BY <1>0, <2>3, <2>4
    <3>2. /\ (took \o SubSeq(data, 1, k)) \in Seq(Bytes)
          /\ Len(took \o SubSeq(data, 1, k)) = Len(took) + k
          /\ SubSeq(data, k + 1, Len(data)) \in Seq(Bytes)
          /\ Len(SubSeq(data, k + 1, Len(data))) = Len(data) - k
          /\ Ordered(took \o SubSeq(data, 1, k),
                     SubSeq(data, k + 1, Len(data)), given + n)
          /\ Whole(took, data, given + n)
               => Whole(took \o SubSeq(data, 1, k),
                        SubSeq(data, k + 1, Len(data)), given + n)
      BY <1>0, <2>4, <3>1, FirstGo
    <3> QED BY <1>0, <2>2, <2>4, <2>5, <3>2
  <2>7. SeqsOK'
    BY <1>0, <2>3, <2>6 DEF Inductive, SeqsOK
  <2>8. StreamOK'
    BY <1>0, <2>4, <2>6 DEF Inductive, StreamOK
  <2>9. \/ /\ unwritten' = <<>>
           /\ written' = written /\ moreSet' = moreSet
        \/ /\ unwritten' # <<>>
           /\ written' = written + 1 /\ moreSet' = TRUE
    <3>1. CASE k < n
      <4>1. Len(unwritten') # 0
        BY <1>0, <2>3, <2>6, <3>1
      <4>2. unwritten' # <<>>
        BY <4>1
      <4> QED BY <2>2, <3>1, <4>2 DEF Queue
    <3>2. CASE ~(k < n)
      BY <2>1, <2>2, <3>2
    <3> QED BY <3>1, <3>2
  <2>10. Len(took') >= Len(took)
    BY <1>0, <2>3, <2>6
  <2> QED BY <1>0, <1>3, <2>1, <2>7, <2>8, <2>9, <2>10
<1> QED BY <1>1, <1>2, <1>3

\* The writer's write: what the pty takes goes, in order.
LEMMA WriterDoes ==
  ASSUME Inductive, WriterWrites
  PROVE  /\ SeqsOK' /\ StreamOK' /\ Len(took') >= Len(took)
         /\ master /\ ~hungUp /\ unwritten' = <<>> => Len(took') = given
<1>1. PICK k \in Takes(Len(unwritten)) :
        /\ took' = took \o SubSeq(unwritten, 1, k)
        /\ unwritten' = SubSeq(unwritten, k + 1, Len(unwritten))
  BY DEF WriterWrites
<1>2. /\ given' = given /\ readBy' = readBy
      /\ master' = master /\ hungUp' = hungUp
  BY DEF WriterWrites
<1>3. /\ given \in Nat /\ took \in Seq(Bytes) /\ unwritten \in Seq(Bytes)
      /\ Ordered(took, unwritten, given)
      /\ readBy \in Nat /\ Len(took) \in Nat /\ Len(unwritten) \in Nat
  BY DEF Inductive, PlainOK, SeqsOK, StreamOK
<1>4. k \in 0..Len(unwritten) /\ Len(took) + k - readBy <= Room
  BY <1>3, TakesSome DEF Inductive
<1>5. /\ took' \in Seq(Bytes) /\ Len(took') = Len(took) + k
      /\ unwritten' \in Seq(Bytes)
      /\ Ordered(took', unwritten', given)
      /\ Whole(took, unwritten, given) => Whole(took', unwritten', given)
  <2>1. /\ (took \o SubSeq(unwritten, 1, k)) \in Seq(Bytes)
        /\ Len(took \o SubSeq(unwritten, 1, k)) = Len(took) + k
        /\ SubSeq(unwritten, k + 1, Len(unwritten)) \in Seq(Bytes)
        /\ Ordered(took \o SubSeq(unwritten, 1, k),
                   SubSeq(unwritten, k + 1, Len(unwritten)), given)
        /\ Whole(took, unwritten, given)
             => Whole(took \o SubSeq(unwritten, 1, k),
                      SubSeq(unwritten, k + 1, Len(unwritten)), given)
    BY <1>3, <1>4, FirstGo
  <2> QED BY <1>1, <2>1
<1>6. SeqsOK'
  BY <1>2, <1>3, <1>4, <1>5 DEF Inductive, SeqsOK
<1>7. StreamOK'
  BY <1>2, <1>5 DEF Inductive, StreamOK
<1>8. master /\ ~hungUp /\ unwritten' = <<>> => Len(took') = given
  BY <1>3, <1>4, <1>5 DEF Inductive, StreamOK, Whole
<1> QED BY <1>3, <1>4, <1>5, <1>6, <1>7, <1>8

-----------------------------------------------------------------------------
(* The steps.                                                              *)

LEMMA InitInductive == InputInit => Inductive
<1> SUFFICES ASSUME InputInit PROVE Inductive
  OBVIOUS
<1>1. PlainOK
  <2>1. 0 \in 0..MaxGiven /\ {0} \subseteq 0..0
    OBVIOUS
  <2> QED BY <2>1 DEF InputInit, PlainOK, WriterStates
<1>2. SeqsOK
  BY DEF InputInit, SeqsOK
<1>3. WaitingOK
  BY DEF InputInit, WaitingOK, NotWaiting
<1>4. StreamOK
  BY DEF InputInit, StreamOK, Ordered, Whole
<1>5. EventsOK
  BY DEF InputInit, EventsOK, WrittenIsTruthful
<1>6. AnswersOK
  BY DEF InputInit, AnswersOK, NotWaiting
<1>7. WriterOK
  BY DEF InputInit, WriterOK, NobodyIsForgotten
<1> QED BY <1>1, <1>2, <1>3, <1>4, <1>5, <1>6, <1>7 DEF Inductive

\* Types, one part at a time.
LEMMA PlainStep ==
  ASSUME Inductive, [InputNext]_inputVars
  PROVE  PlainOK'
<1> USE DEF Inductive, PlainOK, WriterStates
<1>1. ASSUME NEW n \in 1..MaxChunk, WriteBytes(n) PROVE PlainOK'
  <2>1. /\ given' = given + n /\ given + n <= MaxGiven
        /\ written' \in {written, written + 1} /\ moreSet' \in BOOLEAN
    BY <1>1, WriteDoes
  <2>2. given \in Nat /\ n \in Nat \ {0} /\ written \in Nat /\ written <= given
    BY DEF EventsOK
  <2>3. given' \in 0..MaxGiven /\ written' \in 0..MaxGiven
    BY <2>1, <2>2
  <2>4. setWritten \subseteq 0..written'
    BY <2>1, <2>2
  <2> QED BY <1>1, <2>1, <2>3, <2>4 DEF WriteBytes
<1>2. ASSUME NEW w \in Waiters, AskWritten(w) PROVE PlainOK'
  BY <1>2 DEF AskWritten
<1>3. ASSUME NEW w \in Waiters, Answer(w) PROVE PlainOK'
  BY <1>3 DEF Answer, NotWaiting
<1>4. CASE StartWriter
  BY <1>4 DEF StartWriter
<1>5. CASE WriterWakes
  <2>1. /\ written \in Nat /\ written \in 0..written /\ written' = written
        /\ setWritten \subseteq 0..written
    BY <1>5 DEF WriterWakes
  <2>2. setWritten' \subseteq 0..written'
    BY <1>5, <2>1 DEF WriterWakes, SayWritten
  <2> QED BY <1>5, <2>1, <2>2 DEF WriterWakes
<1>6. CASE DescriptorIsWritable
  BY <1>6 DEF DescriptorIsWritable
<1>7. CASE WriterLosesMaster
  BY <1>7 DEF WriterLosesMaster, WokenByClose, GiveUp, SayWritten
<1>8. CASE WriterFindsClosed
  BY <1>8 DEF WriterFindsClosed
<1>9. CASE WriterRaises
  BY <1>9 DEF WriterRaises, GiveUp, SayWritten
<1>10. CASE WriterWrites
  <2>1. /\ written \in Nat /\ written \in 0..written /\ written' = written
        /\ setWritten \subseteq 0..written
    BY <1>10 DEF WriterWrites
  <2>2. setWritten' \subseteq 0..written'
    BY <1>10, <2>1 DEF WriterWrites, SayWritten
  <2> QED BY <1>10, <2>1, <2>2 DEF WriterWrites
<1>11. CASE WriterCancelled
  BY <1>11 DEF WriterCancelled
<1>12. CASE Close
  <2>1. /\ written \in Nat /\ written \in 0..written /\ written' = written
        /\ setWritten \subseteq 0..written
    BY <1>12 DEF Close
  <2>2. setWritten' \subseteq 0..written'
    BY <1>12, <2>1 DEF Close, SayWritten
  <2> QED BY <1>12, <2>1, <2>2 DEF Close
<1>13. CASE CancelScope
  BY <1>13 DEF CancelScope
<1>14. CASE ProgramReads
  BY <1>14 DEF ProgramReads
<1>15. CASE ProgramGoes
  BY <1>15 DEF ProgramGoes
<1>16. CASE UNCHANGED inputVars
  BY <1>16 DEF inputVars
<1> QED
  BY <1>1, <1>2, <1>3, <1>4, <1>5, <1>6, <1>7, <1>8, <1>9, <1>10, <1>11,
     <1>12, <1>13, <1>14, <1>15, <1>16
  DEF InputNext, WriterStep

LEMMA SeqsStep ==
  ASSUME Inductive, [InputNext]_inputVars
  PROVE  SeqsOK'
<1> USE DEF Inductive, SeqsOK
<1>1. ASSUME NEW n \in 1..MaxChunk, WriteBytes(n) PROVE SeqsOK'
  BY <1>1, WriteDoes
<1>2. ASSUME NEW w \in Waiters, AskWritten(w) PROVE SeqsOK'
  BY <1>2 DEF AskWritten
<1>3. ASSUME NEW w \in Waiters, Answer(w) PROVE SeqsOK'
  BY <1>3 DEF Answer, NotWaiting
<1>4. CASE StartWriter
  BY <1>4 DEF StartWriter
<1>5. CASE WriterWakes
  BY <1>5 DEF WriterWakes, SayWritten
<1>6. CASE DescriptorIsWritable
  BY <1>6 DEF DescriptorIsWritable
<1>7. CASE WriterLosesMaster
  BY <1>7 DEF WriterLosesMaster, WokenByClose, GiveUp, SayWritten
<1>8. CASE WriterFindsClosed
  BY <1>8 DEF WriterFindsClosed
<1>9. CASE WriterRaises
  BY <1>9 DEF WriterRaises, GiveUp, SayWritten
<1>10. CASE WriterWrites
  BY <1>10, WriterDoes
<1>11. CASE WriterCancelled
  BY <1>11 DEF WriterCancelled
<1>12. CASE Close
  BY <1>12 DEF Close, SayWritten
<1>13. CASE CancelScope
  BY <1>13 DEF CancelScope
<1>14. CASE ProgramReads
  BY <1>14 DEF ProgramReads
<1>15. CASE ProgramGoes
  BY <1>15 DEF ProgramGoes
<1>16. CASE UNCHANGED inputVars
  BY <1>16 DEF inputVars
<1> QED
  BY <1>1, <1>2, <1>3, <1>4, <1>5, <1>6, <1>7, <1>8, <1>9, <1>10, <1>11,
     <1>12, <1>13, <1>14, <1>15, <1>16
  DEF InputNext, WriterStep

LEMMA WaitingStep ==
  ASSUME Inductive, [InputNext]_inputVars
  PROVE  WaitingOK'
<1> USE DEF Inductive, WaitingOK, PlainOK, EventsOK
<1>1. ASSUME NEW n \in 1..MaxChunk, WriteBytes(n) PROVE WaitingOK'
  <2>1. /\ given' = given + n /\ written' \in {written, written + 1}
        /\ waiting' = waiting
    BY <1>1, WriteDoes DEF WriteBytes
  <2>2. 0..written \subseteq 0..written' /\ 0..given \subseteq 0..given'
    BY <2>1
  <2> QED BY <2>1, <2>2
<1>2. ASSUME NEW w \in Waiters, AskWritten(w) PROVE WaitingOK'
  <2>1. [event |-> written, upto |-> given, waits |-> TRUE]
          \in [event : 0..written, upto : 0..given, waits : BOOLEAN]
    OBVIOUS
  <2> QED BY <1>2, <2>1 DEF AskWritten
<1>3. ASSUME NEW w \in Waiters, Answer(w) PROVE WaitingOK'
  <2>1. NotWaiting \in [event : 0..written, upto : 0..given, waits : BOOLEAN]
    BY DEF NotWaiting
  <2> QED BY <1>3, <2>1 DEF Answer
<1>4. CASE StartWriter
  BY <1>4 DEF StartWriter
<1>5. CASE WriterWakes
  BY <1>5 DEF WriterWakes, SayWritten
<1>6. CASE DescriptorIsWritable
  BY <1>6 DEF DescriptorIsWritable
<1>7. CASE WriterLosesMaster
  BY <1>7 DEF WriterLosesMaster, WokenByClose, GiveUp, SayWritten
<1>8. CASE WriterFindsClosed
  BY <1>8 DEF WriterFindsClosed
<1>9. CASE WriterRaises
  BY <1>9 DEF WriterRaises, GiveUp, SayWritten
<1>10. CASE WriterWrites
  BY <1>10 DEF WriterWrites, SayWritten
<1>11. CASE WriterCancelled
  BY <1>11 DEF WriterCancelled
<1>12. CASE Close
  BY <1>12 DEF Close, SayWritten
<1>13. CASE CancelScope
  BY <1>13 DEF CancelScope
<1>14. CASE ProgramReads
  BY <1>14 DEF ProgramReads
<1>15. CASE ProgramGoes
  BY <1>15 DEF ProgramGoes
<1>16. CASE UNCHANGED inputVars
  BY <1>16 DEF inputVars
<1> QED
  BY <1>1, <1>2, <1>3, <1>4, <1>5, <1>6, <1>7, <1>8, <1>9, <1>10, <1>11,
     <1>12, <1>13, <1>14, <1>15, <1>16
  DEF InputNext, WriterStep

\* The order of the bytes.
LEMMA StreamStep ==
  ASSUME Inductive, [InputNext]_inputVars
  PROVE  StreamOK'
<1> USE DEF Inductive, StreamOK
<1>1. ASSUME NEW n \in 1..MaxChunk, WriteBytes(n) PROVE StreamOK'
  BY <1>1, WriteDoes
<1>2. ASSUME NEW w \in Waiters, AskWritten(w) PROVE StreamOK'
  BY <1>2 DEF AskWritten
<1>3. ASSUME NEW w \in Waiters, Answer(w) PROVE StreamOK'
  BY <1>3 DEF Answer, NotWaiting
<1>4. CASE StartWriter
  BY <1>4 DEF StartWriter
<1>5. CASE WriterWakes
  BY <1>5 DEF WriterWakes, SayWritten
<1>6. CASE DescriptorIsWritable
  BY <1>6 DEF DescriptorIsWritable
<1>7. CASE WriterLosesMaster
  <2>1. /\ unwritten' = <<>> /\ took' = took /\ given' = given /\ ~master'
    BY <1>7 DEF WriterLosesMaster, WokenByClose, GiveUp
  <2>2. Ordered(took, <<>>, given + 0)
    <3>1. /\ took \in Seq(Bytes) /\ unwritten \in Seq(Bytes) /\ given \in Nat
          /\ Ordered(took, unwritten, given) /\ 0 \in Nat
      BY DEF SeqsOK, PlainOK
    <3> HIDE DEF Inductive
    <3> QED BY <3>1, NoneWait
  <2>3. given + 0 = given
    BY DEF PlainOK
  <2> QED BY <2>1, <2>2, <2>3
<1>8. CASE WriterFindsClosed
  BY <1>8 DEF WriterFindsClosed
<1>9. CASE WriterRaises
  <2>1. /\ unwritten' = <<>> /\ took' = took /\ given' = given /\ hungUp'
    BY <1>9 DEF WriterRaises, GiveUp, WriteRaises
  <2>2. Ordered(took, <<>>, given + 0)
    <3>1. /\ took \in Seq(Bytes) /\ unwritten \in Seq(Bytes) /\ given \in Nat
          /\ Ordered(took, unwritten, given) /\ 0 \in Nat
      BY DEF SeqsOK, PlainOK
    <3> HIDE DEF Inductive
    <3> QED BY <3>1, NoneWait
  <2>3. given + 0 = given
    BY DEF PlainOK
  <2> QED BY <2>1, <2>2, <2>3
<1>10. CASE WriterWrites
  BY <1>10, WriterDoes
<1>11. CASE WriterCancelled
  BY <1>11 DEF WriterCancelled
<1>12. CASE Close
  <2>1. /\ unwritten' = <<>> /\ took' = took /\ given' = given /\ ~master'
    BY <1>12 DEF Close
  <2>2. Ordered(took, <<>>, given + 0)
    <3>1. /\ took \in Seq(Bytes) /\ unwritten \in Seq(Bytes) /\ given \in Nat
          /\ Ordered(took, unwritten, given) /\ 0 \in Nat
      BY DEF SeqsOK, PlainOK
    <3> HIDE DEF Inductive
    <3> QED BY <3>1, NoneWait
  <2>3. given + 0 = given
    BY DEF PlainOK
  <2> QED BY <2>1, <2>2, <2>3
<1>13. CASE CancelScope
  BY <1>13 DEF CancelScope
<1>14. CASE ProgramReads
  BY <1>14 DEF ProgramReads
<1>15. CASE ProgramGoes
  BY <1>15 DEF ProgramGoes
<1>16. CASE UNCHANGED inputVars
  BY <1>16 DEF inputVars
<1> QED
  BY <1>1, <1>2, <1>3, <1>4, <1>5, <1>6, <1>7, <1>8, <1>9, <1>10, <1>11,
     <1>12, <1>13, <1>14, <1>15, <1>16
  DEF InputNext, WriterStep

\* The event of the moment.
LEMMA EventsStep ==
  ASSUME Inductive, [InputNext]_inputVars
  PROVE  EventsOK'
<1> USE DEF Inductive, EventsOK, WrittenIsTruthful, PlainOK
<1>1. ASSUME NEW n \in 1..MaxChunk, WriteBytes(n) PROVE EventsOK'
  <2>1. written + 1 \notin setWritten /\ setWritten' = setWritten
    BY <1>1 DEF WriteBytes
  <2>2. /\ written \in Nat /\ given' = given + n /\ n \in Nat \ {0}
        /\ written <= given /\ given \in Nat
    <3>1. n \in Nat \ {0} /\ written \in Nat /\ written <= given /\ given \in Nat
      OBVIOUS
    <3>2. given' = given + n
      BY <1>1 DEF WriteBytes
    <3> QED BY <3>1, <3>2
  <2>3. \/ unwritten = <<>> /\ unwritten' = <<>> /\ written' = written
        \/ unwritten # <<>> /\ unwritten' # <<>> /\ written' = written
        \/ unwritten = <<>> /\ unwritten' # <<>> /\ written' = written + 1
    <3> HIDE DEF Inductive
    <3> QED BY <1>1, WriteDoes
  <2>4. unwritten = <<>> <=> written \in setWritten
    OBVIOUS
  <2> HIDE DEF Inductive
  <2>5. written' <= given'
    BY <2>2, <2>3
  <2> QED BY <2>1, <2>3, <2>4, <2>5
<1>2. ASSUME NEW w \in Waiters, AskWritten(w) PROVE EventsOK'
  BY <1>2 DEF AskWritten
<1>3. ASSUME NEW w \in Waiters, Answer(w) PROVE EventsOK'
  BY <1>3 DEF Answer, NotWaiting
<1>4. CASE StartWriter
  BY <1>4 DEF StartWriter
<1>5. CASE WriterWakes
  <2>1. unwritten # <<>> => master
    BY DEF WriterOK
  <2> QED BY <1>5, <2>1 DEF WriterWakes, SayWritten
<1>6. CASE DescriptorIsWritable
  BY <1>6 DEF DescriptorIsWritable
<1>7. CASE WriterLosesMaster
  BY <1>7 DEF WriterLosesMaster, WokenByClose, GiveUp, SayWritten
<1>8. CASE WriterFindsClosed
  BY <1>8 DEF WriterFindsClosed
<1>9. CASE WriterRaises
  BY <1>9 DEF WriterRaises, GiveUp, SayWritten
<1>10. CASE WriterWrites
  BY <1>10 DEF WriterWrites, SayWritten
<1>11. CASE WriterCancelled
  BY <1>11 DEF WriterCancelled
<1>12. CASE Close
  BY <1>12 DEF Close, SayWritten
<1>13. CASE CancelScope
  BY <1>13 DEF CancelScope
<1>14. CASE ProgramReads
  BY <1>14 DEF ProgramReads
<1>15. CASE ProgramGoes
  BY <1>15 DEF ProgramGoes
<1>16. CASE UNCHANGED inputVars
  BY <1>16 DEF inputVars
<1> QED
  BY <1>1, <1>2, <1>3, <1>4, <1>5, <1>6, <1>7, <1>8, <1>9, <1>10, <1>11,
     <1>12, <1>13, <1>14, <1>15, <1>16
  DEF InputNext, WriterStep

\* Who waits on an event that is set.
LEMMA AnswersStep ==
  ASSUME Inductive, [InputNext]_inputVars
  PROVE  AnswersOK'
<1> USE DEF Inductive, AnswersOK, PlainOK, WaitingOK, SeqsOK
<1>1. ASSUME NEW n \in 1..MaxChunk, WriteBytes(n) PROVE AnswersOK'
  <2>1. /\ waiting' = waiting /\ setWritten' = setWritten
        /\ master' = master /\ hungUp' = hungUp
    BY <1>1 DEF WriteBytes
  <2>2. Len(took') >= Len(took) /\ Len(took') \in Nat /\ Len(took) \in Nat
    <3> HIDE DEF Inductive
    <3>1. took' \in Seq(Bytes) /\ Len(took') >= Len(took)
      BY <1>1, WriteDoes
    <3>2. took \in Seq(Bytes)
      BY DEF Inductive
    <3> QED BY <3>1, <3>2
  <2> QED BY <2>1, <2>2
<1>2. ASSUME NEW w \in Waiters, AskWritten(w) PROVE AnswersOK'
  <2>1. written \in setWritten /\ master /\ ~hungUp => Len(took) = given
    BY DEF EventsOK, WrittenIsTruthful, StreamOK, Whole
  <2> QED BY <1>2, <2>1 DEF AskWritten
<1>3. ASSUME NEW w \in Waiters, Answer(w) PROVE AnswersOK'
  BY <1>3 DEF Answer, NotWaiting
<1>4. CASE StartWriter
  BY <1>4 DEF StartWriter
<1>5. CASE WriterWakes
  <2>1. unwritten = <<>> /\ master /\ ~hungUp => Len(took) = given
    BY DEF StreamOK, Whole
  <2>2. ~master => ~master'
    BY <1>5 DEF WriterWakes
  <2> QED BY <1>5, <2>1, <2>2 DEF WriterWakes, SayWritten
<1>6. CASE DescriptorIsWritable
  BY <1>6 DEF DescriptorIsWritable
<1>7. CASE WriterLosesMaster
  BY <1>7 DEF WriterLosesMaster, WokenByClose, GiveUp, SayWritten
<1>8. CASE WriterFindsClosed
  BY <1>8 DEF WriterFindsClosed
<1>9. CASE WriterRaises
  BY <1>9 DEF WriterRaises, GiveUp, SayWritten, WriteRaises
<1>10. CASE WriterWrites
  <2>1. Len(took') >= Len(took) /\ Len(took') \in Nat /\ Len(took) \in Nat
    BY <1>10, WriterDoes
  <2>2. master /\ ~hungUp /\ unwritten' = <<>> => Len(took') = given
    BY <1>10, WriterDoes
  <2>3. /\ waiting' = waiting /\ master' = master /\ hungUp' = hungUp
        /\ \/ setWritten' = setWritten
           \/ setWritten' = setWritten \cup {written} /\ unwritten' = <<>>
    <3> HIDE DEF Inductive
    <3>1. waiting' = waiting /\ master' = master /\ hungUp' = hungUp
      BY <1>10 DEF WriterWrites
    <3>2. IF unwritten' = <<>> THEN SayWritten ELSE setWritten' = setWritten
      BY <1>10 DEF WriterWrites
    <3> QED BY <3>1, <3>2, Zenon DEF SayWritten
  <2>4. ASSUME NEW w \in Waiters,
               waiting[w].waits, waiting[w].event \in setWritten',
               master, ~hungUp
        PROVE  Len(took') >= waiting[w].upto
    <3>1. waiting[w].upto \in 0..given
      OBVIOUS
    <3>2. CASE waiting[w].event \in setWritten
      <4>1. Len(took) >= waiting[w].upto
        BY <2>4, <3>2
      <4> QED BY <2>1, <3>1, <4>1
    <3>3. CASE waiting[w].event \notin setWritten
      BY <2>2, <2>3, <2>4, <3>1, <3>3
    <3> QED BY <3>2, <3>3
  <2> QED BY <2>3, <2>4
<1>11. CASE WriterCancelled
  BY <1>11 DEF WriterCancelled
<1>12. CASE Close
  BY <1>12 DEF Close, SayWritten
<1>13. CASE CancelScope
  BY <1>13 DEF CancelScope
<1>14. CASE ProgramReads
  BY <1>14 DEF ProgramReads
<1>15. CASE ProgramGoes
  BY <1>15 DEF ProgramGoes
<1>16. CASE UNCHANGED inputVars
  BY <1>16 DEF inputVars
<1> QED
  BY <1>1, <1>2, <1>3, <1>4, <1>5, <1>6, <1>7, <1>8, <1>9, <1>10, <1>11,
     <1>12, <1>13, <1>14, <1>15, <1>16
  DEF InputNext, WriterStep

\* The writer.
LEMMA WriterStepOK ==
  ASSUME Inductive, [InputNext]_inputVars
  PROVE  WriterOK'
<1> USE DEF Inductive, WriterOK, NobodyIsForgotten, WriteRaises, PlainOK
<1>1. ASSUME NEW n \in 1..MaxChunk, WriteBytes(n) PROVE WriterOK'
  <2>1. /\ writer' = writer /\ scope' = scope /\ master' = master /\ master
        /\ hungUp' = hungUp /\ raises' = raises
    BY <1>1 DEF WriteBytes
  <2>2. \/ unwritten = <<>> /\ unwritten' = <<>>
        \/ unwritten # <<>> /\ unwritten' # <<>> /\ moreSet' = moreSet
        \/ unwritten = <<>> /\ unwritten' # <<>> /\ ~WriteRaises /\ moreSet' = TRUE
    <3> HIDE DEF Inductive, WriteRaises
    <3> QED BY <1>1, WriteDoes
  <2>3. WriteRaises' <=> WriteRaises
    BY <2>1
  <2> HIDE DEF WriteRaises
  <2>4. /\ WriterOK /\ writer \in WriterStates
        /\ scope \in {"open", "cancelled"} /\ moreSet \in BOOLEAN
    BY DEF Inductive, PlainOK
  <2> HIDE DEF Inductive
  <2>5. ~master' => unwritten' = <<>>
    BY <2>1, <2>2
  <2>6. writer' = "done" => scope' = "cancelled" \/ ~master' \/ WriteRaises'
    BY <2>1, <2>3, <2>4
  <2>7. NobodyIsForgotten'
    BY <2>1, <2>2, <2>4 DEF WriterStates
  <2> QED BY <2>5, <2>6, <2>7
<1>2. ASSUME NEW w \in Waiters, AskWritten(w) PROVE WriterOK'
  BY <1>2 DEF AskWritten
<1>3. ASSUME NEW w \in Waiters, Answer(w) PROVE WriterOK'
  BY <1>3 DEF Answer, NotWaiting
<1>4. CASE StartWriter
  BY <1>4 DEF StartWriter
<1>5. CASE WriterWakes
  BY <1>5 DEF WriterWakes, SayWritten, WriterStates
<1>6. CASE DescriptorIsWritable
  BY <1>6 DEF DescriptorIsWritable
<1>7. CASE WriterLosesMaster
  BY <1>7 DEF WriterLosesMaster, WokenByClose, GiveUp, SayWritten
<1>8. CASE WriterFindsClosed
  BY <1>8 DEF WriterFindsClosed
<1>9. CASE WriterRaises
  BY <1>9 DEF WriterRaises, GiveUp, SayWritten
<1>10. CASE WriterWrites
  BY <1>10 DEF WriterWrites, SayWritten, WriteRaises
<1>11. CASE WriterCancelled
  BY <1>11 DEF WriterCancelled
<1>12. CASE Close
  BY <1>12 DEF Close, SayWritten
<1>13. CASE CancelScope
  BY <1>13 DEF CancelScope
<1>14. CASE ProgramReads
  BY <1>14 DEF ProgramReads
<1>15. CASE ProgramGoes
  BY <1>15 DEF ProgramGoes
<1>16. CASE UNCHANGED inputVars
  BY <1>16 DEF inputVars
<1> QED
  BY <1>1, <1>2, <1>3, <1>4, <1>5, <1>6, <1>7, <1>8, <1>9, <1>10, <1>11,
     <1>12, <1>13, <1>14, <1>15, <1>16
  DEF InputNext, WriterStep

LEMMA NextInductive == Inductive /\ [InputNext]_inputVars => Inductive'
BY PlainStep, SeqsStep, WaitingStep, StreamStep, EventsStep, AnswersStep,
   WriterStepOK
   DEF Inductive

THEOREM InductiveInvariant == InputSpec => []Inductive
BY InitInductive, NextInductive, PTL DEF InputSpec

-----------------------------------------------------------------------------
(* What it gives.                                                          *)

\* Every variable stays in its type, and the pty holds no more than its room.
THEOREM TypeCorrect == InputSpec => []InputTypeOK
<1>1. Inductive => InputTypeOK
  BY DEF Inductive, PlainOK, SeqsOK, WaitingOK, InputTypeOK
<1> QED BY InductiveInvariant, <1>1, PTL

\* write_bytes and _write_the_rest: every byte once and in its order, through
\* any partial writes, as long as the program is there.
THEOREM InputArrivesInOrder == InputSpec => []InputInOrder
<1>1. Inductive => InputInOrder
  <2> SUFFICES ASSUME Inductive PROVE InputInOrder
    OBVIOUS
  <2>1. \A i, j \in 1..Len(took) : i < j => took[i] < took[j]
    BY DEF Inductive, StreamOK, Ordered
  <2>2. ASSUME master, ~hungUp
        PROVE  took \o unwritten = [i \in 1..given |-> i]
    <3> DEFINE all == took \o unwritten
    <3>1. /\ took \in Seq(Bytes) /\ unwritten \in Seq(Bytes) /\ given \in Nat
          /\ Len(took) + Len(unwritten) = given
          /\ \A i \in 1..Len(took) : took[i] = i
          /\ \A i \in 1..Len(unwritten) : unwritten[i] = (given - Len(unwritten)) + i
      BY <2>2 DEF Inductive, StreamOK, Whole, Ordered, SeqsOK, PlainOK
    <3>2. /\ all \in Seq(Bytes)
          /\ Len(all) = Len(took) + Len(unwritten)
          /\ \A i \in 1..(Len(took) + Len(unwritten)) :
               all[i] = IF i <= Len(took) THEN took[i]
                                          ELSE unwritten[i - Len(took)]
      BY <3>1, ConcatProperties
    <3> HIDE DEF all
    <3>3. Len(took) \in Nat /\ Len(unwritten) \in Nat
      BY <3>1
    <3>4. ASSUME NEW i \in 1..given PROVE all[i] = i
      <4>1. CASE i <= Len(took)
        BY <3>1, <3>2, <3>3, <4>1
      <4>2. CASE i > Len(took)
        <5>1. i - Len(took) \in 1..Len(unwritten)
          BY <3>1, <3>3, <4>2
        <5>2. all[i] = unwritten[i - Len(took)]
          BY <3>1, <3>2, <3>3, <4>2
        <5>3. unwritten[i - Len(took)]
                = (given - Len(unwritten)) + (i - Len(took))
          BY <3>1, <5>1
        <5>4. Len(took) + Len(unwritten) = given
          BY <3>1
        <5>5. i \in Int /\ given - Len(unwritten) = Len(took)
          BY <3>1, <3>3, <5>4
        <5>6. (given - Len(unwritten)) + (i - Len(took)) = i
          BY <3>3, <5>5
        <5> QED BY <5>2, <5>3, <5>6, Zenon
      <4> QED BY <3>1, <3>3, <4>1, <4>2
    <3>5. all \in [1..given -> Bytes]
      BY <3>1, <3>2, LenProperties
    <3>6. all = [i \in 1..given |-> i]
      BY <3>4, <3>5
    <3> QED BY <3>6 DEF all
  <2> QED BY <2>1, <2>2 DEF InputInOrder
<1> QED BY InductiveInvariant, <1>1, PTL

\* `_more_to_write`: no wakeup is lost between a write and the wait for it.
THEOREM NobodyForgotten == InputSpec => []NobodyIsForgotten
BY InductiveInvariant, PTL DEF Inductive, WriterOK

\* input_written returns no sooner than it says.
THEOREM AnswersAreTrue == InputSpec => AnsweredMeansWritten
<1>1. ASSUME Inductive, [InputNext]_inputVars
      PROVE  \A w \in Waiters :
               waiting[w].waits /\ ~waiting'[w].waits =>
                 Len(took) >= waiting[w].upto \/ ~master \/ hungUp
  <2> SUFFICES ASSUME NEW v \in Waiters,
                      waiting[v].waits, ~waiting'[v].waits
               PROVE  Len(took) >= waiting[v].upto \/ ~master \/ hungUp
    OBVIOUS
  <2> DEFINE Set == waiting[v].event \in setWritten
  <2>1. Set
  <3>1. ASSUME NEW n \in 1..MaxChunk, WriteBytes(n) PROVE Set
    BY <3>1 DEF WriteBytes
  <3>2. ASSUME NEW w \in Waiters, AskWritten(w) PROVE Set
    BY <3>2, <1>1 DEF AskWritten, Inductive, WaitingOK
  <3>3. ASSUME NEW w \in Waiters, Answer(w) PROVE Set
    BY <3>3, <1>1 DEF Answer, Inductive, WaitingOK
  <3>4. CASE StartWriter
    BY <3>4 DEF StartWriter
  <3>5. CASE WriterWakes
    BY <3>5 DEF WriterWakes, SayWritten
  <3>6. CASE DescriptorIsWritable
    BY <3>6 DEF DescriptorIsWritable
  <3>7. CASE WriterLosesMaster
    BY <3>7 DEF WriterLosesMaster, WokenByClose, GiveUp, SayWritten
  <3>8. CASE WriterFindsClosed
    BY <3>8 DEF WriterFindsClosed
  <3>9. CASE WriterRaises
    BY <3>9 DEF WriterRaises, GiveUp, SayWritten
  <3>10. CASE WriterWrites
    BY <3>10 DEF WriterWrites, SayWritten
  <3>11. CASE WriterCancelled
    BY <3>11 DEF WriterCancelled
  <3>12. CASE Close
    BY <3>12 DEF Close, SayWritten
  <3>13. CASE CancelScope
    BY <3>13 DEF CancelScope
  <3>14. CASE ProgramReads
    BY <3>14 DEF ProgramReads
  <3>15. CASE ProgramGoes
    BY <3>15 DEF ProgramGoes
  <3>16. CASE UNCHANGED inputVars
    BY <3>16 DEF inputVars
  <3> QED
    BY <1>1, <3>1, <3>2, <3>3, <3>4, <3>5, <3>6, <3>7, <3>8, <3>9, <3>10,
       <3>11, <3>12, <3>13, <3>14, <3>15, <3>16
    DEF InputNext, WriterStep
  <2> QED BY <1>1, <2>1 DEF Inductive, AnswersOK
<1> QED BY InductiveInvariant, <1>1, PTL DEF InputSpec, AnsweredMeansWritten
=============================================================================
