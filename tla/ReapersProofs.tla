--------------------------- MODULE ReapersProofs ---------------------------
(***************************************************************************)
(* Any number of programs over any number of worker threads: each program  *)
(* is a Lifecycle, no more threads are lent than there are, each end is    *)
(* told as that program's own, and no thread is lost or kept.              *)
(*                                                                         *)
(* For the refinement it is enough to know where a child can be before its *)
(* reaper has a thread, and who is in line for one.  The ends and the      *)
(* threads need in addition what a code and a mark say of the child, and   *)
(* that exactly those that wait in a thread have been lent one.            *)
(***************************************************************************)
EXTENDS Reapers, FiniteSetTheorems, SequenceTheorems, TLAPS

USE AdoptedAssumption, ThreadsAssumption

\* Nobody has waited for a child whose reaper has no thread yet.
ChildOK(p) ==
  /\ child[p] = "unborn" <=> p \notin Adopted /\ reap[p] = "none"
  /\ reap[p] \in {"none", "scheduled", "queued"} =>
       thread[p] = "none" /\ child[p] # "free" /\ code[p] = "None"
  /\ thread[p] = "waitpid" => child[p] # "free"
  /\ thread[p] \in {"returned", "stored"} => child[p] = "free"
  /\ reap[p] = "resumed" => thread[p] = "stored"
  /\ reap[p] = "waiting" => thread[p] # "none"
  /\ died[p] = "no" <=> child[p] \in {"unborn", "running"}
  /\ child[p] # "running" => ~killed[p]

\* In line are reapers that wait for a thread, each once.
LineOK ==
  /\ \A i \in 1..Len(line) : reap[line[i]] = "queued"
  /\ \A i, j \in 1..Len(line) : i # j => line[i] # line[j]

Inductive ==
  /\ TypeOK /\ LineOK
  /\ \A p \in Programs : ChildOK(p)

-----------------------------------------------------------------------------
(* The line.                                                               *)

\* Whoever gives up a place is not in line any more, and the others are.
LEMMA LeavingLine ==
  ASSUME TypeOK, LineOK, NEW p \in Programs, reap[p] = "queued", LeavesLine(p)
  PROVE  /\ line' \in Seq(Programs)
         /\ \A i \in 1..Len(line') : reap[line'[i]] = "queued" /\ line'[i] # p
         /\ \A i, j \in 1..Len(line') : i # j => line'[i] # line'[j]
         /\ \A i \in 1..Len(line) :
              line[i] # p => \E j \in 1..Len(line') : line'[j] = line[i]
<1>1. PICK k \in 1..Len(line) :
        /\ line[k] = p
        /\ line' = SubSeq(line, 1, k - 1) \o SubSeq(line, k + 1, Len(line))
  BY DEF LeavesLine
<1> DEFINE front == SubSeq(line, 1, k - 1)
           back == SubSeq(line, k + 1, Len(line))
<1>2. line \in Seq(Programs) /\ Len(line) \in Nat /\ k \in Nat
  BY DEF TypeOK, LimiterOK
<1>3. /\ front \in Seq(Programs) /\ Len(front) = k - 1
      /\ \A i \in 1..(k - 1) : front[i] = line[i]
  <2>1. \A i \in 1..(k - 1) : line[i] \in Programs
    BY <1>2
  <2>2. 1 \in Int /\ k - 1 \in Int
    BY <1>2
  <2>3. /\ SubSeq(line, 1, k - 1) \in Seq(Programs)
        /\ Len(SubSeq(line, 1, k - 1)) = IF 1 <= k - 1 THEN (k - 1) - 1 + 1 ELSE 0
        /\ \A i \in 1..((k - 1) - 1 + 1) :
             SubSeq(line, 1, k - 1)[i] = line[1 + i - 1]
    BY ONLY <2>1, <2>2, SubSeqProperties
  <2> QED BY <1>2, <2>3
<1>4. /\ back \in Seq(Programs) /\ Len(back) = Len(line) - k
      /\ \A i \in 1..(Len(line) - k) : back[i] = line[k + i]
  <2>1. \A i \in (k + 1)..Len(line) : line[i] \in Programs
    BY <1>2
  <2>2. k + 1 \in Int /\ Len(line) \in Int
    BY <1>2
  <2>3. /\ SubSeq(line, k + 1, Len(line)) \in Seq(Programs)
        /\ Len(SubSeq(line, k + 1, Len(line))) =
             IF k + 1 <= Len(line) THEN Len(line) - (k + 1) + 1 ELSE 0
        /\ \A i \in 1..(Len(line) - (k + 1) + 1) :
             SubSeq(line, k + 1, Len(line))[i] = line[(k + 1) + i - 1]
    BY ONLY <2>1, <2>2, SubSeqProperties
  <2> QED BY <1>2, <2>3
<1>5. line' = front \o back
  BY <1>1
<1> HIDE DEF front, back
<1>6. /\ line' \in Seq(Programs)
      /\ Len(line') = Len(front) + Len(back)
      /\ \A i \in 1..(Len(front) + Len(back)) :
           line'[i] = IF i <= Len(front) THEN front[i]
                                         ELSE back[i - Len(front)]
  BY <1>3, <1>4, <1>5, ConcatProperties, ZenonT(30)
<1>7. Len(line') = Len(line) - 1
  BY <1>2, <1>3, <1>4, <1>6
\* The place that one of those that stay had before.
<1> DEFINE was(i) == IF i < k THEN i ELSE i + 1
<1>8. ASSUME NEW i \in 1..Len(line')
      PROVE  /\ was(i) \in 1..Len(line) /\ was(i) # k
             /\ line'[i] = line[was(i)]
  <2>1. i \in 1..(Len(front) + Len(back)) /\ i \in Nat
    BY <1>6
  <2>2. CASE i < k
    <3>1. i \in 1..(k - 1) /\ i <= Len(front)
      BY <1>2, <1>3, <2>1, <2>2
    <3>2. line'[i] = front[i]
      BY <1>6, <2>1, <3>1
    <3>3. i \in 1..Len(line)
      BY <1>2, <3>1
    <3> QED BY <1>3, <2>2, <3>1, <3>2, <3>3
  <2>3. CASE ~(i < k)
    <3>1. i - Len(front) \in 1..(Len(line) - k) /\ ~(i <= Len(front))
      BY <1>2, <1>3, <1>4, <2>1, <2>3
    <3>2. line'[i] = back[i - Len(front)]
      BY <1>6, <2>1, <3>1
    <3>3. back[i - Len(front)] = line[k + (i - Len(front))]
      BY <1>4, <3>1
    <3>4. k + (i - Len(front)) = i + 1
      BY <1>2, <1>3, <2>1
    <3>5. i + 1 \in 1..Len(line) /\ i + 1 # k
      BY <1>2, <1>7, <2>1, <2>3
    <3> QED BY <2>3, <3>2, <3>3, <3>4, <3>5
  <2> QED BY <2>2, <2>3
<1>9. ASSUME NEW i \in 1..Len(line')
      PROVE  reap[line'[i]] = "queued" /\ line'[i] # p
  <2>1. /\ was(i) \in 1..Len(line) /\ was(i) # k
        /\ line'[i] = line[was(i)]
    BY <1>8
  <2>2. \A j \in 1..Len(line) : reap[line[j]] = "queued"
    BY DEF LineOK
  <2>3. \A a, b \in 1..Len(line) : a # b => line[a] # line[b]
    BY DEF LineOK
  <2> HIDE DEF was
  <2>4. line[was(i)] # line[k]
    BY <1>1, <2>1, <2>3
  <2> QED BY <1>1, <2>1, <2>2, <2>4
<1>10. ASSUME NEW i \in 1..Len(line'), NEW j \in 1..Len(line'), i # j
       PROVE  line'[i] # line'[j]
  <2>1. was(i) # was(j)
    BY <1>2, <1>10
  <2> QED BY <1>8, <2>1 DEF LineOK
\* The place that one of those that stay has now.
<1>11. ASSUME NEW i \in 1..Len(line), line[i] # p
       PROVE  \E j \in 1..Len(line') : line'[j] = line[i]
  <2> DEFINE now == IF i < k THEN i ELSE i - 1
  <2>1. i # k /\ i \in Nat
    BY <1>1, <1>11
  <2>2. now \in 1..Len(line') /\ was(now) = i
    BY <1>2, <1>7, <2>1
  <2> HIDE DEF now, was
  <2>3. line'[now] = line[i]
    BY <1>8, <2>2
  <2> QED BY <2>2, <2>3
<1> QED BY <1>6, <1>9, <1>10, <1>11

\* Whoever gets a thread was first in line.
LEMMA GettingThread ==
  ASSUME TypeOK, LineOK, ReapGetsThread
  PROVE  /\ Head(line) \in Programs /\ reap[Head(line)] = "queued"
         /\ line' \in Seq(Programs)
         /\ \A i \in 1..Len(line') :
              reap[line'[i]] = "queued" /\ line'[i] # Head(line)
         /\ \A i, j \in 1..Len(line') : i # j => line'[i] # line'[j]
         /\ \A i \in 1..Len(line) :
              line[i] # Head(line)
                => \E j \in 1..Len(line') : line'[j] = line[i]
<1>1. line \in Seq(Programs) /\ line # <<>> /\ line' = Tail(line)
  BY DEF TypeOK, LimiterOK, ReapGetsThread
<1>2. /\ line' \in Seq(Programs) /\ Len(line') = Len(line) - 1
      /\ \A i \in 1..Len(line') : line'[i] = line[i + 1]
  BY <1>1, HeadTailProperties
<1>3. Len(line) \in Nat \ {0} /\ Head(line) = line[1]
  BY <1>1, EmptySeq
<1>4. 1 \in 1..Len(line)
  BY <1>3
<1>5. ASSUME NEW i \in 1..Len(line')
      PROVE  i + 1 \in 1..Len(line) /\ i + 1 # 1 /\ line'[i] = line[i + 1]
  BY <1>2, <1>3
<1>6. Head(line) \in Programs /\ reap[Head(line)] = "queued"
  BY <1>1, <1>3, <1>4 DEF LineOK
<1>7. \A i \in 1..Len(line') : reap[line'[i]] = "queued" /\ line'[i] # Head(line)
  BY <1>3, <1>4, <1>5 DEF LineOK
<1>8. ASSUME NEW i \in 1..Len(line'), NEW j \in 1..Len(line'), i # j
      PROVE  line'[i] # line'[j]
  <2>1. i + 1 # j + 1
    BY <1>2, <1>3, <1>8
  <2> QED BY <1>5, <2>1 DEF LineOK
<1>9. ASSUME NEW i \in 1..Len(line), line[i] # Head(line)
      PROVE  \E j \in 1..Len(line') : line'[j] = line[i]
  <2>1. i # 1 /\ i - 1 \in 1..Len(line') /\ (i - 1) + 1 = i
    BY <1>2, <1>3, <1>9
  <2>2. line'[i - 1] = line[i]
    BY <1>2, <2>1
  <2> QED BY <2>1, <2>2
<1> QED BY <1>2, <1>6, <1>7, <1>8, <1>9

-----------------------------------------------------------------------------
(* The steps.                                                              *)

LEMMA InitInductive == Init => Inductive
<1> SUFFICES ASSUME Init PROVE Inductive
  OBVIOUS
<1>1. TasksOK
  BY DEF Init, TasksOK, ReapStates
<1>2. LimiterOK
  <2>1. IsFiniteSet({}) /\ Cardinality({}) = 0
    BY FS_EmptySet
  <2>2. <<>> \in Seq(Programs)
    OBVIOUS
  <2> QED BY <2>1, <2>2 DEF Init, LimiterOK
<1>3. LineOK
  BY DEF Init, LineOK
<1>4. ASSUME NEW p \in Programs PROVE ChildOK(p)
  BY DEF Init, ChildOK
<1> QED BY <1>1, <1>2, <1>3, <1>4 DEF Inductive, TypeOK

\* Types, one part at a time.
LEMMA TasksStep ==
  ASSUME Inductive, [Next]_vars
  PROVE  TasksOK'
<1> USE DEF Inductive, TypeOK, TasksOK, ReapStates
<1>1. ASSUME NEW q \in Programs, Start(q) PROVE TasksOK'
  BY <1>1 DEF Start
<1>2. ASSUME NEW q \in Programs, ReapFindsEnded(q) PROVE TasksOK'
  BY <1>2 DEF ReapFindsEnded, NeedsThread
<1>3. ASSUME NEW q \in Programs, ReapQueues(q) PROVE TasksOK'
  BY <1>3 DEF ReapQueues, NeedsThread
<1>4. ASSUME NEW q \in Programs, ReapWakes(q) PROVE TasksOK'
  BY <1>4 DEF ReapWakes
<1>5. ASSUME NEW q \in Programs, ReapReturns(q) PROVE TasksOK'
  BY <1>5 DEF ReapReturns
<1>6. ASSUME NEW q \in Programs, ReapCancelled(q) PROVE TasksOK'
  BY <1>6 DEF ReapCancelled, Abandons, SendKill
<1>7. ASSUME NEW q \in Programs, ThreadReaps(q) PROVE TasksOK'
  BY <1>7 DEF ThreadReaps
<1>8. ASSUME NEW q \in Programs, ThreadStores(q) PROVE TasksOK'
  BY <1>8 DEF ThreadStores
<1>9. ASSUME NEW q \in Programs, WatcherTells(q) PROVE TasksOK'
  BY <1>9 DEF WatcherTells, ReadyF
<1>10. ASSUME NEW q \in Programs, Exits(q) PROVE TasksOK'
  BY <1>10 DEF Exits, Dies
<1>11. ASSUME NEW q \in Programs, IsKilled(q) PROVE TasksOK'
  BY <1>11 DEF IsKilled, Dies
<1>12. CASE ReapGetsThread
  <2>1. Head(line) \in Programs
    BY <1>12, GettingThread
  <2> QED BY <1>12, <2>1 DEF ReapGetsThread
<1>13. CASE CancelScope
  BY <1>13 DEF CancelScope, ReadyF
<1>14. CASE UNCHANGED vars
  BY <1>14 DEF vars
<1> QED
  BY <1>1, <1>2, <1>3, <1>4, <1>5, <1>6, <1>7, <1>8, <1>9, <1>10, <1>11,
     <1>12, <1>13, <1>14
  DEF Next, ReaperStep, ThreadStep

LEMMA LimiterStep ==
  ASSUME Inductive, [Next]_vars
  PROVE  LimiterOK'
<1> USE DEF Inductive, TypeOK, LimiterOK
<1>1. ASSUME NEW q \in Programs, Start(q) PROVE LimiterOK'
  BY <1>1 DEF Start
<1>2. ASSUME NEW q \in Programs, ReapFindsEnded(q) PROVE LimiterOK'
  BY <1>2 DEF ReapFindsEnded, NeedsThread
<1>3. ASSUME NEW q \in Programs, ReapQueues(q) PROVE LimiterOK'
  <2>1. line' = Append(line, q) /\ lent' = lent
    BY <1>3 DEF ReapQueues
  <2>2. line' \in Seq(Programs)
    BY <2>1, AppendProperties
  <2> QED BY <2>1, <2>2
<1>4. ASSUME NEW q \in Programs, ReapWakes(q) PROVE LimiterOK'
  BY <1>4 DEF ReapWakes
<1>5. ASSUME NEW q \in Programs, ReapReturns(q) PROVE LimiterOK'
  <2>1. lent' = lent \ {q} /\ line' = line
    BY <1>5 DEF ReapReturns
  <2>2. IsFiniteSet(lent') /\ Cardinality(lent') <= Cardinality(lent)
    <3>1. IsFiniteSet(lent) /\ lent' \in SUBSET lent
      BY <2>1
    <3> QED BY ONLY <3>1, FS_Subset
  <2>3. Cardinality(lent) \in Nat /\ Cardinality(lent') \in Nat
    BY <2>2, FS_CardinalityType
  <2>4. Cardinality(lent') <= Threads
    BY <2>2, <2>3
  <2> QED BY <2>1, <2>2, <2>4
<1>6. ASSUME NEW q \in Programs, ReapCancelled(q) PROVE LimiterOK'
  <2>1. lent' = lent \ {q}
    BY <1>6 DEF ReapCancelled
  <2>2. line' \in Seq(Programs)
    <3>1. CASE reap[q] = "queued"
      BY <1>6, <3>1, LeavingLine DEF ReapCancelled
    <3>2. CASE reap[q] # "queued"
      BY <1>6, <3>2 DEF ReapCancelled, LeavesLine
    <3> QED BY <3>1, <3>2
  <2>3. IsFiniteSet(lent') /\ Cardinality(lent') <= Cardinality(lent)
    <3>1. IsFiniteSet(lent) /\ lent' \in SUBSET lent
      BY <2>1
    <3> QED BY ONLY <3>1, FS_Subset
  <2>4. Cardinality(lent) \in Nat /\ Cardinality(lent') \in Nat
    BY <2>3, FS_CardinalityType
  <2>5. Cardinality(lent') <= Threads
    BY <2>3, <2>4
  <2> QED BY <2>1, <2>2, <2>3, <2>5
<1>7. ASSUME NEW q \in Programs, ThreadReaps(q) PROVE LimiterOK'
  BY <1>7 DEF ThreadReaps
<1>8. ASSUME NEW q \in Programs, ThreadStores(q) PROVE LimiterOK'
  BY <1>8 DEF ThreadStores
<1>9. ASSUME NEW q \in Programs, WatcherTells(q) PROVE LimiterOK'
  BY <1>9 DEF WatcherTells, ReadyF
<1>10. ASSUME NEW q \in Programs, Exits(q) PROVE LimiterOK'
  BY <1>10 DEF Exits, Dies
<1>11. ASSUME NEW q \in Programs, IsKilled(q) PROVE LimiterOK'
  BY <1>11 DEF IsKilled, Dies
<1>12. CASE ReapGetsThread
  <2>1. Head(line) \in Programs /\ line' \in Seq(Programs)
    BY <1>12, GettingThread
  <2>2. lent' = lent \cup {Head(line)} /\ Cardinality(lent) < Threads
    BY <1>12 DEF ReapGetsThread
  <2>3. IsFiniteSet(lent') /\ Cardinality(lent') <= Cardinality(lent) + 1
    <3>1. IsFiniteSet(lent) /\ Cardinality(lent) \in Nat
      BY FS_CardinalityType
    <3>2. /\ IsFiniteSet(lent \cup {Head(line)})
          /\ Cardinality(lent \cup {Head(line)})
               = IF Head(line) \in lent THEN Cardinality(lent)
                                       ELSE Cardinality(lent) + 1
      BY ONLY <3>1, FS_AddElement
    <3> QED BY <2>2, <3>1, <3>2
  <2>4. Cardinality(lent) \in Nat /\ Cardinality(lent') \in Nat
    BY <2>3, FS_CardinalityType
  <2>5. Cardinality(lent') <= Threads
    BY <2>2, <2>3, <2>4
  <2> QED BY <2>1, <2>2, <2>3, <2>5
<1>13. CASE CancelScope
  BY <1>13 DEF CancelScope, ReadyF
<1>14. CASE UNCHANGED vars
  BY <1>14 DEF vars
<1> QED
  BY <1>1, <1>2, <1>3, <1>4, <1>5, <1>6, <1>7, <1>8, <1>9, <1>10, <1>11,
     <1>12, <1>13, <1>14
  DEF Next, ReaperStep, ThreadStep

\* A step of one that is not in line leaves the line as it is.
LEMMA Others ==
  ASSUME TypeOK, LineOK, line' = line, NEW q \in Programs, reap[q] # "queued",
         \A r \in Programs : r # q => reap'[r] = reap[r]
  PROVE  LineOK'
<1>1. \A i \in 1..Len(line) : line[i] \in Programs /\ line[i] # q
  BY DEF TypeOK, LimiterOK, LineOK
<1> QED BY <1>1 DEF LineOK

\* Who is in line.
LEMMA LineStep ==
  ASSUME Inductive, [Next]_vars
  PROVE  LineOK'
<1> USE DEF Inductive, TypeOK
<1>1. ASSUME NEW q \in Programs, Start(q) PROVE LineOK'
  <2>1. line' = line /\ reap[q] # "queued"
    BY <1>1 DEF Start
  <2>2. \A r \in Programs : r # q => reap'[r] = reap[r]
    BY <1>1 DEF Start, TasksOK
  <2> QED BY <2>1, <2>2, Others
<1>2. ASSUME NEW q \in Programs, ReapFindsEnded(q) PROVE LineOK'
  <2>1. line' = line /\ reap[q] # "queued"
    BY <1>2 DEF ReapFindsEnded
  <2>2. \A r \in Programs : r # q => reap'[r] = reap[r]
    BY <1>2 DEF ReapFindsEnded, TasksOK
  <2> QED BY <2>1, <2>2, Others
<1>3. ASSUME NEW q \in Programs, ReapQueues(q) PROVE LineOK'
  <2>1. /\ line' = Append(line, q) /\ reap' = [reap EXCEPT ![q] = "queued"]
        /\ reap[q] = "scheduled"
    BY <1>3 DEF ReapQueues
  <2>2. line \in Seq(Programs) /\ Len(line) \in Nat
    BY DEF LimiterOK
  <2>3. /\ Len(line') = Len(line) + 1 /\ line'[Len(line) + 1] = q
        /\ \A i \in 1..Len(line) : line'[i] = line[i]
    BY <2>1, <2>2, AppendProperties
  <2>4. \A i \in 1..Len(line) : line[i] \in Programs /\ line[i] # q
    BY <2>1, <2>2 DEF LineOK
  <2>5. \A i \in 1..Len(line') : i \in 1..Len(line) \/ i = Len(line) + 1
    BY <2>2, <2>3
  <2>6. \A i \in 1..Len(line') : reap'[line'[i]] = "queued"
    BY <2>1, <2>3, <2>4, <2>5 DEF TasksOK, LineOK
  <2>7. \A i, j \in 1..Len(line') : i # j => line'[i] # line'[j]
    BY <2>3, <2>4, <2>5 DEF LineOK
  <2> QED BY <2>6, <2>7 DEF LineOK
<1>4. ASSUME NEW q \in Programs, ReapWakes(q) PROVE LineOK'
  <2>1. line' = line /\ reap[q] # "queued"
    BY <1>4 DEF ReapWakes
  <2>2. \A r \in Programs : r # q => reap'[r] = reap[r]
    BY <1>4 DEF ReapWakes, TasksOK
  <2> QED BY <2>1, <2>2, Others
<1>5. ASSUME NEW q \in Programs, ReapReturns(q) PROVE LineOK'
  <2>1. line' = line /\ reap[q] # "queued"
    BY <1>5 DEF ReapReturns
  <2>2. \A r \in Programs : r # q => reap'[r] = reap[r]
    BY <1>5 DEF ReapReturns, TasksOK
  <2> QED BY <2>1, <2>2, Others
<1>6. ASSUME NEW q \in Programs, ReapCancelled(q) PROVE LineOK'
  <2>1. reap' = [reap EXCEPT ![q] = "done"] /\ LeavesLine(q)
    BY <1>6 DEF ReapCancelled
  <2>2. CASE reap[q] = "queued"
    <3>1. /\ line' \in Seq(Programs)
          /\ \A i \in 1..Len(line') : reap[line'[i]] = "queued" /\ line'[i] # q
          /\ \A i, j \in 1..Len(line') : i # j => line'[i] # line'[j]
      BY <2>1, <2>2, LeavingLine
    <3>2. \A i \in 1..Len(line') : line'[i] \in Programs
      BY <3>1
    <3>3. \A i \in 1..Len(line') : reap'[line'[i]] = "queued"
      BY <2>1, <3>1, <3>2 DEF TasksOK
    <3> QED BY <3>1, <3>3 DEF LineOK
  <2>3. CASE reap[q] # "queued"
    <3>1. line' = line
      BY <2>1, <2>3 DEF LeavesLine
    <3>2. \A r \in Programs : r # q => reap'[r] = reap[r]
      BY <2>1 DEF TasksOK
    <3> QED BY <2>3, <3>1, <3>2, Others
  <2> QED BY <2>2, <2>3
<1>7. ASSUME NEW q \in Programs, ThreadReaps(q) PROVE LineOK'
  BY <1>7 DEF ThreadReaps, LineOK
<1>8. ASSUME NEW q \in Programs, ThreadStores(q) PROVE LineOK'
  BY <1>8 DEF ThreadStores, LineOK
<1>9. ASSUME NEW q \in Programs, WatcherTells(q) PROVE LineOK'
  BY <1>9 DEF WatcherTells, ReadyF, LineOK
<1>10. ASSUME NEW q \in Programs, Exits(q) PROVE LineOK'
  BY <1>10 DEF Exits, Dies, LineOK
<1>11. ASSUME NEW q \in Programs, IsKilled(q) PROVE LineOK'
  BY <1>11 DEF IsKilled, Dies, LineOK
<1>12. CASE ReapGetsThread
  <2>1. /\ Head(line) \in Programs /\ line' \in Seq(Programs)
        /\ \A i \in 1..Len(line') :
             reap[line'[i]] = "queued" /\ line'[i] # Head(line)
        /\ \A i, j \in 1..Len(line') : i # j => line'[i] # line'[j]
    BY <1>12, GettingThread
  <2>2. reap' = [reap EXCEPT ![Head(line)] = "waiting"]
    BY <1>12 DEF ReapGetsThread
  <2>3. \A i \in 1..Len(line') : line'[i] \in Programs
    BY <2>1
  <2>4. \A i \in 1..Len(line') : reap'[line'[i]] = "queued"
    BY <2>1, <2>2, <2>3 DEF TasksOK
  <2> QED BY <2>1, <2>4 DEF LineOK
<1>13. CASE CancelScope
  BY <1>13 DEF CancelScope, ReadyF, LineOK
<1>14. CASE UNCHANGED vars
  BY <1>14 DEF vars, LineOK
<1> QED
  BY <1>1, <1>2, <1>3, <1>4, <1>5, <1>6, <1>7, <1>8, <1>9, <1>10, <1>11,
     <1>12, <1>13, <1>14
  DEF Next, ReaperStep, ThreadStep

\* Where a child is.
LEMMA ChildStep ==
  ASSUME Inductive, [Next]_vars, NEW p \in Programs
  PROVE  ChildOK(p)'
<1> USE DEF Inductive, TypeOK, TasksOK, ChildOK, ReapStates
<1>1. ASSUME NEW q \in Programs, Start(q) PROVE ChildOK(p)'
  BY <1>1 DEF Start
<1>2. ASSUME NEW q \in Programs, ReapFindsEnded(q) PROVE ChildOK(p)'
  BY <1>2 DEF ReapFindsEnded, NeedsThread
<1>3. ASSUME NEW q \in Programs, ReapQueues(q) PROVE ChildOK(p)'
  BY <1>3 DEF ReapQueues, NeedsThread
<1>4. ASSUME NEW q \in Programs, ReapWakes(q) PROVE ChildOK(p)'
  BY <1>4 DEF ReapWakes
<1>5. ASSUME NEW q \in Programs, ReapReturns(q) PROVE ChildOK(p)'
  BY <1>5 DEF ReapReturns
<1>6. ASSUME NEW q \in Programs, ReapCancelled(q) PROVE ChildOK(p)'
  BY <1>6 DEF ReapCancelled, Abandons, SendKill
<1>7. ASSUME NEW q \in Programs, ThreadReaps(q) PROVE ChildOK(p)'
  BY <1>7 DEF ThreadReaps
<1>8. ASSUME NEW q \in Programs, ThreadStores(q) PROVE ChildOK(p)'
  BY <1>8 DEF ThreadStores
<1>9. ASSUME NEW q \in Programs, WatcherTells(q) PROVE ChildOK(p)'
  BY <1>9 DEF WatcherTells, ReadyF
<1>10. ASSUME NEW q \in Programs, Exits(q) PROVE ChildOK(p)'
  BY <1>10 DEF Exits, Dies
<1>11. ASSUME NEW q \in Programs, IsKilled(q) PROVE ChildOK(p)'
  BY <1>11 DEF IsKilled, Dies
<1>12. CASE ReapGetsThread
  <2>1. Head(line) \in Programs /\ reap[Head(line)] = "queued"
    BY <1>12, GettingThread
  <2> QED BY <1>12, <2>1 DEF ReapGetsThread
<1>13. CASE CancelScope
  BY <1>13 DEF CancelScope, ReadyF
<1>14. CASE UNCHANGED vars
  BY <1>14 DEF vars
<1> QED
  BY <1>1, <1>2, <1>3, <1>4, <1>5, <1>6, <1>7, <1>8, <1>9, <1>10, <1>11,
     <1>12, <1>13, <1>14
  DEF Next, ReaperStep, ThreadStep

LEMMA NextInductive == Inductive /\ [Next]_vars => Inductive'
BY TasksStep, LimiterStep, LineStep, ChildStep DEF Inductive, TypeOK

THEOREM InductiveInvariant == Spec => []Inductive
BY InitInductive, NextInductive, PTL DEF Spec

\* Every variable stays in its type, and no more threads are lent than there
\* are.
THEOREM TypeCorrect == Spec => []TypeOK
BY InductiveInvariant, PTL DEF Inductive

-----------------------------------------------------------------------------
(* Each program is a Lifecycle.                                            *)

LEMMA InitMaps == ASSUME Init, NEW p \in Programs PROVE Life(p)!Init
BY DEF Init, Life!Init, ReadyF, Life!Ways

LEMMA StepMaps ==
  ASSUME Inductive, [Next]_vars, NEW p \in Programs
  PROVE  [Life(p)!Next]_(Life(p)!vars)
<1> DEFINE Goal == Life(p)!Next \/ UNCHANGED Life(p)!vars
<1> SUFFICES Goal
  OBVIOUS
<1> USE DEF Inductive, TypeOK, TasksOK, ChildOK, ReapStates
<1>1. ASSUME NEW q \in Programs, Start(q) PROVE Goal
  <2>1. CASE q = p
    <3>1. Life(p)!Start
      BY <1>1, <2>1 DEF Start, ReadyF, Life!Start, Life!Supervise,
         Life!programVars, Life!reaperVars
    <3> QED BY <3>1 DEF Life!Next, Life!ReaperStep, Life!ThreadStep,
       Life!KernelStep
  <2>2. CASE q # p
    <3>1. UNCHANGED Life(p)!vars
      BY <1>1, <2>2 DEF Start, ReadyF, Life!vars
    <3> QED BY <3>1
  <2> QED BY <2>1, <2>2
<1>2. ASSUME NEW q \in Programs, ReapFindsEnded(q) PROVE Goal
  <2>1. CASE q = p
    <3>1. Life(p)!ReapFindsEnded
      BY <1>2, <2>1 DEF ReapFindsEnded, NeedsThread, ReadyF,
         Life!ReapFindsEnded, Life!MarkTheEnd, Life!programVars, Life!reaperVars
    <3> QED BY <3>1 DEF Life!Next, Life!ReaperStep, Life!ThreadStep,
       Life!KernelStep
  <2>2. CASE q # p
    <3>1. UNCHANGED Life(p)!vars
      BY <1>2, <2>2 DEF ReapFindsEnded, NeedsThread, ReadyF, Life!vars
    <3> QED BY <3>1
  <2> QED BY <2>1, <2>2
<1>3. ASSUME NEW q \in Programs, ReapQueues(q) PROVE Goal
  <2>1. CASE q = p
    <3>1. Life(p)!ReapBeginsWaiting
      BY <1>3, <2>1 DEF ReapQueues, NeedsThread, ReadyF,
         Life!ReapBeginsWaiting, Life!programVars, Life!reaperVars
    <3> QED BY <3>1 DEF Life!Next, Life!ReaperStep, Life!ThreadStep,
       Life!KernelStep
  <2>2. CASE q # p
    <3>1. UNCHANGED Life(p)!vars
      BY <1>3, <2>2 DEF ReapQueues, NeedsThread, ReadyF, Life!vars
    <3> QED BY <3>1
  <2> QED BY <2>1, <2>2
<1>4. ASSUME NEW q \in Programs, ReapWakes(q) PROVE Goal
  <2>1. CASE q = p
    <3>1. Life(p)!ReapWakes
      BY <1>4, <2>1 DEF ReapWakes, ReadyF, Life!ReapWakes, Life!programVars,
         Life!reaperVars
    <3> QED BY <3>1 DEF Life!Next, Life!ReaperStep, Life!ThreadStep,
       Life!KernelStep
  <2>2. CASE q # p
    <3>1. UNCHANGED Life(p)!vars
      BY <1>4, <2>2 DEF ReapWakes, ReadyF, Life!vars
    <3> QED BY <3>1
  <2> QED BY <2>1, <2>2
<1>5. ASSUME NEW q \in Programs, ReapReturns(q) PROVE Goal
  <2>1. CASE q = p
    <3>1. Life(p)!ReapReturns
      BY <1>5, <2>1 DEF ReapReturns, ReadyF, Life!ReapReturns,
         Life!MarkTheEnd, Life!programVars, Life!reaperVars
    <3> QED BY <3>1 DEF Life!Next, Life!ReaperStep, Life!ThreadStep,
       Life!KernelStep
  <2>2. CASE q # p
    <3>1. UNCHANGED Life(p)!vars
      BY <1>5, <2>2 DEF ReapReturns, ReadyF, Life!vars
    <3> QED BY <3>1
  <2> QED BY <2>1, <2>2
<1>6. ASSUME NEW q \in Programs, ReapCancelled(q) PROVE Goal
  <2>1. CASE q = p
    <3>1. Life(p)!ReapCancelled
      BY <1>6, <2>1, ZenonT(30) DEF ReapCancelled, Abandons, SendKill, ReadyF,
         Life!ReapCancelled, Life!MarkTheEnd, Life!SendSignal, Life!Reaped,
         Life!Deliver, Life!programVars, Life!reaperVars
    <3> QED BY <3>1 DEF Life!Next, Life!ReaperStep, Life!ThreadStep,
       Life!KernelStep
  <2>2. CASE q # p
    <3>1. UNCHANGED Life(p)!vars
      BY <1>6, <2>2 DEF ReapCancelled, Abandons, SendKill, ReadyF, Life!vars
    <3> QED BY <3>1
  <2> QED BY <2>1, <2>2
<1>7. ASSUME NEW q \in Programs, ThreadReaps(q) PROVE Goal
  <2>1. CASE q = p
    <3>1. Life(p)!ThreadReaps
      BY <1>7, <2>1 DEF ThreadReaps, ReadyF, Life!ThreadReaps,
         Life!programVars, Life!reaperVars
    <3> QED BY <3>1 DEF Life!Next, Life!ReaperStep, Life!ThreadStep,
       Life!KernelStep
  <2>2. CASE q # p
    <3>1. UNCHANGED Life(p)!vars
      BY <1>7, <2>2 DEF ThreadReaps, ReadyF, Life!vars
    <3> QED BY <3>1
  <2> QED BY <2>1, <2>2
<1>8. ASSUME NEW q \in Programs, ThreadStores(q) PROVE Goal
  <2>1. CASE q = p
    <3>1. Life(p)!ThreadStores
      BY <1>8, <2>1 DEF ThreadStores, ReadyF, Life!ThreadStores,
         Life!programVars, Life!reaperVars
    <3> QED BY <3>1 DEF Life!Next, Life!ReaperStep, Life!ThreadStep,
       Life!KernelStep
  <2>2. CASE q # p
    <3>1. UNCHANGED Life(p)!vars
      BY <1>8, <2>2 DEF ThreadStores, ReadyF, Life!vars
    <3> QED BY <3>1
  <2> QED BY <2>1, <2>2
<1>9. ASSUME NEW q \in Programs, WatcherTells(q) PROVE Goal
  <2>1. CASE q = p
    <3>1. Life(p)!WatcherTells
      BY <1>9, <2>1 DEF WatcherTells, ReadyF, Life!WatcherTells,
         Life!programVars, Life!reaperVars
    <3> QED BY <3>1 DEF Life!Next, Life!ReaperStep, Life!ThreadStep,
       Life!KernelStep
  <2>2. CASE q # p
    <3>1. UNCHANGED Life(p)!vars
      BY <1>9, <2>2 DEF WatcherTells, ReadyF, Life!vars
    <3> QED BY <3>1
  <2> QED BY <2>1, <2>2
<1>10. ASSUME NEW q \in Programs, Exits(q) PROVE Goal
  <2>1. CASE q = p
    <3>1. Life(p)!ProgramExits
      BY <1>10, <2>1 DEF Exits, Dies, ReadyF, Life!ProgramExits, Life!Dies,
         Life!programVars, Life!reaperVars
    <3> QED BY <3>1 DEF Life!Next, Life!ReaperStep, Life!ThreadStep,
       Life!KernelStep
  <2>2. CASE q # p
    <3>1. UNCHANGED Life(p)!vars
      BY <1>10, <2>2 DEF Exits, Dies, ReadyF, Life!vars
    <3> QED BY <3>1
  <2> QED BY <2>1, <2>2
<1>11. ASSUME NEW q \in Programs, IsKilled(q) PROVE Goal
  <2>1. CASE q = p
    <3>1. Life(p)!ProgramIsKilled
      BY <1>11, <2>1 DEF IsKilled, Dies, ReadyF, Life!ProgramIsKilled,
         Life!Dies, Life!programVars, Life!reaperVars
    <3> QED BY <3>1 DEF Life!Next, Life!ReaperStep, Life!ThreadStep,
       Life!KernelStep
  <2>2. CASE q # p
    <3>1. UNCHANGED Life(p)!vars
      BY <1>11, <2>2 DEF IsKilled, Dies, ReadyF, Life!vars
    <3> QED BY <3>1
  <2> QED BY <2>1, <2>2
<1>12. CASE ReapGetsThread
  <2>0. Head(line) \in Programs /\ reap[Head(line)] = "queued"
    BY <1>12, GettingThread
  <2>1. CASE Head(line) = p
    <3>1. Life(p)!ReapSpawnsThread
      BY <1>12, <2>0, <2>1 DEF ReapGetsThread, ReadyF, Life!ReapSpawnsThread,
         Life!programVars
    <3> QED BY <3>1 DEF Life!Next, Life!ReaperStep
  <2>2. CASE Head(line) # p
    <3>1. UNCHANGED Life(p)!vars
      BY <1>12, <2>0, <2>2 DEF ReapGetsThread, ReadyF, Life!vars
    <3> QED BY <3>1
  <2> QED BY <2>1, <2>2
<1>13. CASE CancelScope
  <2>1. Life(p)!CancelScope
    BY <1>13 DEF CancelScope, ReadyF, Life!CancelScope, Life!programVars,
       Life!reaperVars
  <2> QED BY <2>1 DEF Life!Next
<1>14. CASE UNCHANGED vars
  BY <1>14 DEF vars, Life!vars, ReadyF
<1> QED
  BY <1>1, <1>2, <1>3, <1>4, <1>5, <1>6, <1>7, <1>8, <1>9, <1>10, <1>11,
     <1>12, <1>13, <1>14
  DEF Next, ReaperStep, ThreadStep

\* _reap and _wait_for_child: what a program goes through is what Lifecycle
\* says, however many others there are and however few threads.
THEOREM EachLives == Spec => EachIsALifecycle
<1>1. Init => \A p \in Programs : Life(p)!Init
  BY InitMaps
<1>2. Inductive /\ [Next]_vars
        => \A p \in Programs : [Life(p)!Next]_(Life(p)!vars)
  BY StepMaps
<1> QED BY <1>1, <1>2, InductiveInvariant, PTL DEF Spec, EachIsALifecycle

-----------------------------------------------------------------------------
(* What the programs share: ends, threads and places in line.              *)

\* Whose end is whose, and who has a thread or a place in line.
EndsOK == \A p \in Programs : thread[p] = "stored" => code[p] # "None"

Shared == Inductive /\ EndsOK /\ EveryEndIsItsOwn /\ ThreadsAreAccountedFor

LEMMA SharedInit == Init => EndsOK /\ EveryEndIsItsOwn /\ ThreadsAreAccountedFor
<1> SUFFICES ASSUME Init PROVE EndsOK /\ EveryEndIsItsOwn /\ ThreadsAreAccountedFor
  OBVIOUS
<1>1. EndsOK /\ EveryEndIsItsOwn
  BY DEF Init, EndsOK, EveryEndIsItsOwn, ReadyF
<1>2. ThreadsAreAccountedFor
  BY DEF Init, ThreadsAreAccountedFor
<1> QED BY <1>1, <1>2

\* What one program does to its own end, and that the others keep theirs.
LEMMA EndsStep ==
  ASSUME Shared, [Next]_vars
  PROVE  EndsOK' /\ EveryEndIsItsOwn'
<1> USE DEF Shared, Inductive, TypeOK, TasksOK, ReapStates, ChildOK, EndsOK,
            EveryEndIsItsOwn, ReadyF
<1> DEFINE Goal == EndsOK' /\ EveryEndIsItsOwn'
<1>1. ASSUME NEW q \in Programs, Start(q) PROVE Goal
  BY <1>1 DEF Start
<1>2. ASSUME NEW q \in Programs, ReapFindsEnded(q) PROVE Goal
  BY <1>2 DEF ReapFindsEnded, NeedsThread
<1>3. ASSUME NEW q \in Programs, ReapQueues(q) PROVE Goal
  BY <1>3 DEF ReapQueues
<1>4. ASSUME NEW q \in Programs, ReapWakes(q) PROVE Goal
  BY <1>4 DEF ReapWakes
<1>5. ASSUME NEW q \in Programs, ReapReturns(q) PROVE Goal
  BY <1>5 DEF ReapReturns
<1>6. ASSUME NEW q \in Programs, ReapCancelled(q) PROVE Goal
  <2>1. /\ killed'[q] <=> killed[q] \/ (child[q] = "running" /\ SendKill(q))
        /\ \A p \in Programs : p # q => (killed'[p] <=> killed[p])
    <3>1. killed' = [killed EXCEPT ![q] = @ \/ (child[q] = "running" /\ SendKill(q))]
      BY <1>6 DEF ReapCancelled
    <3>2. killed \in [Programs -> BOOLEAN]
      OBVIOUS
    <3> QED BY ONLY <3>1, <3>2, Zenon
  <2>2. /\ scope = "cancelled" /\ reap' = [reap EXCEPT ![q] = "done"]
        /\ UNCHANGED <<child, died, thread, code, scope>>
    BY <1>6 DEF ReapCancelled
  <2> QED BY <2>1, <2>2 DEF SendKill
<1>7. ASSUME NEW q \in Programs, ThreadReaps(q) PROVE Goal
  BY <1>7 DEF ThreadReaps
<1>8. ASSUME NEW q \in Programs, ThreadStores(q) PROVE Goal
  BY <1>8 DEF ThreadStores
<1>9. ASSUME NEW q \in Programs, WatcherTells(q) PROVE Goal
  BY <1>9 DEF WatcherTells
<1>10. ASSUME NEW q \in Programs, Exits(q) PROVE Goal
  BY <1>10 DEF Exits, Dies
<1>11. ASSUME NEW q \in Programs, IsKilled(q) PROVE Goal
  BY <1>11 DEF IsKilled, Dies
<1>12. CASE ReapGetsThread
  <2>1. Head(line) \in Programs /\ reap[Head(line)] = "queued"
    BY <1>12, GettingThread
  <2> QED BY <1>12, <2>1 DEF ReapGetsThread
<1>13. CASE CancelScope
  BY <1>13 DEF CancelScope
<1>14. CASE UNCHANGED vars
  BY <1>14 DEF vars
<1> QED
  BY <1>1, <1>2, <1>3, <1>4, <1>5, <1>6, <1>7, <1>8, <1>9, <1>10, <1>11,
     <1>12, <1>13, <1>14
  DEF Next, ReaperStep, ThreadStep

\* In line is every reaper that waits for a thread.
QueuedOK ==
  \A p \in Programs : reap[p] = "queued" => \E i \in 1..Len(line) : line[i] = p

LentOK == lent = {p \in Programs : reap[p] \in {"waiting", "resumed"}}

LEMMA Accounts ==
  ASSUME TypeOK, LineOK
  PROVE  ThreadsAreAccountedFor <=> LentOK /\ QueuedOK
<1>1. line \in Seq(Programs) /\ DOMAIN line = 1..Len(line)
  BY DEF TypeOK, LimiterOK
<1>2. \A i \in 1..Len(line) : line[i] \in Programs /\ reap[line[i]] = "queued"
  BY <1>1 DEF LineOK
<1>3. \A i, j \in 1..Len(line) : line[i] = line[j] => i = j
  BY DEF LineOK
<1>4. {line[i] : i \in 1..Len(line)} = {p \in Programs : reap[p] = "queued"}
        <=> QueuedOK
  BY <1>2 DEF QueuedOK
<1> QED BY <1>1, <1>3, <1>4, Zenon DEF ThreadsAreAccountedFor, LentOK

\* A step of one that is not in line, and does not join it, and has a thread
\* afterwards exactly if it had one.
LEMMA KeepsAccounts ==
  ASSUME LentOK, QueuedOK, UNCHANGED <<line, lent>>, NEW q \in Programs,
         \A r \in Programs : r # q => reap'[r] = reap[r],
         reap'[q] # "queued",
         reap'[q] \in {"waiting", "resumed"} <=> reap[q] \in {"waiting", "resumed"}
  PROVE  LentOK' /\ QueuedOK'
BY DEF LentOK, QueuedOK

LEMMA AccountsStep ==
  ASSUME Inductive, [Next]_vars, LentOK, QueuedOK
  PROVE  LentOK' /\ QueuedOK'
<1> USE DEF Inductive, TypeOK, TasksOK, ReapStates
<1> DEFINE Goal == LentOK' /\ QueuedOK'
<1>1. ASSUME NEW q \in Programs, Start(q) PROVE Goal
  BY <1>1, KeepsAccounts DEF Start
<1>2. ASSUME NEW q \in Programs, ReapFindsEnded(q) PROVE Goal
  BY <1>2, KeepsAccounts DEF ReapFindsEnded
<1>3. ASSUME NEW q \in Programs, ReapQueues(q) PROVE Goal
  <2>1. /\ line' = Append(line, q) /\ reap' = [reap EXCEPT ![q] = "queued"]
        /\ reap[q] = "scheduled" /\ lent' = lent
    BY <1>3 DEF ReapQueues
  <2>2. line \in Seq(Programs) /\ Len(line) \in Nat
    BY DEF LimiterOK
  <2>3. /\ Len(line') = Len(line) + 1 /\ line'[Len(line) + 1] = q
        /\ \A i \in 1..Len(line) : line'[i] = line[i]
    BY <2>1, <2>2, AppendProperties
  <2>4. Len(line) + 1 \in 1..Len(line') /\ 1..Len(line) \subseteq 1..Len(line')
    BY <2>2, <2>3
  <2>5. QueuedOK'
    <3>1. ASSUME NEW r \in Programs, r # q, reap'[r] = "queued"
          PROVE  \E i \in 1..Len(line') : line'[i] = r
      BY <2>1, <2>3, <2>4, <3>1 DEF QueuedOK
    <3>2. \E i \in 1..Len(line') : line'[i] = q
      BY <2>3, <2>4
    <3> QED BY <3>1, <3>2 DEF QueuedOK
  <2>6. LentOK'
    BY <2>1 DEF LentOK
  <2> QED BY <2>5, <2>6
<1>4. ASSUME NEW q \in Programs, ReapWakes(q) PROVE Goal
  BY <1>4, KeepsAccounts DEF ReapWakes
<1>5. ASSUME NEW q \in Programs, ReapReturns(q) PROVE Goal
  <2>1. /\ reap[q] = "resumed" /\ reap' = [reap EXCEPT ![q] = "done"]
        /\ lent' = lent \ {q} /\ line' = line
    BY <1>5 DEF ReapReturns
  <2> QED BY <2>1 DEF LentOK, QueuedOK
<1>6. ASSUME NEW q \in Programs, ReapCancelled(q) PROVE Goal
  <2>1. /\ reap[q] \in {"queued", "waiting"} /\ reap' = [reap EXCEPT ![q] = "done"]
        /\ lent' = lent \ {q} /\ LeavesLine(q)
    BY <1>6 DEF ReapCancelled
  <2>2. LentOK'
    BY <2>1 DEF LentOK
  <2>3. CASE reap[q] = "queued"
    <3>1. \A i \in 1..Len(line) :
            line[i] # q => \E j \in 1..Len(line') : line'[j] = line[i]
      BY <2>1, <2>3, LeavingLine
    <3> QED BY <2>1, <2>2, <3>1 DEF QueuedOK
  <2>4. CASE reap[q] # "queued"
    <3>1. line' = line
      BY <2>1, <2>4 DEF LeavesLine
    <3> QED BY <2>1, <2>2, <3>1 DEF QueuedOK
  <2> QED BY <2>3, <2>4
<1>7. ASSUME NEW q \in Programs, ThreadReaps(q) PROVE Goal
  BY <1>7 DEF ThreadReaps, LentOK, QueuedOK
<1>8. ASSUME NEW q \in Programs, ThreadStores(q) PROVE Goal
  BY <1>8 DEF ThreadStores, LentOK, QueuedOK
<1>9. ASSUME NEW q \in Programs, WatcherTells(q) PROVE Goal
  BY <1>9 DEF WatcherTells, LentOK, QueuedOK
<1>10. ASSUME NEW q \in Programs, Exits(q) PROVE Goal
  BY <1>10 DEF Exits, Dies, LentOK, QueuedOK
<1>11. ASSUME NEW q \in Programs, IsKilled(q) PROVE Goal
  BY <1>11 DEF IsKilled, Dies, LentOK, QueuedOK
<1>12. CASE ReapGetsThread
  <2>1. /\ Head(line) \in Programs
        /\ \A i \in 1..Len(line) :
             line[i] # Head(line) => \E j \in 1..Len(line') : line'[j] = line[i]
    BY <1>12, GettingThread
  <2>2. /\ reap' = [reap EXCEPT ![Head(line)] = "waiting"]
        /\ lent' = lent \cup {Head(line)}
    BY <1>12 DEF ReapGetsThread
  <2>3. QueuedOK'
    <3>1. ASSUME NEW r \in Programs, reap'[r] = "queued"
          PROVE  reap[r] = "queued" /\ r # Head(line)
      BY <2>1, <2>2, <3>1
    <3> QED BY <2>1, <3>1 DEF QueuedOK
  <2>4. LentOK'
    BY <2>1, <2>2 DEF LentOK
  <2> QED BY <2>3, <2>4
<1>13. CASE CancelScope
  BY <1>13 DEF CancelScope, LentOK, QueuedOK
<1>14. CASE UNCHANGED vars
  BY <1>14 DEF vars, LentOK, QueuedOK
<1> QED
  BY <1>1, <1>2, <1>3, <1>4, <1>5, <1>6, <1>7, <1>8, <1>9, <1>10, <1>11,
     <1>12, <1>13, <1>14
  DEF Next, ReaperStep, ThreadStep

THEOREM SharedInvariant == Spec => []Shared
<1>1. Init => Shared
  BY InitInductive, SharedInit DEF Shared
<1>2. Shared /\ [Next]_vars => Shared'
  <2> SUFFICES ASSUME Shared, [Next]_vars PROVE Shared'
    OBVIOUS
  <2>1. Inductive'
    BY NextInductive DEF Shared
  <2>2. EndsOK' /\ EveryEndIsItsOwn'
    BY EndsStep
  <2>3. LentOK /\ QueuedOK
    BY Accounts DEF Shared, Inductive
  <2>4. LentOK' /\ QueuedOK'
    BY <2>3, AccountsStep DEF Shared
  <2>5. ThreadsAreAccountedFor'
    <3>1. TypeOK' /\ LineOK'
      BY <2>1 DEF Inductive
    <3>2. TypeOK' /\ LineOK' => (ThreadsAreAccountedFor' <=> LentOK' /\ QueuedOK')
      BY Accounts, PTL
    <3> QED BY <2>4, <3>1, <3>2
  <2> QED BY <2>1, <2>2, <2>5 DEF Shared
<1> QED BY <1>1, <1>2, PTL DEF Spec

\* `returncode` and _reap, program by program: each end is told as it was.
THEOREM EndsAreTheirOwn == Spec => []EveryEndIsItsOwn
BY SharedInvariant, PTL DEF Shared

\* _reap: no thread and no place in line is lost, and none is kept.
THEOREM NoThreadIsLost == Spec => []ThreadsAreAccountedFor
BY SharedInvariant, PTL DEF Shared
=============================================================================
