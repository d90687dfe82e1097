-------------------------- MODULE MseedArchiveProofs --------------------------
(***************************************************************************)
(* Theorems about MseedArchive, for every number of client threads, timer  *)
(* callbacks and records and every size of a batch.                        *)
(***************************************************************************)
EXTENDS MseedArchive, FiniteSetTheorems, FunctionTheorems, TLAPS

-----------------------------------------------------------------------------
(* The inductive invariant                                                 *)

\* A thread hands in a record and flushes by turns.
HandsOrFlushes == \A w \in Writers : handing[w] # NoRecord => Idle(w)

\* Every record over the size of a batch has sent its writer to flush, and none
\* of these writers has found the queue empty since.
Draining == {w \in Writers : phase[w] = "drain"}
DrainBounded == Len(pending) <= BatchSize - 1 + Cardinality(Draining)

\* The final flush has emptied the queue, as far as it was filled in time.
FinalFlushDone ==
  /\ closed => disposed /\ Idle(Closer)
  /\ disposed /\ phase[Closer] # "drain" => Elements(pending) \subseteq late
  /\ ~disposed => Idle(Closer)

QueueInv == TypeOK /\ HandsOrFlushes /\ DrainBounded /\ FinalFlushDone

\* Every record handed in is somewhere, and in one place.
Handed == {handing[w] : w \in Writers} \ {NoRecord}
Batched == UNION {Elements(batch[f]) : f \in Flushers}

Distinct(s) == \A i, j \in DOMAIN s : s[i] = s[j] => i = j

Numbered == \E n \in 0 .. MaxRecords : Seen \ {NoRecord} = 1 .. n

Apart ==
  /\ \A v, w \in Writers : handing[v] = handing[w] /\ handing[v] # NoRecord => v = w
  /\ Distinct(pending) /\ Distinct(db) /\ \A f \in Flushers : Distinct(batch[f])
  /\ \A f, g \in Flushers : Elements(batch[f]) \cap Elements(batch[g]) # {} => f = g
  /\ Handed \cap (Elements(pending) \cup Batched \cup Elements(db) \cup lost) = {}
  /\ Elements(pending) \cap (Batched \cup Elements(db) \cup lost) = {}
  /\ Batched \cap (Elements(db) \cup lost) = {}
  /\ Elements(db) \cap lost = {}

PlaceInv == Numbered /\ Apart

-----------------------------------------------------------------------------
(* Sequences of records                                                    *)

LEMMA Appended ==
  ASSUME NEW S, NEW s \in Seq(S), NEW e \in S
  PROVE  /\ Append(s, e) \in Seq(S) /\ Len(Append(s, e)) = Len(s) + 1 /\ Append(s, e) # <<>>
         /\ Elements(Append(s, e)) = Elements(s) \cup {e}
         /\ Distinct(s) /\ e \notin Elements(s) => Distinct(Append(s, e))
<1>1. /\ Append(s, e) \in Seq(S) /\ Len(Append(s, e)) = Len(s) + 1 /\ Append(s, e) # <<>>
      /\ DOMAIN s = 1 .. Len(s) /\ DOMAIN Append(s, e) = 1 .. Len(s) + 1 /\ Len(s) \in Nat
      /\ \A i \in 1 .. Len(s) : Append(s, e)[i] = s[i]
      /\ Append(s, e)[Len(s) + 1] = e
  OBVIOUS
<1>2. 1 .. Len(s) + 1 = 1 .. Len(s) \cup {Len(s) + 1}
  BY <1>1
<1>3. Elements(Append(s, e)) = Elements(s) \cup {e}
  BY ONLY <1>1, <1>2 DEF Elements
<1>4. ASSUME Distinct(s), e \notin Elements(s) PROVE Distinct(Append(s, e))
  BY <1>1, <1>2, <1>4 DEF Distinct, Elements
<1> QED
  BY <1>1, <1>3, <1>4

LEMMA Removed ==
  ASSUME NEW S, NEW s \in Seq(S), s # <<>>
  PROVE  /\ Head(s) \in S /\ Tail(s) \in Seq(S) /\ Len(Tail(s)) = Len(s) - 1 /\ Len(s) \in Nat \ {0}
         /\ Elements(s) = Elements(Tail(s)) \cup {Head(s)}
         /\ Distinct(s) => Distinct(Tail(s)) /\ Head(s) \notin Elements(Tail(s))
<1>1. /\ Head(s) \in S /\ Tail(s) \in Seq(S) /\ Len(Tail(s)) = Len(s) - 1
      /\ Len(s) \in Nat \ {0} /\ DOMAIN s = 1 .. Len(s) /\ DOMAIN Tail(s) = 1 .. Len(s) - 1
      /\ Head(s) = s[1]
      /\ \A i \in 1 .. Len(s) - 1 : Tail(s)[i] = s[i + 1]
  OBVIOUS
<1>2. ASSUME NEW i \in 1 .. Len(s), i # 1 PROVE i - 1 \in 1 .. Len(s) - 1 /\ Tail(s)[i - 1] = s[i]
  <2>1. i - 1 \in 1 .. Len(s) - 1 /\ (i - 1) + 1 = i
    BY <1>1, <1>2
  <2> QED
    BY <1>1, <2>1
<1>3. \A i \in 1 .. Len(s) - 1 : i + 1 \in 1 .. Len(s) /\ i + 1 # 1
  BY <1>1
<1>4. 1 \in 1 .. Len(s)
  BY <1>1
<1>5. Elements(s) = Elements(Tail(s)) \cup {Head(s)}
  <2>1. ASSUME NEW e \in Elements(s) PROVE e \in Elements(Tail(s)) \cup {Head(s)}
    <3>1. PICK i \in 1 .. Len(s) : e = s[i]
      BY <1>1, <2>1 DEF Elements
    <3>2. CASE i # 1
      BY <1>1, <1>2, <3>1, <3>2 DEF Elements
    <3> QED
      BY <1>1, <3>1, <3>2
  <2>2. ASSUME NEW e \in Elements(Tail(s)) PROVE e \in Elements(s)
    BY <1>1, <1>3, <2>2 DEF Elements
  <2> QED
    BY <1>1, <1>4, <2>1, <2>2 DEF Elements
<1>6. ASSUME Distinct(s) PROVE Distinct(Tail(s)) /\ Head(s) \notin Elements(Tail(s))
  <2>1. Distinct(Tail(s))
    BY <1>1, <1>3, <1>6 DEF Distinct
  <2>2. Head(s) \notin Elements(Tail(s))
    BY <1>1, <1>3, <1>4, <1>6 DEF Distinct, Elements
  <2> QED
    BY <2>1, <2>2
<1> QED
  BY <1>1, <1>5, <1>6

LEMMA Joined ==
  ASSUME NEW S, NEW s \in Seq(S), NEW t \in Seq(S)
  PROVE  /\ s \o t \in Seq(S) /\ Len(s \o t) = Len(s) + Len(t)
         /\ Elements(s \o t) = Elements(s) \cup Elements(t)
         /\ Distinct(s) /\ Distinct(t) /\ Elements(s) \cap Elements(t) = {} => Distinct(s \o t)
<1>1. /\ s \o t \in Seq(S) /\ Len(s \o t) = Len(s) + Len(t)
      /\ Len(s) \in Nat /\ Len(t) \in Nat
      /\ DOMAIN s = 1 .. Len(s) /\ DOMAIN t = 1 .. Len(t) /\ DOMAIN (s \o t) = 1 .. Len(s) + Len(t)
      /\ \A i \in 1 .. Len(s) : (s \o t)[i] = s[i]
      /\ \A i \in 1 .. Len(t) : (s \o t)[Len(s) + i] = t[i]
  OBVIOUS
<1>2. \A i \in 1 .. Len(s) + Len(t) :
        \/ i \in 1 .. Len(s) /\ (s \o t)[i] = s[i]
        \/ i - Len(s) \in 1 .. Len(t) /\ (s \o t)[i] = t[i - Len(s)]
  <2> TAKE i \in 1 .. Len(s) + Len(t)
  <2>1. CASE i > Len(s)
    <3>1. i - Len(s) \in 1 .. Len(t) /\ Len(s) + (i - Len(s)) = i
      BY <1>1, <2>1
    <3> QED
      BY <1>1, <3>1
  <2> QED
    BY <1>1, <2>1
<1>3. Elements(s \o t) = Elements(s) \cup Elements(t)
  <2>1. \A i \in 1 .. Len(s) : i \in 1 .. Len(s) + Len(t)
    BY <1>1
  <2>2. \A i \in 1 .. Len(t) : Len(s) + i \in 1 .. Len(s) + Len(t)
    BY <1>1
  <2>3. Elements(s) \subseteq Elements(s \o t)
    BY ONLY <1>1, <2>1 DEF Elements
  <2>4. Elements(t) \subseteq Elements(s \o t)
    BY ONLY <1>1, <2>2 DEF Elements
  <2>5. Elements(s \o t) \subseteq Elements(s) \cup Elements(t)
    BY ONLY <1>1, <1>2 DEF Elements
  <2> QED
    BY ONLY <2>3, <2>4, <2>5
<1>4. ASSUME Distinct(s), Distinct(t), Elements(s) \cap Elements(t) = {}
      PROVE  Distinct(s \o t)
  <2> SUFFICES ASSUME NEW i \in 1 .. Len(s) + Len(t), NEW j \in 1 .. Len(s) + Len(t),
                      (s \o t)[i] = (s \o t)[j]
               PROVE  i = j
    BY <1>1 DEF Distinct
  <2>1. \/ i \in 1 .. Len(s) /\ (s \o t)[i] = s[i]
        \/ i - Len(s) \in 1 .. Len(t) /\ (s \o t)[i] = t[i - Len(s)]
    BY <1>2
  <2>2. \/ j \in 1 .. Len(s) /\ (s \o t)[j] = s[j]
        \/ j - Len(s) \in 1 .. Len(t) /\ (s \o t)[j] = t[j - Len(s)]
    BY <1>2
  <2>3. \A k \in 1 .. Len(s), l \in 1 .. Len(t) : s[k] # t[l]
    BY <1>1, <1>4 DEF Elements
  <2>4. CASE i - Len(s) \in 1 .. Len(t) /\ j - Len(s) \in 1 .. Len(t)
             /\ t[i - Len(s)] = t[j - Len(s)]
    <3>1. i - Len(s) = j - Len(s)
      BY <1>1, <1>4, <2>4 DEF Distinct
    <3> QED
      BY <1>1, <3>1
  <2>5. CASE i \in 1 .. Len(s) /\ j \in 1 .. Len(s) /\ s[i] = s[j]
    BY <1>1, <1>4, <2>5 DEF Distinct
  <2> QED
    BY <2>1, <2>2, <2>3, <2>4, <2>5
<1> QED
  BY <1>1, <1>3, <1>4

-----------------------------------------------------------------------------
(* The queue                                                               *)

LEMMA QueueInit == Init => QueueInv
<1> SUFFICES ASSUME Init PROVE QueueInv
  OBVIOUS
<1> USE ArchiveAssumption DEF Init, ArchiveAssumption, Idle
<1>1. TypeOK
  <2>1. handing \in [Writers -> Records \cup {NoRecord}]
    OBVIOUS
  <2>2. pending \in Seq(Records) /\ db \in Seq(Records)
    OBVIOUS
  <2>3. /\ batch \in [Flushers -> Seq(Records)] /\ phase \in [Flushers -> {"idle", "drain", "copy"}]
        /\ \A f \in Flushers : phase[f] = "idle" /\ batch[f] = <<>>
    OBVIOUS
  <2>4. \A f \in Flushers : (phase[f] = "copy") = (batch[f] # <<>>)
    BY <2>3
  <2>5. lost \subseteq Records /\ late \subseteq Records /\ disposed \in BOOLEAN /\ closed \in BOOLEAN
    OBVIOUS
  <2> QED
    BY <2>1, <2>2, <2>3, <2>4, <2>5 DEF TypeOK
<1>2. HandsOrFlushes /\ FinalFlushDone
  BY DEF HandsOrFlushes, FinalFlushDone, Flushers
<1>3. Draining = {} /\ Len(pending) = 0
  BY DEF Draining, Flushers
<1>4. DrainBounded
  BY <1>3, FS_EmptySet DEF DrainBounded
<1> QED
  BY <1>1, <1>2, <1>4 DEF QueueInv

LEMMA TypeStep ==
  ASSUME TypeOK, HandsOrFlushes, Next
  PROVE  TypeOK'
<1> USE DEF TypeOK, Idle, queueVars
<1>1. ASSUME NEW w \in Writers, NEW rec \in Records, Enqueue(w, rec) PROVE TypeOK'
  <2>1. lost' \subseteq Records /\ handing' \in [Writers -> Records \cup {NoRecord}]
    BY <1>1 DEF Enqueue
  <2> QED
    BY <1>1, <2>1 DEF Enqueue
<1>2. ASSUME NEW w \in Writers, PutInQueue(w) PROVE TypeOK'
  <2>1. handing[w] \in Records /\ w \in Flushers
    BY <1>2 DEF PutInQueue, Flushers
  <2>2. pending' \in Seq(Records) /\ late' \subseteq Records
    BY <1>2, <2>1, Appended DEF PutInQueue
  <2>3. handing' \in [Writers -> Records \cup {NoRecord}]
    BY <1>2 DEF PutInQueue
  <2>4. phase' \in [Flushers -> {"idle", "drain", "copy"}]
    BY <1>2 DEF PutInQueue
  <2>5. phase[w] = "idle" /\ batch[w] = <<>>
    BY <1>2, <2>1 DEF PutInQueue, HandsOrFlushes
  <2>6. ASSUME NEW f \in Flushers, phase'[f] # "drain"
        PROVE  (phase'[f] = "copy") = (batch'[f] # <<>>)
    BY <1>2, <2>5, <2>6 DEF PutInQueue
  <2> QED
    BY <1>2, <2>1, <2>2, <2>3, <2>4, <2>6 DEF PutInQueue
<1>3. ASSUME NEW t \in Timers, TimerFires(t) PROVE TypeOK'
  <2>1. phase' = [phase EXCEPT ![t] = "drain"] /\ UNCHANGED <<queueVars, batch, db, disposed, closed, lost>>
    BY <1>3 DEF TimerFires
  <2> QED
    BY <2>1
<1>4. ASSUME NEW f \in Flushers, Flush(f) PROVE TypeOK'
  <2>1. CASE TryDequeue(f)
    <3>1. /\ Head(pending) \in Records /\ pending' \in Seq(Records)
          /\ Append(batch[f], Head(pending)) \in Seq(Records)
      BY <2>1, Removed, Appended DEF TryDequeue, Dequeued
    <3>2. batch' \in [Flushers -> Seq(Records)]
      BY <2>1, <3>1 DEF TryDequeue
    <3> QED
      BY <2>1, <3>1, <3>2 DEF TryDequeue
  <2>2. CASE Drained(f)
    <3>1. AfterDrain(f) \in {"idle", "copy"} /\ (AfterDrain(f) = "copy") = (batch[f] # <<>>)
      BY DEF AfterDrain
    <3>2. phase' \in [Flushers -> {"idle", "drain", "copy"}]
      BY <2>2, <3>1 DEF Drained
    <3>3. ASSUME NEW g \in Flushers, phase'[g] # "drain" PROVE (phase'[g] = "copy") = (batch'[g] # <<>>)
      BY <2>2, <3>1, <3>3 DEF Drained
    <3> QED
      BY <2>2, <3>2, <3>3 DEF Drained
  <2>3. CASE Copy(f) \/ CopyFails(f)
    <3>1. /\ phase' = [phase EXCEPT ![f] = "idle"] /\ batch' = [batch EXCEPT ![f] = <<>>]
          /\ UNCHANGED <<handing, pending, late, disposed, closed>>
      BY <2>3 DEF Copy, CopyFails, EndFlush
    <3>2. batch' \in [Flushers -> Seq(Records)]
      BY <3>1
    <3>3. db' \in Seq(Records) /\ lost' \subseteq Records
      <4>1. Elements(batch[f]) \subseteq Records
        <5>1. batch[f] \in Seq(Records)
          OBVIOUS
        <5> QED
          BY <5>1 DEF Elements
      <4>2. db \o batch[f] \in Seq(Records)
        BY Joined
      <4>3. db' = db \/ db' = db \o batch[f]
        BY <2>3 DEF Copy, CopyFails
      <4>4. lost' = lost \/ lost' = lost \cup Elements(batch[f])
        BY <2>3 DEF Copy, CopyFails
      <4> QED
        BY <4>1, <4>2, <4>3, <4>4
    <3> QED
      BY <3>1, <3>2, <3>3
  <2> QED
    BY <1>4, <2>1, <2>2, <2>3 DEF Flush
<1>5. CASE BeginDispose \/ CloseSource
  BY <1>5 DEF BeginDispose, FinalFlush, CloseSource, Flushers
<1> QED
  BY <1>1, <1>2, <1>3, <1>4, <1>5 DEF Next, HandIn

LEMMA DrainStep ==
  ASSUME QueueInv, Next
  PROVE  HandsOrFlushes' /\ DrainBounded'
<1> USE ArchiveAssumption DEF QueueInv, TypeOK, ArchiveAssumption, Idle, queueVars
<1>0. IsFiniteSet(Draining) /\ Cardinality(Draining) \in Nat /\ Len(pending) \in Nat
  BY FS_Subset, FS_CardinalityType DEF Draining
<1>1. ASSUME UNCHANGED <<handing, pending>>, \A w \in Writers : phase'[w] = phase[w]
      PROVE  HandsOrFlushes' /\ DrainBounded'
  <2>1. Draining' = Draining
    BY <1>1 DEF Draining
  <2> QED
    BY <1>1, <2>1 DEF HandsOrFlushes, DrainBounded
<1>2. ASSUME NEW w \in Writers, NEW rec \in Records, Enqueue(w, rec)
      PROVE  HandsOrFlushes' /\ DrainBounded'
  <2>1. Draining' = Draining /\ UNCHANGED <<pending, phase>>
    BY <1>2 DEF Enqueue, Draining
  <2> QED
    BY <1>2, <2>1 DEF Enqueue, HandsOrFlushes, DrainBounded
<1>3. ASSUME NEW w \in Writers, PutInQueue(w)
      PROVE  HandsOrFlushes' /\ DrainBounded'
  <2>1. /\ handing[w] \in Records /\ w \in Flushers /\ phase[w] = "idle"
        /\ pending' = Append(pending, handing[w])
        /\ handing' = [handing EXCEPT ![w] = NoRecord]
        /\ phase' = [phase EXCEPT ![w] = IF FullBatch(pending') THEN "drain" ELSE "idle"]
    BY <1>3 DEF PutInQueue, Flushers, HandsOrFlushes
  <2>2. HandsOrFlushes'
    BY <2>1 DEF HandsOrFlushes, Flushers
  <2>3. Len(pending') = Len(pending) + 1
    BY <2>1
  <2>4. CASE FullBatch(pending')
    <3>1. Draining' = Draining \cup {w} /\ w \notin Draining
      BY <2>1, <2>4 DEF Draining, Flushers
    <3>2. Cardinality(Draining') = Cardinality(Draining) + 1
      BY <1>0, <3>1, FS_AddElement
    <3> QED
      BY <1>0, <2>2, <2>3, <3>2 DEF DrainBounded
  <2>5. CASE ~FullBatch(pending')
    <3>1. Draining' = Draining /\ Len(pending') < BatchSize
      BY <1>0, <2>1, <2>3, <2>5 DEF Draining, Flushers, FullBatch
    <3> QED
      BY <1>0, <2>2, <2>3, <3>1 DEF DrainBounded
  <2> QED
    BY <2>4, <2>5
<1>4. ASSUME NEW t \in Timers, TimerFires(t)
      PROVE  HandsOrFlushes' /\ DrainBounded'
  BY <1>1, <1>4 DEF TimerFires, Flushers
<1>5. ASSUME NEW f \in Flushers, Flush(f)
      PROVE  HandsOrFlushes' /\ DrainBounded'
  <2>1. CASE TryDequeue(f)
    <3>1. Draining' = Draining /\ Len(pending') = Len(pending) - 1 /\ UNCHANGED <<handing, phase>>
      BY <2>1, Removed DEF TryDequeue, Dequeued, Draining
    <3> QED
      BY <1>0, <3>1 DEF HandsOrFlushes, DrainBounded
  <2>2. CASE Drained(f)
    <3>1. HandsOrFlushes' /\ UNCHANGED pending /\ Len(pending) = 0
      BY <2>2 DEF Drained, HandsOrFlushes, Flushers
    <3>2. Cardinality(Draining') \in Nat
      <4>1. Draining' \in SUBSET Writers
        BY DEF Draining
      <4> QED
        BY <4>1, FS_Subset, FS_CardinalityType
    <3> QED
      BY <3>1, <3>2 DEF DrainBounded
  <2>3. CASE Copy(f) \/ CopyFails(f)
    <3>1. /\ phase' = [phase EXCEPT ![f] = "idle"] /\ phase[f] = "copy"
          /\ UNCHANGED <<handing, pending>>
      BY <2>3 DEF Copy, CopyFails, EndFlush
    <3>2. Draining' = Draining
      BY <3>1 DEF Draining, Flushers
    <3> QED
      BY <3>1, <3>2 DEF HandsOrFlushes, DrainBounded, Flushers
  <2> QED
    BY <1>5, <2>1, <2>2, <2>3 DEF Flush
<1>6. CASE BeginDispose \/ CloseSource
  BY <1>1, <1>6 DEF BeginDispose, CloseSource, Flushers
<1> QED
  BY <1>2, <1>3, <1>4, <1>5, <1>6 DEF Next, HandIn

LEMMA FinalFlushStep ==
  ASSUME QueueInv, Next
  PROVE  FinalFlushDone'
<1> USE ArchiveAssumption DEF QueueInv, TypeOK, FinalFlushDone, ArchiveAssumption, Idle, queueVars
<1>1. ASSUME NEW w \in Writers, PutInQueue(w)
      PROVE  FinalFlushDone'
  <2>1. /\ handing[w] \in Records /\ w # Closer /\ UNCHANGED <<disposed, closed>>
        /\ phase'[Closer] = phase[Closer]
        /\ disposed => late' = late \cup {handing[w]}
        /\ pending' = Append(pending, handing[w])
    BY <1>1 DEF PutInQueue, Flushers
  <2>2. Elements(pending') = Elements(pending) \cup {handing[w]}
    BY <2>1, Appended
  <2> QED
    BY <2>1, <2>2
<1>2. ASSUME NEW f \in Flushers, Flush(f)
      PROVE  FinalFlushDone'
  <2>1. CASE TryDequeue(f)
    <3>1. Elements(pending') \subseteq Elements(pending)
      BY <2>1, Removed DEF TryDequeue, Dequeued
    <3> QED
      BY <2>1, <3>1 DEF TryDequeue
  <2>2. CASE Drained(f)
    <3>1. Elements(pending') = {}
      BY <2>2 DEF Drained, Elements
    <3> QED
      BY <2>2, <3>1 DEF Drained
  <2>3. CASE Copy(f) \/ CopyFails(f)
    <3>1. /\ phase[f] = "copy" /\ phase' = [phase EXCEPT ![f] = "idle"] /\ Closer \in Flushers
          /\ UNCHANGED <<pending, late, disposed, closed>>
      BY <2>3 DEF Copy, CopyFails, EndFlush, Flushers
    <3> QED
      BY <3>1
  <2> QED
    BY <1>2, <2>1, <2>2, <2>3 DEF Flush
<1>3. ASSUME NEW t \in Timers, TimerFires(t)
      PROVE  FinalFlushDone'
  BY <1>3 DEF TimerFires
<1>4. CASE HandIn
  BY <1>4 DEF HandIn, Enqueue
<1>5. CASE BeginDispose
  <2>1. phase'[Closer] = "drain" /\ disposed' /\ ~closed'
    BY <1>5 DEF BeginDispose, FinalFlush, Flushers
  <2> QED
    BY <2>1
<1>6. CASE CloseSource
  BY <1>6 DEF CloseSource
<1> QED
  BY <1>1, <1>2, <1>3, <1>4, <1>5, <1>6 DEF Next

LEMMA QueueStep == QueueInv /\ [Next]_vars => QueueInv'
<1> SUFFICES ASSUME QueueInv, [Next]_vars PROVE QueueInv'
  OBVIOUS
<1>1. CASE Next
  BY <1>1, TypeStep, DrainStep, FinalFlushStep DEF QueueInv
<1>2. CASE UNCHANGED vars
  BY <1>2 DEF vars, queueVars, QueueInv, TypeOK, HandsOrFlushes, DrainBounded, Draining,
     FinalFlushDone, Idle
<1> QED
  BY <1>1, <1>2

LEMMA QueueSafe == Spec => []QueueInv
BY QueueInit, QueueStep, PTL DEF Spec

\* Queue, batches and table only hold records, and a thread leaves the drain with
\* a batch only to write it.
THEOREM TypeCorrect == Spec => []TypeOK
<1>1. QueueInv => TypeOK
  BY DEF QueueInv
<1> QED
  BY <1>1, QueueSafe, PTL

\* The queue is never longer than a batch and one record of every other client,
\* however long the flushes take.
THEOREM QueueStaysBounded == Spec => []QueueBounded
<1>1. QueueInv => QueueBounded
  <2> SUFFICES ASSUME QueueInv PROVE Len(pending) <= BatchSize - 1 + Cardinality(Writers)
    BY DEF QueueBounded
  <2>1. Cardinality(Draining) <= Cardinality(Writers) /\ Cardinality(Draining) \in Nat
        /\ Cardinality(Writers) \in Nat
    BY ArchiveAssumption, FS_Subset, FS_CardinalityType DEF ArchiveAssumption, Draining
  <2>2. Len(pending) \in Nat /\ Len(pending) <= BatchSize - 1 + Cardinality(Draining)
    BY DEF QueueInv, TypeOK, DrainBounded
  <2> QED
    BY <2>1, <2>2, ArchiveAssumption DEF ArchiveAssumption
<1> QED
  BY <1>1, QueueSafe, PTL

\* When the archive is closed, only records that came to the queue after Dispose had
\* begun are left in it.
THEOREM NothingIsLeftBehind == Spec => []NothingLeftBehind
<1>1. QueueInv => NothingLeftBehind
  BY DEF QueueInv, FinalFlushDone, NothingLeftBehind, Idle
<1> QED
  BY <1>1, QueueSafe, PTL

-----------------------------------------------------------------------------
(* A record is in one place                                                *)

LEMMA OfRecords ==
  ASSUME NEW s \in Seq(Records)
  PROVE  NoRecord \notin Elements(s)
BY ArchiveAssumption DEF Elements, ArchiveAssumption

Placed == Elements(pending) \cup Elements(db) \cup lost \cup Batched \cup Handed

LEMMA SeenIs ==
  /\ TypeOK => Seen \ {NoRecord} = Placed
  /\ TypeOK' => Seen' \ {NoRecord} = Placed'
<1>1. ASSUME TypeOK PROVE Seen \ {NoRecord} = Placed
  <2>1. NoRecord \notin Elements(pending) /\ NoRecord \notin Elements(db) /\ NoRecord \notin lost
    BY <1>1, OfRecords, ArchiveAssumption DEF TypeOK, ArchiveAssumption
  <2>2. NoRecord \notin Batched
    BY <1>1, OfRecords DEF TypeOK, Batched
  <2>3. Seen = Elements(pending) \cup Elements(db) \cup lost \cup Batched \cup {handing[w] : w \in Writers}
    BY DEF Seen, Batched
  <2> QED
    BY <2>1, <2>2, <2>3 DEF Placed, Handed
<1>2. ASSUME TypeOK' PROVE Seen' \ {NoRecord} = Placed'
  <2>1. NoRecord \notin Elements(pending') /\ NoRecord \notin Elements(db') /\ NoRecord \notin lost'
    BY <1>2, OfRecords, ArchiveAssumption DEF TypeOK, ArchiveAssumption
  <2>2. NoRecord \notin Batched'
    BY <1>2, OfRecords DEF TypeOK, Batched
  <2>3. Seen' = Elements(pending') \cup Elements(db') \cup lost' \cup Batched' \cup {handing'[w] : w \in Writers}
    BY DEF Seen, Batched
  <2> QED
    BY <2>1, <2>2, <2>3 DEF Placed, Handed
<1> QED
  BY <1>1, <1>2

LEMMA SameHanded == UNCHANGED handing => Handed' = Handed
BY DEF Handed

LEMMA SameBatched == UNCHANGED batch => Batched' = Batched
BY DEF Batched

\* The next record is a new one.
LEMMA NextIsNew ==
  ASSUME TypeOK, PlaceInv, NEW rec \in Records, rec = Cardinality(Seen \ {NoRecord}) + 1
  PROVE  /\ rec \notin Seen /\ \E n \in 0 .. MaxRecords : (Seen \ {NoRecord}) \cup {rec} = 1 .. n
<1>1. PICK n \in 0 .. MaxRecords : Seen \ {NoRecord} = 1 .. n
  BY DEF PlaceInv, Numbered
<1>2. Cardinality(Seen \ {NoRecord}) = n
  <2>1. n \in Nat
    BY ArchiveAssumption DEF ArchiveAssumption
  <2>2. Cardinality(1 .. n) = n
    BY <2>1, FS_Interval
  <2> QED
    BY <1>1, <2>2, Zenon
<1>3. rec = n + 1 /\ n + 1 \in 0 .. MaxRecords /\ rec # NoRecord
  BY <1>2, ArchiveAssumption DEF Records, ArchiveAssumption
<1>4. 1 .. n \cup {n + 1} = 1 .. n + 1 /\ n + 1 \notin 1 .. n
  OBVIOUS
<1> QED
  BY <1>1, <1>3, <1>4

LEMMA PlaceHandIn ==
  ASSUME TypeOK, PlaceInv, NEW w \in Writers, NEW rec \in Records,
         rec = Cardinality(Seen \ {NoRecord}) + 1, Enqueue(w, rec), TypeOK'
  PROVE  PlaceInv' /\ Seen' \ {NoRecord} = (Seen \ {NoRecord}) \cup {rec}
<1>1. rec \notin Seen /\ \E n \in 0 .. MaxRecords : (Seen \ {NoRecord}) \cup {rec} = 1 .. n
  BY NextIsNew
<1>2. rec # NoRecord /\ rec \notin Elements(pending) \cup Elements(db) \cup lost \cup Batched \cup Handed
  BY <1>1, SeenIs, ArchiveAssumption DEF ArchiveAssumption, Placed
<1>3. UNCHANGED <<pending, batch, db>> /\ Batched' = Batched
  BY SameBatched DEF Enqueue
<1>4. CASE disposed
  <2>1. lost' = lost \cup {rec} /\ UNCHANGED handing /\ Handed' = Handed
    BY <1>4, SameHanded DEF Enqueue
  <2>2. Seen' \ {NoRecord} = (Seen \ {NoRecord}) \cup {rec}
    BY <1>3, <2>1, SeenIs DEF Placed
  <2>3. Numbered'
    BY <1>1, <2>2 DEF Numbered
  <2>4. Apart'
    BY <1>2, <1>3, <2>1 DEF PlaceInv, Apart
  <2> QED
    BY <2>2, <2>3, <2>4 DEF PlaceInv
<1>5. CASE ~disposed
  <2>1. lost' = lost /\ handing' = [handing EXCEPT ![w] = rec] /\ handing[w] = NoRecord
    BY <1>5 DEF Enqueue
  <2>2. \A v \in Writers : handing'[v] = IF v = w THEN rec ELSE handing[v]
    BY <2>1 DEF TypeOK
  <2>3. Handed' = Handed \cup {rec}
    BY <1>2, <2>1, <2>2 DEF Handed
  <2>4. Seen' \ {NoRecord} = (Seen \ {NoRecord}) \cup {rec}
    BY <1>3, <2>1, <2>3, SeenIs DEF Placed
  <2>5. Numbered'
    BY <1>1, <2>4 DEF Numbered
  <2>6. \A v, u \in Writers : handing'[v] = handing'[u] /\ handing'[v] # NoRecord => v = u
    BY <1>2, <2>2 DEF PlaceInv, Apart, Handed
  <2>7. Apart'
    <3>1. (Elements(pending) \cup Batched \cup Elements(db) \cup lost) \cap (Handed \cup {rec}) = {}
      BY <1>2 DEF PlaceInv, Apart
    <3>2. /\ UNCHANGED <<pending, batch, db, lost>> /\ Batched' = Batched
          /\ Handed' = Handed \cup {rec}
      BY <1>3, <2>1, <2>3
    <3> QED
      BY ONLY <2>6, <3>1, <3>2, PlaceInv DEF PlaceInv, Apart, Elements, Distinct
  <2> QED
    BY <2>4, <2>5, <2>7 DEF PlaceInv
<1> QED
  BY <1>4, <1>5

\* The rest of the steps only move records.
SeenSame == Seen' \ {NoRecord} = Seen \ {NoRecord}

LEMMA SeenKept ==
  ASSUME TypeOK, TypeOK', Numbered, Placed' = Placed
  PROVE  Numbered' /\ SeenSame
<1>1. Seen' \ {NoRecord} = Seen \ {NoRecord}
  BY SeenIs
<1> QED
  BY <1>1 DEF Numbered, SeenSame

LEMMA PlacePut ==
  ASSUME TypeOK, PlaceInv, NEW w \in Writers, PutInQueue(w), TypeOK'
  PROVE  PlaceInv' /\ SeenSame
<1> DEFINE rec == handing[w]
<1>1. /\ rec \in Records /\ rec # NoRecord /\ rec \in Handed
      /\ handing' = [handing EXCEPT ![w] = NoRecord] /\ pending' = Append(pending, rec)
      /\ UNCHANGED <<batch, db, lost>> /\ Batched' = Batched
  BY SameBatched DEF PutInQueue, TypeOK, Handed
<1>2. \A v \in Writers : handing'[v] = IF v = w THEN NoRecord ELSE handing[v]
  BY <1>1 DEF TypeOK
<1>3. Handed' = Handed \ {rec}
  BY <1>1, <1>2 DEF Handed, PlaceInv, Apart
<1>4. rec \notin Elements(pending) /\ Distinct(pending)
  BY <1>1 DEF PlaceInv, Apart
<1>5. Elements(pending)' = Elements(pending) \cup {rec} /\ Distinct(pending)'
  <2>1. pending \in Seq(Records)
    BY DEF TypeOK
  <2> QED
    BY <1>1, <1>4, <2>1, Appended DEF Elements, Distinct
<1> HIDE DEF rec
<1>6. \A v, u \in Writers : handing'[v] = handing'[u] /\ handing'[v] # NoRecord => v = u
  BY <1>2 DEF PlaceInv, Apart
<1>7. Apart'
  BY <1>1, <1>3, <1>5, <1>6 DEF PlaceInv, Apart
<1>8. Numbered' /\ SeenSame
  BY <1>1, <1>3, <1>5, SeenKept DEF PlaceInv, Placed
<1> QED
  BY <1>7, <1>8 DEF PlaceInv

LEMMA PlaceDequeue ==
  ASSUME TypeOK, PlaceInv, NEW f \in Flushers, TryDequeue(f), TypeOK'
  PROVE  PlaceInv' /\ SeenSame
<1> DEFINE rec == Head(pending)
<1>1. /\ pending # <<>> /\ pending' = Tail(pending) /\ batch' = [batch EXCEPT ![f] = Append(@, rec)]
      /\ UNCHANGED <<handing, db, lost>> /\ Handed' = Handed /\ pending \in Seq(Records)
      /\ batch[f] \in Seq(Records)
  BY SameHanded DEF TryDequeue, Dequeued, TypeOK
<1>2. /\ rec \in Records /\ Elements(pending) = Elements(pending') \cup {rec}
      /\ rec \notin Elements(pending') /\ Distinct(pending')
  BY <1>1, Removed DEF PlaceInv, Apart
<1> HIDE DEF rec
<1>3. \A g \in Flushers : batch'[g] = IF g = f THEN Append(batch[f], rec) ELSE batch[g]
  BY <1>1 DEF TypeOK
<1>4. rec \in Elements(pending) /\ rec \notin Batched
  BY <1>2 DEF PlaceInv, Apart
<1>5. rec \notin Elements(batch[f]) /\ Distinct(batch[f])
  BY <1>4 DEF Batched, PlaceInv, Apart
<1>6. Elements(batch'[f]) = Elements(batch[f]) \cup {rec} /\ Distinct(batch'[f])
  BY <1>1, <1>2, <1>3, <1>5, Appended
<1>7. Batched' = Batched \cup {rec}
  <2>1. \A g \in Flushers : Elements(batch'[g]) = IF g = f THEN Elements(batch[f]) \cup {rec} ELSE Elements(batch[g])
    BY <1>3, <1>6
  <2> QED
    BY <2>1 DEF Batched
<1>8. \A g, h \in Flushers : Elements(batch'[g]) \cap Elements(batch'[h]) # {} => g = h
  <2> SUFFICES ASSUME NEW g \in Flushers, NEW h \in Flushers, NEW e \in Elements(batch'[g]),
                      e \in Elements(batch'[h]), g # h
               PROVE  FALSE
    OBVIOUS
  <2>1. e = rec \/ (e \in Elements(batch[g]) /\ e \in Elements(batch[h]))
    BY <1>3, <1>6
  <2>2. CASE e = rec
    <3>1. \A k \in Flushers \ {f} : rec \notin Elements(batch'[k])
      BY <1>3, <1>4 DEF Batched
    <3> QED
      BY <2>2, <3>1
  <2> QED
    BY <2>1, <2>2 DEF PlaceInv, Apart
<1>9. \A g \in Flushers : Distinct(batch'[g])
  BY <1>3, <1>6 DEF PlaceInv, Apart
<1>10. Apart'
  BY <1>1, <1>2, <1>7, <1>8, <1>9 DEF PlaceInv, Apart
<1>11. Numbered' /\ SeenSame
  BY <1>1, <1>2, <1>7, SeenKept DEF PlaceInv, Placed
<1> QED
  BY <1>10, <1>11 DEF PlaceInv

\* A batch goes to the table or is lost.
LEMMA PlaceCopy ==
  ASSUME TypeOK, PlaceInv, NEW f \in Flushers, Copy(f) \/ CopyFails(f), TypeOK'
  PROVE  PlaceInv' /\ SeenSame
<1> DEFINE B == Elements(batch[f])
<1>1. /\ UNCHANGED <<handing, pending>> /\ Handed' = Handed /\ db \in Seq(Records)
      /\ batch[f] \in Seq(Records) /\ batch' = [batch EXCEPT ![f] = <<>>]
  BY SameHanded DEF Copy, CopyFails, EndFlush, queueVars, TypeOK
<1>2. \A g \in Flushers : batch'[g] = IF g = f THEN <<>> ELSE batch[g]
  BY <1>1 DEF TypeOK
<1>3. Elements(<<>>) = {} /\ Distinct(<<>>)
  BY DEF Elements, Distinct
<1>4. \A g \in Flushers : Elements(batch'[g]) = IF g = f THEN {} ELSE Elements(batch[g])
  BY <1>2, <1>3
<1>5. Batched' = Batched \ B /\ B \subseteq Batched
  BY <1>4 DEF Batched, PlaceInv, Apart
<1>6. \/ Elements(db') = Elements(db) \cup B /\ Distinct(db') /\ lost' = lost
      \/ db' = db /\ lost' = lost \cup B
  <2>1. CASE Copy(f)
    <3>1. Distinct(db) /\ Distinct(batch[f]) /\ Elements(db) \cap B = {}
      BY <1>5 DEF PlaceInv, Apart
    <3>2. Elements(db \o batch[f]) = Elements(db) \cup B /\ Distinct(db \o batch[f])
      BY <1>1, <3>1, Joined
    <3> QED
      BY <2>1, <3>2 DEF Copy
  <2>2. CASE CopyFails(f)
    BY <2>2 DEF CopyFails
  <2> QED
    BY <2>1, <2>2
<1> HIDE DEF B
<1>7. \A g \in Flushers : Distinct(batch'[g])
  BY <1>2, <1>3 DEF PlaceInv, Apart
<1>8. \A g, h \in Flushers : Elements(batch'[g]) \cap Elements(batch'[h]) # {} => g = h
  BY <1>4 DEF PlaceInv, Apart
<1>9. Apart'
  BY <1>1, <1>5, <1>6, <1>7, <1>8 DEF PlaceInv, Apart
<1>10. Numbered' /\ SeenSame
  BY <1>1, <1>5, <1>6, SeenKept DEF PlaceInv, Placed
<1> QED
  BY <1>9, <1>10 DEF PlaceInv

LEMMA PlaceInit == Init => PlaceInv
<1> SUFFICES ASSUME Init PROVE PlaceInv
  OBVIOUS
<1>1. /\ \A w \in Writers : handing[w] = NoRecord
      /\ \A f \in Flushers : batch[f] = <<>>
      /\ pending = <<>> /\ db = <<>> /\ lost = {}
  BY DEF Init
<1>2. Elements(<<>>) = {} /\ Distinct(<<>>)
  BY DEF Elements, Distinct
<1>3. Handed = {} /\ Batched = {}
  BY <1>1, <1>2 DEF Handed, Batched
<1>4. Apart
  BY <1>1, <1>2, <1>3 DEF Apart
<1>5. Seen \ {NoRecord} = {}
  BY <1>1, <1>2, <1>3, QueueInit, SeenIs DEF QueueInv, Placed
<1>6. 1 .. 0 = {} /\ 0 \in 0 .. MaxRecords
  BY ArchiveAssumption DEF ArchiveAssumption
<1>7. Numbered
  BY <1>5, <1>6 DEF Numbered
<1> QED
  BY <1>4, <1>7 DEF PlaceInv

\* No other step than that of a client that hands in a record adds one.
LEMMA PlaceMoves ==
  ASSUME QueueInv, PlaceInv, [Next]_vars, TypeOK', ~HandIn
  PROVE  PlaceInv' /\ SeenSame
<1>0. TypeOK
  BY DEF QueueInv
<1>1. CASE UNCHANGED <<handing, pending, batch, db, lost>>
  <2>1. Placed' = Placed /\ Handed' = Handed /\ Batched' = Batched
    BY <1>1 DEF Placed, Handed, Batched
  <2>2. Numbered' /\ SeenSame
    BY <1>0, <2>1, SeenKept DEF PlaceInv
  <2>3. Apart'
    BY <1>1, <2>1 DEF PlaceInv, Apart
  <2> QED
    BY <2>2, <2>3 DEF PlaceInv
<1>2. ASSUME NEW f \in Flushers, Flush(f) PROVE PlaceInv' /\ SeenSame
  BY <1>0, <1>1, <1>2, PlaceDequeue, PlaceCopy DEF Flush, Drained, queueVars
<1>3. CASE UNCHANGED vars \/ BeginDispose \/ CloseSource \/ \E t \in Timers : TimerFires(t)
  BY <1>1, <1>3 DEF vars, BeginDispose, CloseSource, TimerFires, queueVars
<1> QED
  BY <1>0, <1>2, <1>3, PlacePut DEF Next

LEMMA PlaceStep == QueueInv /\ PlaceInv /\ [Next]_vars => PlaceInv'
<1> SUFFICES ASSUME QueueInv, PlaceInv, [Next]_vars PROVE PlaceInv'
  OBVIOUS
<1>1. TypeOK /\ TypeOK'
  BY QueueStep DEF QueueInv
<1>2. CASE HandIn
  BY <1>1, <1>2, PlaceHandIn DEF HandIn
<1>3. CASE ~HandIn
  BY <1>1, <1>3, PlaceMoves
<1> QED
  BY <1>2, <1>3

-----------------------------------------------------------------------------
(* ... and the places add up                                               *)

LEMMA SameSize ==
  ASSUME NEW S, NEW T, NEW g \in [S -> T], IsFiniteSet(T),
         \A a, b \in S : g[a] = g[b] => a = b, \A t \in T : \E a \in S : g[a] = t
  PROVE  Cardinality(S) = Cardinality(T)
<1>1. g \in Bijection(S, T)
  BY Fun_IsBij
<1>2. ExistsBijection(T, S)
  BY <1>1, Fun_ExistsBij, Fun_ExistsBijSymmetric
<1> QED
  BY <1>2, FS_Bijection

LEMMA DistinctSize ==
  ASSUME NEW S, NEW s \in Seq(S), Distinct(s), IsFiniteSet(Elements(s))
  PROVE  Cardinality(Elements(s)) = Len(s)
<1> DEFINE g == [i \in 1 .. Len(s) |-> s[i]]
<1>1. DOMAIN s = 1 .. Len(s) /\ Len(s) \in Nat
  OBVIOUS
<1>2. /\ g \in [1 .. Len(s) -> Elements(s)]
      /\ \A a, b \in 1 .. Len(s) : g[a] = g[b] => a = b
      /\ \A t \in Elements(s) : \E a \in 1 .. Len(s) : g[a] = t
  BY <1>1 DEF Elements, Distinct
<1> HIDE DEF g
<1>3. Cardinality(1 .. Len(s)) = Cardinality(Elements(s))
  BY <1>2, SameSize
<1>4. Cardinality(1 .. Len(s)) = Len(s)
  BY <1>1, FS_Interval
<1> QED
  BY <1>3, <1>4

LEMMA TwoSizes ==
  ASSUME NEW S, NEW T, IsFiniteSet(S), IsFiniteSet(T), S \cap T = {}
  PROVE  /\ Cardinality(S \cup T) = Cardinality(S) + Cardinality(T)
         /\ Cardinality(S) \in Nat /\ Cardinality(T) \in Nat /\ IsFiniteSet(S \cup T)
<1>1. Cardinality(S \cap T) = 0
  BY FS_EmptySet
<1>2. Cardinality(S) \in Nat /\ Cardinality(T) \in Nat
  BY FS_CardinalityType
<1>3. Cardinality(S \cup T) = Cardinality(S) + Cardinality(T) - Cardinality(S \cap T)
  BY FS_Union
<1> QED
  BY <1>1, <1>2, <1>3, FS_Union

LEMMA PlacesAddUp == TypeOK /\ PlaceInv => InOnePlace
<1> SUFFICES ASSUME TypeOK, PlaceInv PROVE InOnePlace
  OBVIOUS
<1>1. IsFiniteSet(Placed) /\ Seen \ {NoRecord} = Placed
  <2>1. PICK n \in 0 .. MaxRecords : Seen \ {NoRecord} = 1 .. n
    BY DEF PlaceInv, Numbered
  <2>2. IsFiniteSet(1 .. n)
    BY FS_Interval, ArchiveAssumption DEF ArchiveAssumption
  <2>3. Seen \ {NoRecord} = Placed
    BY SeenIs
  <2> QED
    BY <2>1, <2>2, <2>3, Zenon
<1>2. /\ IsFiniteSet(Elements(pending)) /\ IsFiniteSet(Elements(db)) /\ IsFiniteSet(lost)
      /\ IsFiniteSet(Batched) /\ IsFiniteSet(Handed)
  BY <1>1, FS_Subset DEF Placed
<1>3. Cardinality(Elements(pending)) = Len(pending) /\ Cardinality(Elements(db)) = Len(db)
  BY <1>2, DistinctSize DEF PlaceInv, Apart, TypeOK
<1>4. Cardinality(Waiting) = Cardinality(Handed)
  <2> DEFINE g == [w \in Waiting |-> handing[w]]
  <2>1. /\ g \in [Waiting -> Handed]
        /\ \A a, b \in Waiting : g[a] = g[b] => a = b
        /\ \A t \in Handed : \E a \in Waiting : g[a] = t
    BY DEF Waiting, Handed, PlaceInv, Apart
  <2> HIDE DEF g
  <2> QED
    BY <1>2, <2>1, SameSize
<1>5. Cardinality(Taken) = Cardinality(Batched)
  <2> DEFINE g == [t \in Taken |-> batch[t[1]][t[2]]]
  <2>1. \A t \in Taken : t[1] \in Flushers /\ t[2] \in DOMAIN batch[t[1]] /\ t = <<t[1], t[2]>>
    BY DEF Taken
  <2>2. \A f \in Flushers : \A i \in DOMAIN batch[f] : <<f, i>> \in Taken
    BY DEF Taken
  <2>3. g \in [Taken -> Batched]
    BY <2>1 DEF Batched, Elements
  <2>4. ASSUME NEW a \in Taken, NEW b \in Taken, g[a] = g[b] PROVE a = b
    <3>1. batch[a[1]][a[2]] = batch[b[1]][b[2]]
      BY <2>4
    <3>2. batch[a[1]][a[2]] \in Elements(batch[a[1]]) \cap Elements(batch[b[1]])
      BY <2>1, <3>1 DEF Elements
    <3>3. a[1] = b[1]
      BY <2>1, <3>2 DEF PlaceInv, Apart
    <3>4. a[2] = b[2]
      BY <2>1, <3>1, <3>3 DEF PlaceInv, Apart, Distinct
    <3> QED
      BY <2>1, <3>3, <3>4
  <2>5. ASSUME NEW e \in Batched PROVE \E a \in Taken : g[a] = e
    <3>0. PICK f \in Flushers : e \in Elements(batch[f])
      BY <2>5 DEF Batched
    <3>1. PICK i \in DOMAIN batch[f] : e = batch[f][i]
      BY <3>0 DEF Elements
    <3>2. <<f, i>> \in Taken /\ g[<<f, i>>] = e
      BY <2>2, <3>0, <3>1
    <3> QED
      BY <3>2
  <2> HIDE DEF g
  <2> QED
    BY <1>2, <2>3, <2>4, <2>5, SameSize
<1>6. Placed = (((Elements(pending) \cup Elements(db)) \cup lost) \cup Batched) \cup Handed
  BY DEF Placed
<1>7. Cardinality(Placed) = Cardinality(Elements(pending)) + Cardinality(Elements(db)) + Cardinality(lost)
                            + Cardinality(Batched) + Cardinality(Handed)
  <2>1. /\ Elements(pending) \cap Elements(db) = {}
        /\ (Elements(pending) \cup Elements(db)) \cap lost = {}
        /\ ((Elements(pending) \cup Elements(db)) \cup lost) \cap Batched = {}
        /\ (((Elements(pending) \cup Elements(db)) \cup lost) \cup Batched) \cap Handed = {}
    BY DEF PlaceInv, Apart
  <2>2. /\ Cardinality(Elements(pending) \cup Elements(db)) = Cardinality(Elements(pending)) + Cardinality(Elements(db))
        /\ IsFiniteSet(Elements(pending) \cup Elements(db))
    BY <1>2, <2>1, TwoSizes
  <2> DEFINE S == Elements(pending) \cup Elements(db)
  <2>3. Cardinality(S \cup lost) = Cardinality(S) + Cardinality(lost) /\ IsFiniteSet(S \cup lost)
    BY <1>2, <2>1, <2>2, TwoSizes
  <2>4. /\ Cardinality((S \cup lost) \cup Batched) = Cardinality(S \cup lost) + Cardinality(Batched)
        /\ IsFiniteSet((S \cup lost) \cup Batched)
    BY <1>2, <2>1, <2>3, TwoSizes
  <2>5. Cardinality(((S \cup lost) \cup Batched) \cup Handed)
          = Cardinality((S \cup lost) \cup Batched) + Cardinality(Handed)
    BY <1>2, <2>1, <2>4, TwoSizes
  <2> QED
    BY <1>6, <2>2, <2>3, <2>4, <2>5
<1>8. Len(pending) \in Nat /\ Len(db) \in Nat /\ Cardinality(lost) \in Nat
      /\ Cardinality(Batched) \in Nat /\ Cardinality(Handed) \in Nat
  BY <1>2, FS_CardinalityType DEF TypeOK
<1>9. Cardinality(Seen \ {NoRecord}) = Cardinality(Placed)
  BY <1>1, Zenon
<1>10. Cardinality(Placed) = Cardinality(Waiting) + Len(pending) + Cardinality(Taken) + Len(db)
                             + Cardinality(lost)
  <2>1. Cardinality(Placed) = Len(pending) + Len(db) + Cardinality(lost)
                              + Cardinality(Taken) + Cardinality(Waiting)
    BY <1>3, <1>4, <1>5, <1>7, Zenon
  <2>2. Cardinality(Taken) \in Nat /\ Cardinality(Waiting) \in Nat
    BY <1>4, <1>5, <1>8, Zenon
  <2> QED
    BY <1>8, <2>1, <2>2
<1> QED
  BY <1>9, <1>10, Zenon DEF InOnePlace

\* However writers, timer callbacks and the final flush overlap, a record is with the
\* thread that hands it in, in the queue, in one batch, once in the table, or lost.
THEOREM EachInOnePlace == Spec => []InOnePlace
<1>1. QueueInv /\ PlaceInv => InOnePlace
  BY PlacesAddUp DEF QueueInv
<1> QED
  BY <1>1, QueueSafe, PlaceInit, PlaceStep, PTL DEF Spec
=============================================================================
