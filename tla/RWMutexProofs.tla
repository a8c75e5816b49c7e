--------------------------- MODULE RWMutexProofs ----------------------------
(***************************************************************************)
(* Exclusion of sync.RWMutex, for any number of goroutines below           *)
(* rwmutexMaxReaders.  The invariant says what the two counters count:     *)
(* readerCount the readers inside and waiting, readerWait those the        *)
(* announced writer has yet to see leave.                                  *)
(***************************************************************************)
EXTENDS RWMutex, FiniteSetTheorems, TLAPS

N(l) == Cardinality(At(l))

\* Where the owner of w is, if there is one.
Phase == IF w = None THEN "none" ELSE pc[w]

Announced == Phase \in {"drain", "wwait", "writing"}

WriterPC == {"announce", "drain", "wwait", "writing", "try", "unlockW"}

Owner == \A g \in G : w = g <=> pc[g] \in WriterPC

Counted ==
  readerCount = N("reading") + N("rwait") - (IF Announced THEN rwmutexMaxReaders ELSE 0)

\* Unless a writer is announced, a unit of readerSem is there for each reader that
\* waits, or Unlock is about to release it.
Units ==
  /\ ~Announced => N("rwait") = readerSem + r
  /\ Announced => N("rwait") >= readerSem
  /\ Phase \notin {"drain", "unlockW"} => r = 0

\* The readers an announced writer has yet to see leave.
Left == N("reading") + readerSem + N("departing")

Leaving ==
  /\ ~Announced => readerWait = 0 /\ N("departing") = 0
  /\ Phase = "drain" => r + readerWait = Left /\ readerWait <= 0
  /\ Phase = "wwait" => readerWait = Left
  /\ Phase = "writing" => readerWait = 0 /\ Left = 0

\* The writer is woken once, when all of them have left.
Wakeup == N("wake") + writerSem = IF Phase = "wwait" /\ readerWait = 0 THEN 1 ELSE 0

NoFatal == \A g \in G : pc[g] # "fatal"

RWInv == TypeOK /\ Owner /\ Counted /\ Units /\ Leaving /\ Wakeup /\ NoFatal

-----------------------------------------------------------------------------
(* Counting goroutines.                                                    *)

LEMMA CountType == \A l : IsFiniteSet(At(l)) /\ N(l) \in Nat
<1> SUFFICES ASSUME NEW l PROVE IsFiniteSet(At(l)) /\ N(l) \in Nat
  OBVIOUS
<1>1. At(l) \in SUBSET G
  BY DEF At
<1>2. IsFiniteSet(At(l))
  BY <1>1, FS_Subset, RWAssumption
<1> QED BY <1>2, FS_CardinalityType DEF N

LEMMA CountZero == \A l : N(l) = 0 <=> At(l) = {}
BY CountType, FS_EmptySet DEF N

\* Somebody is there.
LEMMA CountSome == \A g \in G : N(pc[g]) > 0
<1> SUFFICES ASSUME NEW g \in G PROVE N(pc[g]) > 0
  OBVIOUS
<1>1. At(pc[g]) # {}
  BY DEF At
<1> QED BY <1>1, CountZero, CountType

Readers == At("reading") \cup At("rwait")

\* There are fewer readers than rwmutexMaxReaders, and room for one more.
LEMMA CountBound ==
  /\ N("reading") + N("rwait") < rwmutexMaxReaders
  /\ \A g \in G : pc[g] \notin {"reading", "rwait"} =>
       N("reading") + N("rwait") + 1 < rwmutexMaxReaders
<1>1. At("reading") \cap At("rwait") = {} /\ Readers \in SUBSET G
  BY DEF At, Readers
<1>2. IsFiniteSet(Readers) /\ Cardinality(Readers) = N("reading") + N("rwait")
  <2>1. /\ IsFiniteSet(Readers)
        /\ Cardinality(Readers) = N("reading") + N("rwait") - Cardinality(At("reading") \cap At("rwait"))
    BY CountType, FS_Union DEF N, Readers
  <2>2. Cardinality(At("reading") \cap At("rwait")) = 0
    BY <1>1, FS_EmptySet
  <2>3. N("reading") \in Nat /\ N("rwait") \in Nat
    BY CountType
  <2> QED BY <2>1, <2>2, <2>3
<1>3. Cardinality(G) \in Nat /\ Cardinality(G) < rwmutexMaxReaders /\ rwmutexMaxReaders \in Nat
  BY RWAssumption, FS_CardinalityType
<1>4. Cardinality(Readers) <= Cardinality(G) /\ Cardinality(Readers) \in Nat
  BY <1>1, <1>2, RWAssumption, FS_Subset, FS_CardinalityType
<1>5. ASSUME NEW g \in G, pc[g] \notin {"reading", "rwait"}
      PROVE  Cardinality(Readers) + 1 <= Cardinality(G)
  <2>1. g \notin Readers /\ Readers \cup {g} \in SUBSET G
    BY <1>1, <1>5 DEF At, Readers
  <2>2. Cardinality(Readers \cup {g}) = Cardinality(Readers) + 1
    BY <1>2, <2>1, FS_AddElement
  <2>3. Cardinality(Readers \cup {g}) <= Cardinality(G)
    BY <2>1, RWAssumption, FS_Subset
  <2> QED BY <2>2, <2>3
<1>6. Cardinality(Readers) < rwmutexMaxReaders
  BY <1>3, <1>4
<1>7. ASSUME NEW g \in G, pc[g] \notin {"reading", "rwait"}
      PROVE  Cardinality(Readers) + 1 < rwmutexMaxReaders
  <2>1. Cardinality(Readers) + 1 <= Cardinality(G)
    BY <1>5, <1>7
  <2> QED BY <1>3, <1>4, <2>1
<1> QED BY <1>2, <1>6, <1>7

\* A goroutine goes from one place to another.
LEMMA Move ==
  ASSUME pc \in [G -> PC], NEW g \in G, NEW l, l # pc[g], Goto(g, l)
  PROVE  \A k : N(k)' = IF k = l THEN N(k) + 1 ELSE IF k = pc[g] THEN N(k) - 1 ELSE N(k)
<1> SUFFICES ASSUME NEW k
             PROVE  N(k)' = IF k = l THEN N(k) + 1 ELSE IF k = pc[g] THEN N(k) - 1 ELSE N(k)
  OBVIOUS
<1>1. \A h \in G : pc'[h] = IF h = g THEN l ELSE pc[h]
  BY DEF Goto
<1>2. IsFiniteSet(At(k))
  BY CountType
<1>3. CASE k = l
  <2>1. g \notin At(k) /\ At(k)' = At(k) \cup {g}
    BY <1>1, <1>3 DEF At
  <2> QED BY <1>2, <1>3, <2>1, FS_AddElement DEF N
<1>4. CASE k # l /\ k = pc[g]
  <2>1. g \in At(k) /\ At(k)' = At(k) \ {g}
    BY <1>1, <1>4 DEF At
  <2> QED BY <1>2, <1>4, <2>1, FS_RemoveElement DEF N
<1>5. CASE k # l /\ k # pc[g]
  <2>1. At(k)' = At(k)
    BY <1>1, <1>5 DEF At
  <2> QED BY <1>5, <2>1 DEF N
<1> QED BY <1>3, <1>4, <1>5

-----------------------------------------------------------------------------
(* Where the writer is.                                                    *)

\* A step of a goroutine that is no writer, before or after, is not seen there.
LEMMA ReaderStep ==
  ASSUME TypeOK, Owner, NEW g \in G, NEW l \in PC, Goto(g, l), w' = w,
         pc[g] \notin WriterPC, l \notin WriterPC
  PROVE  pc' \in [G -> PC] /\ Phase' = Phase /\ (Announced' <=> Announced) /\ Owner'
<1>1. pc' \in [G -> PC] /\ \A h \in G : pc'[h] = IF h = g THEN l ELSE pc[h]
  BY DEF TypeOK, Goto
<1>2. Owner'
  BY <1>1 DEF Owner
<1>3. Phase' = Phase
  BY <1>1 DEF TypeOK, Owner, Phase
<1> QED BY <1>1, <1>2, <1>3 DEF Announced

\* A step that the owner of w takes and stays the owner.
LEMMA WriterStep ==
  ASSUME TypeOK, Owner, NEW g \in G, NEW l \in WriterPC, Goto(g, l), w' = w,
         pc[g] \in WriterPC
  PROVE  pc' \in [G -> PC] /\ w = g /\ Phase = pc[g] /\ Phase' = l /\ Owner'
<1>1. pc' \in [G -> PC] /\ \A h \in G : pc'[h] = IF h = g THEN l ELSE pc[h]
  BY DEF TypeOK, Goto, WriterPC, PC
<1>2. w = g /\ g # None
  BY RWAssumption DEF Owner
<1>3. Owner'
  BY <1>1, <1>2 DEF Owner
<1> QED BY <1>1, <1>2, <1>3 DEF Phase

-----------------------------------------------------------------------------
(* Readers keep the invariant.                                             *)

\* RLock and TryRLock.
LEMMA ArriveKeeps ==
  ASSUME RWInv, NEW g \in G, RLock(g) \/ TryRLock(g)
  PROVE  RWInv'
<1> USE DEF RWInv
<1>1. /\ pc[g] = "out" /\ readerCount' = readerCount + 1
      /\ UNCHANGED <<w, writerSem, readerSem, readerWait, r>>
  BY DEF RLock, TryRLock
<1>2. \A k \in PC : N(k) \in Nat
  BY CountType
<1>3. N("reading") + N("rwait") + 1 < rwmutexMaxReaders /\ rwmutexMaxReaders \in Nat
  BY <1>1, CountBound, RWAssumption
<1>4. readerCount' < 0 <=> Announced
  BY <1>1, <1>2, <1>3 DEF Counted, PC
<1>5. Announced => RLock(g)
  BY <1>1, <1>2, <1>3, <1>4 DEF TryRLock, TypeOK
<1> DEFINE l == IF Announced THEN "rwait" ELSE "reading"
<1>6. Goto(g, l)
  BY <1>4, <1>5 DEF RLock, TryRLock
<1>7. l \in PC /\ l \notin WriterPC /\ l # pc[g] /\ pc[g] \notin WriterPC
  BY <1>1 DEF PC, WriterPC
<1>8. \A k : N(k)' = IF k = l THEN N(k) + 1 ELSE IF k = pc[g] THEN N(k) - 1 ELSE N(k)
  BY <1>6, <1>7, Move DEF TypeOK
<1>9. pc' \in [G -> PC] /\ Phase' = Phase /\ (Announced' <=> Announced) /\ Owner'
  BY <1>1, <1>6, <1>7, ReaderStep
<1>10. /\ N("reading")' = IF Announced THEN N("reading") ELSE N("reading") + 1
       /\ N("rwait")' = IF Announced THEN N("rwait") + 1 ELSE N("rwait")
       /\ N("departing")' = N("departing") /\ N("wake")' = N("wake")
  BY <1>1, <1>8
<1>11. TypeOK'
  BY <1>1, <1>9 DEF TypeOK
<1>12. NoFatal'
  BY <1>6 DEF NoFatal, Goto, TypeOK
<1>13. Counted'
  BY <1>1, <1>2, <1>3, <1>9, <1>10 DEF Counted, PC
<1>14. Units'
  BY <1>1, <1>2, <1>9, <1>10 DEF Units, PC, TypeOK
<1>15. Leaving'
  BY <1>1, <1>2, <1>9, <1>10 DEF Leaving, Left, Announced
<1>16. Wakeup'
  BY <1>1, <1>9, <1>10 DEF Wakeup
<1> QED BY <1>9, <1>11, <1>12, <1>13, <1>14, <1>15, <1>16

\* A reader that was waiting takes a unit of readerSem.
LEMMA RLockWokenKeeps ==
  ASSUME RWInv, NEW g \in G, rLockWoken(g)
  PROVE  RWInv'
<1> USE DEF RWInv
<1>1. /\ pc[g] = "rwait" /\ readerSem > 0 /\ readerSem' = readerSem - 1 /\ Goto(g, "reading")
      /\ UNCHANGED <<w, writerSem, readerCount, readerWait, r>>
  BY DEF rLockWoken
<1>2. \A k \in PC : N(k) \in Nat
  BY CountType
<1>3. \A k : N(k)' = IF k = "reading" THEN N(k) + 1
                     ELSE IF k = pc[g] THEN N(k) - 1 ELSE N(k)
  BY <1>1, Move DEF TypeOK
<1>4. pc' \in [G -> PC] /\ Phase' = Phase /\ (Announced' <=> Announced) /\ Owner'
  BY <1>1, ReaderStep DEF PC, WriterPC
<1>5. /\ N("reading")' = N("reading") + 1 /\ N("rwait")' = N("rwait") - 1
      /\ N("departing")' = N("departing") /\ N("wake")' = N("wake")
  BY <1>1, <1>3
<1>6. TypeOK'
  BY <1>1, <1>4 DEF TypeOK
<1>7. NoFatal'
  BY <1>1 DEF NoFatal, Goto, TypeOK
<1>8. Counted'
  BY <1>1, <1>2, <1>4, <1>5, RWAssumption DEF Counted, PC
<1>9. Units'
  BY <1>1, <1>2, <1>4, <1>5 DEF Units, PC, TypeOK
<1>10. Leaving'
  <2>1. Left' = Left
    BY <1>1, <1>2, <1>5 DEF Left, PC, TypeOK
  <2> QED BY <1>1, <1>4, <1>5, <2>1 DEF Leaving
<1>11. Wakeup'
  BY <1>1, <1>4, <1>5 DEF Wakeup
<1> QED BY <1>4, <1>6, <1>7, <1>8, <1>9, <1>10, <1>11

\* RUnlock: a reader leaves for good, or has to tell the announced writer.
LEMMA RUnlockKeeps ==
  ASSUME RWInv, NEW g \in G, RUnlock(g)
  PROVE  RWInv'
<1> USE DEF RWInv
<1> DEFINE l == IF Announced THEN "departing" ELSE "out"
<1>1. /\ pc[g] = "reading" /\ readerCount' = readerCount - 1
      /\ UNCHANGED <<w, writerSem, readerSem, readerWait, r>>
  BY DEF RUnlock
<1>2. /\ \A k \in PC : N(k) \in Nat
      /\ N("reading") > 0 /\ N("reading") + N("rwait") < rwmutexMaxReaders
      /\ rwmutexMaxReaders \in Nat
  BY <1>1, CountType, CountSome, CountBound, RWAssumption
<1>3. /\ ~Announced => readerCount' >= 0
      /\ Announced => readerCount' < 0 /\ readerCount # 0 /\ readerCount # -rwmutexMaxReaders
  BY <1>1, <1>2 DEF Counted, PC
<1>4. Goto(g, l)
  BY <1>3 DEF RUnlock, TypeOK
<1>5. l \in PC /\ l \notin WriterPC /\ l # pc[g] /\ pc[g] \notin WriterPC
  BY <1>1 DEF PC, WriterPC
<1>6. \A k : N(k)' = IF k = l THEN N(k) + 1 ELSE IF k = pc[g] THEN N(k) - 1 ELSE N(k)
  BY <1>4, <1>5, Move DEF TypeOK
<1>7. pc' \in [G -> PC] /\ Phase' = Phase /\ (Announced' <=> Announced) /\ Owner'
  BY <1>1, <1>4, <1>5, ReaderStep
<1>8. /\ N("reading")' = N("reading") - 1 /\ N("rwait")' = N("rwait")
      /\ N("departing")' = IF Announced THEN N("departing") + 1 ELSE N("departing")
      /\ N("wake")' = N("wake")
  BY <1>1, <1>6
<1>9. TypeOK'
  BY <1>1, <1>7 DEF TypeOK
<1>10. NoFatal'
  BY <1>4 DEF NoFatal, Goto, TypeOK
<1>11. Counted'
  BY <1>1, <1>2, <1>7, <1>8 DEF Counted, PC
<1>12. Units'
  BY <1>1, <1>7, <1>8 DEF Units
<1>13. Leaving'
  <2>1. Announced => Left' = Left
    BY <1>1, <1>2, <1>8 DEF Left, PC, TypeOK
  <2> QED BY <1>1, <1>7, <1>8, <2>1 DEF Leaving, Announced
<1>14. Wakeup'
  BY <1>1, <1>7, <1>8 DEF Wakeup
<1> QED BY <1>7, <1>9, <1>10, <1>11, <1>12, <1>13, <1>14

\* A departing reader is counted off; the last one will wake the writer.
LEMMA RUnlockSlowKeeps ==
  ASSUME RWInv, NEW g \in G, rUnlockSlow(g)
  PROVE  RWInv'
<1> USE DEF RWInv
<1> DEFINE l == IF readerWait' = 0 THEN "wake" ELSE "out"
<1>1. /\ pc[g] = "departing" /\ readerWait' = readerWait - 1 /\ Goto(g, l)
      /\ UNCHANGED <<w, writerSem, readerSem, readerCount, r>>
  BY DEF rUnlockSlow
<1>2. (\A k \in PC : N(k) \in Nat) /\ N("departing") > 0
  BY <1>1, CountType, CountSome
<1>3. l \in PC /\ l \notin WriterPC /\ l # pc[g] /\ pc[g] \notin WriterPC
  BY <1>1 DEF PC, WriterPC
<1>4. \A k : N(k)' = IF k = l THEN N(k) + 1 ELSE IF k = pc[g] THEN N(k) - 1 ELSE N(k)
  BY <1>1, <1>3, Move DEF TypeOK
<1>5. pc' \in [G -> PC] /\ Phase' = Phase /\ (Announced' <=> Announced) /\ Owner'
  BY <1>1, <1>3, ReaderStep
<1>6. /\ N("reading")' = N("reading") /\ N("rwait")' = N("rwait")
      /\ N("departing")' = N("departing") - 1
      /\ N("wake")' = IF readerWait' = 0 THEN N("wake") + 1 ELSE N("wake")
  BY <1>1, <1>4
<1>7. TypeOK'
  BY <1>1, <1>5 DEF TypeOK
<1>8. NoFatal'
  BY <1>1 DEF NoFatal, Goto, TypeOK
<1>9. Counted' /\ Units'
  BY <1>1, <1>5, <1>6 DEF Counted, Units
<1>10. Left' = Left - 1 /\ Left > 0 /\ Left \in Nat
  BY <1>1, <1>2, <1>6 DEF Left, PC, TypeOK
<1>11. Phase \in {"drain", "wwait"}
  BY <1>2, <1>10 DEF Leaving, Announced
<1>12. Leaving'
  BY <1>1, <1>5, <1>10, <1>11 DEF Leaving, Announced, TypeOK
<1>13. Wakeup'
  BY <1>1, <1>2, <1>5, <1>6, <1>10, <1>11 DEF Wakeup, Leaving, TypeOK, PC
<1> QED BY <1>5, <1>7, <1>8, <1>9, <1>12, <1>13

\* The last reader releases the writer's unit.
LEMMA RUnlockWakeKeeps ==
  ASSUME RWInv, NEW g \in G, rUnlockWake(g)
  PROVE  RWInv'
<1> USE DEF RWInv
<1>1. /\ pc[g] = "wake" /\ writerSem' = writerSem + 1 /\ Goto(g, "out")
      /\ UNCHANGED <<w, readerSem, readerCount, readerWait, r>>
  BY DEF rUnlockWake
<1>2. N("wake") \in Nat
  BY CountType
<1>3. \A k : N(k)' = IF k = "out" THEN N(k) + 1 ELSE IF k = pc[g] THEN N(k) - 1 ELSE N(k)
  BY <1>1, Move DEF TypeOK
<1>4. pc' \in [G -> PC] /\ Phase' = Phase /\ (Announced' <=> Announced) /\ Owner'
  BY <1>1, ReaderStep DEF PC, WriterPC
<1>5. /\ N("reading")' = N("reading") /\ N("rwait")' = N("rwait")
      /\ N("departing")' = N("departing") /\ N("wake")' = N("wake") - 1
  BY <1>1, <1>3
<1>6. TypeOK'
  BY <1>1, <1>4 DEF TypeOK
<1>7. NoFatal'
  BY <1>1 DEF NoFatal, Goto, TypeOK
<1>8. Counted' /\ Units' /\ Leaving'
  BY <1>1, <1>4, <1>5 DEF Counted, Units, Leaving, Left
<1>9. Wakeup'
  BY <1>1, <1>2, <1>4, <1>5 DEF Wakeup, TypeOK
<1> QED BY <1>4, <1>6, <1>7, <1>8, <1>9

-----------------------------------------------------------------------------
(* Writers keep the invariant.                                             *)

\* Lock queues for w, which nobody else sees.
LEMMA LockKeeps ==
  ASSUME RWInv, NEW g \in G, Lock(g)
  PROVE  RWInv'
<1> USE DEF RWInv
<1>1. /\ pc[g] = "out" /\ Goto(g, "wlock")
      /\ UNCHANGED <<w, writerSem, readerSem, readerCount, readerWait, r>>
  BY DEF Lock
<1>2. \A k : N(k)' = IF k = "wlock" THEN N(k) + 1 ELSE IF k = pc[g] THEN N(k) - 1 ELSE N(k)
  BY <1>1, Move DEF TypeOK
<1>3. pc' \in [G -> PC] /\ Phase' = Phase /\ (Announced' <=> Announced) /\ Owner'
  BY <1>1, ReaderStep DEF PC, WriterPC
<1>4. \A k \in {"reading", "rwait", "departing", "wake"} : N(k)' = N(k)
  BY <1>1, <1>2
<1>5. NoFatal'
  BY <1>1 DEF NoFatal, Goto, TypeOK
<1>6. Counted' /\ Units' /\ Leaving' /\ Wakeup' /\ TypeOK'
  BY <1>1, <1>3, <1>4 DEF Counted, Units, Leaving, Left, Wakeup, TypeOK
<1> QED BY <1>3, <1>5, <1>6

\* Lock or TryLock becomes the owner of w.
LEMMA TakeWKeeps ==
  ASSUME RWInv, NEW g \in G, lockW(g) \/ TryLock(g)
  PROVE  RWInv'
<1> USE DEF RWInv
<1>1. PICK l \in {"announce", "try"} :
        /\ pc[g] \in {"out", "wlock"} /\ w = None /\ w' = g /\ Goto(g, l)
        /\ UNCHANGED <<writerSem, readerSem, readerCount, readerWait, r>>
  BY DEF lockW, TryLock
<1>2. \A k : N(k)' = IF k = l THEN N(k) + 1 ELSE IF k = pc[g] THEN N(k) - 1 ELSE N(k)
  BY <1>1, Move DEF TypeOK
<1>3. pc' \in [G -> PC] /\ \A h \in G : pc'[h] = IF h = g THEN l ELSE pc[h]
  BY <1>1 DEF Goto, TypeOK, PC
<1>4. Owner'
  BY <1>1, <1>3, RWAssumption DEF Owner, WriterPC
<1>5. Phase = "none" /\ Phase' = l /\ ~Announced /\ ~Announced'
  BY <1>1, <1>3, RWAssumption DEF Phase, Announced
<1>6. \A k \in {"reading", "rwait", "departing", "wake"} : N(k)' = N(k)
  BY <1>1, <1>2
<1>7. NoFatal'
  BY <1>1, <1>3 DEF NoFatal
<1>8. Counted' /\ Units' /\ Leaving' /\ Wakeup' /\ TypeOK'
  BY <1>1, <1>3, <1>5, <1>6 DEF Counted, Units, Leaving, Left, Wakeup, TypeOK
<1> QED BY <1>4, <1>7, <1>8

\* The writer announces itself: the readers it finds are those it waits for.
LEMMA LockAnnounceKeeps ==
  ASSUME RWInv, NEW g \in G, lockAnnounce(g)
  PROVE  RWInv'
<1> USE DEF RWInv
<1> DEFINE l == IF r' = 0 THEN "writing" ELSE "drain"
<1>1. /\ pc[g] = "announce" /\ readerCount' = readerCount - rwmutexMaxReaders
      /\ r' = readerCount /\ Goto(g, l) /\ UNCHANGED <<w, writerSem, readerSem, readerWait>>
  BY DEF lockAnnounce
<1>2. \A k \in PC : N(k) \in Nat
  BY CountType
<1>3. \A k : N(k)' = IF k = l THEN N(k) + 1 ELSE IF k = pc[g] THEN N(k) - 1 ELSE N(k)
  BY <1>1, Move DEF TypeOK
<1>4. \A k \in {"reading", "rwait", "departing", "wake"} : N(k)' = N(k)
  BY <1>1, <1>3
<1>5. pc' \in [G -> PC] /\ Phase = "announce" /\ Phase' = l /\ Owner'
  BY <1>1, WriterStep DEF WriterPC
<1>6. ~Announced /\ Announced'
  BY <1>5 DEF Announced
<1>7. /\ r = 0 /\ r' = N("reading") + N("rwait") /\ N("rwait") = readerSem
      /\ N("departing") = 0 /\ readerWait = 0
  BY <1>1, <1>2, <1>5, <1>6 DEF Counted, Units, Leaving, TypeOK, PC
<1>8. TypeOK'
  BY <1>1, <1>2, <1>5, <1>7, RWAssumption DEF TypeOK, PC
<1>9. NoFatal'
  BY <1>1 DEF NoFatal, Goto, TypeOK
<1>10. Counted'
  BY <1>1, <1>2, <1>4, <1>6, RWAssumption DEF Counted, PC
<1>11. Units'
  BY <1>1, <1>2, <1>4, <1>5, <1>6, <1>7 DEF Units, PC
<1>12. Left' = r'
  BY <1>1, <1>2, <1>4, <1>7 DEF Left, PC, TypeOK
<1>13. Leaving'
  BY <1>1, <1>2, <1>5, <1>6, <1>7, <1>12 DEF Leaving, PC
<1>14. Wakeup'
  BY <1>1, <1>4, <1>5 DEF Wakeup
<1> QED BY <1>5, <1>8, <1>9, <1>10, <1>11, <1>13, <1>14

\* The writer adds what it has found to what has left meanwhile.
LEMMA LockDrainKeeps ==
  ASSUME RWInv, NEW g \in G, lockDrain(g)
  PROVE  RWInv'
<1> USE DEF RWInv
<1> DEFINE l == IF readerWait' = 0 THEN "writing" ELSE "wwait"
<1>1. /\ pc[g] = "drain" /\ readerWait' = readerWait + r /\ r' = 0 /\ Goto(g, l)
      /\ UNCHANGED <<w, writerSem, readerSem, readerCount>>
  BY DEF lockDrain
<1>2. \A k \in PC : N(k) \in Nat
  BY CountType
<1>3. \A k : N(k)' = IF k = l THEN N(k) + 1 ELSE IF k = pc[g] THEN N(k) - 1 ELSE N(k)
  BY <1>1, Move DEF TypeOK
<1>4. \A k \in {"reading", "rwait", "departing", "wake"} : N(k)' = N(k)
  BY <1>1, <1>3
<1>5. pc' \in [G -> PC] /\ Phase = "drain" /\ Phase' = l /\ Owner'
  BY <1>1, WriterStep DEF WriterPC
<1>6. Announced /\ Announced'
  BY <1>5 DEF Announced
<1>7. readerWait' = Left' /\ TypeOK'
  BY <1>1, <1>4, <1>5 DEF Leaving, Left, TypeOK
<1>8. NoFatal'
  BY <1>1 DEF NoFatal, Goto, TypeOK
<1>9. Counted' /\ Units'
  BY <1>1, <1>4, <1>5, <1>6 DEF Counted, Units
<1>10. Leaving'
  BY <1>5, <1>6, <1>7 DEF Leaving
<1>11. Wakeup'
  BY <1>1, <1>4, <1>5 DEF Wakeup
<1> QED BY <1>5, <1>7, <1>8, <1>9, <1>10, <1>11

\* The writer takes its unit.
LEMMA LockWokenKeeps ==
  ASSUME RWInv, NEW g \in G, lockWoken(g)
  PROVE  RWInv'
<1> USE DEF RWInv
<1>1. /\ pc[g] = "wwait" /\ writerSem > 0 /\ writerSem' = writerSem - 1
      /\ Goto(g, "writing") /\ UNCHANGED <<w, readerSem, readerCount, readerWait, r>>
  BY DEF lockWoken
<1>2. \A k \in PC : N(k) \in Nat
  BY CountType
<1>3. \A k : N(k)' = IF k = "writing" THEN N(k) + 1
                     ELSE IF k = pc[g] THEN N(k) - 1 ELSE N(k)
  BY <1>1, Move DEF TypeOK
<1>4. \A k \in {"reading", "rwait", "departing", "wake"} : N(k)' = N(k)
  BY <1>1, <1>3
<1>5. pc' \in [G -> PC] /\ Phase = "wwait" /\ Phase' = "writing" /\ Owner'
  BY <1>1, WriterStep DEF WriterPC
<1>6. Announced /\ Announced'
  BY <1>5 DEF Announced
<1>7. readerWait = 0 /\ writerSem = 1 /\ N("wake") = 0
  BY <1>1, <1>2, <1>5 DEF Wakeup, TypeOK, PC
<1>8. TypeOK'
  BY <1>1, <1>5, <1>7 DEF TypeOK
<1>9. NoFatal'
  BY <1>1 DEF NoFatal, Goto, TypeOK
<1>10. Counted' /\ Units'
  BY <1>1, <1>4, <1>5, <1>6 DEF Counted, Units
<1>11. Leaving'
  BY <1>1, <1>4, <1>5, <1>6, <1>7 DEF Leaving, Left
<1>12. Wakeup'
  BY <1>1, <1>4, <1>5, <1>7 DEF Wakeup
<1> QED BY <1>5, <1>8, <1>9, <1>10, <1>11, <1>12

\* TryLock announces itself only where there is no reader.
LEMMA TryLockAnnounceKeeps ==
  ASSUME RWInv, NEW g \in G, tryLockAnnounce(g)
  PROVE  RWInv'
<1> USE DEF RWInv
<1> DEFINE l == IF readerCount = 0 THEN "writing" ELSE "unlockW"
<1>1. /\ pc[g] = "try" /\ Goto(g, l)
      /\ readerCount' = IF readerCount = 0 THEN -rwmutexMaxReaders ELSE readerCount
      /\ UNCHANGED <<w, writerSem, readerSem, readerWait, r>>
  BY DEF tryLockAnnounce
<1>2. \A k \in PC : N(k) \in Nat
  BY CountType
<1>3. \A k : N(k)' = IF k = l THEN N(k) + 1 ELSE IF k = pc[g] THEN N(k) - 1 ELSE N(k)
  BY <1>1, Move DEF TypeOK
<1>4. \A k \in {"reading", "rwait", "departing", "wake"} : N(k)' = N(k)
  BY <1>1, <1>3
<1>5. pc' \in [G -> PC] /\ Phase = "try" /\ Phase' = l /\ Owner'
  BY <1>1, WriterStep DEF WriterPC
<1>6. ~Announced /\ (Announced' <=> readerCount = 0)
  BY <1>5 DEF Announced
<1>7. readerCount = 0 => N("reading") = 0 /\ N("rwait") = 0 /\ readerSem = 0 /\ r = 0
  BY <1>2, <1>6 DEF Counted, Units, TypeOK, PC
<1>8. TypeOK'
  BY <1>1, <1>5, RWAssumption DEF TypeOK
<1>9. NoFatal'
  BY <1>1 DEF NoFatal, Goto, TypeOK
<1>10. Counted'
  BY <1>1, <1>2, <1>4, <1>6, <1>7, RWAssumption DEF Counted, PC, TypeOK
<1>11. Units'
  BY <1>1, <1>4, <1>5, <1>6, <1>7 DEF Units
<1>12. Leaving'
  BY <1>1, <1>4, <1>5, <1>6, <1>7 DEF Leaving, Left
<1>13. Wakeup'
  BY <1>1, <1>4, <1>5 DEF Wakeup
<1> QED BY <1>5, <1>8, <1>9, <1>10, <1>11, <1>12, <1>13

\* Unlock: the readers that are counted are those that wait, and none has a unit.
LEMMA UnlockKeeps ==
  ASSUME RWInv, NEW g \in G, Unlock(g)
  PROVE  RWInv'
<1> USE DEF RWInv
<1>1. /\ pc[g] = "writing" /\ readerCount' = readerCount + rwmutexMaxReaders
      /\ r' = readerCount' /\ UNCHANGED <<w, writerSem, readerSem, readerWait>>
  BY DEF Unlock
<1>2. /\ \A k \in PC : N(k) \in Nat
      /\ N("reading") + N("rwait") < rwmutexMaxReaders /\ rwmutexMaxReaders \in Nat
  BY CountType, CountBound, RWAssumption
<1>3. Phase = "writing" /\ Announced
  BY <1>1, RWAssumption DEF Owner, WriterPC, Phase, Announced
<1>4. readerWait = 0 /\ N("reading") = 0 /\ readerSem = 0 /\ N("departing") = 0
  BY <1>2, <1>3 DEF Leaving, Left, TypeOK, PC
<1>5. r' = N("rwait")
  BY <1>1, <1>2, <1>3, <1>4 DEF Counted, TypeOK, PC
<1>6. Goto(g, "unlockW")
  BY <1>2, <1>4, <1>5 DEF Unlock, PC
<1>7. \A k : N(k)' = IF k = "unlockW" THEN N(k) + 1
                     ELSE IF k = pc[g] THEN N(k) - 1 ELSE N(k)
  BY <1>1, <1>6, Move DEF TypeOK
<1>8. \A k \in {"reading", "rwait", "departing", "wake"} : N(k)' = N(k)
  BY <1>1, <1>7
<1>9. pc' \in [G -> PC] /\ Phase' = "unlockW" /\ Owner'
  BY <1>1, <1>6, WriterStep DEF WriterPC
<1>10. ~Announced'
  BY <1>9 DEF Announced
<1>11. TypeOK'
  BY <1>1, <1>2, <1>5, <1>9 DEF TypeOK, PC
<1>12. NoFatal'
  BY <1>6 DEF NoFatal, Goto, TypeOK
<1>13. Counted'
  BY <1>1, <1>2, <1>4, <1>5, <1>8, <1>10 DEF Counted, PC
<1>14. Units'
  BY <1>1, <1>2, <1>4, <1>5, <1>8, <1>9, <1>10 DEF Units, PC
<1>15. Leaving' /\ Wakeup'
  BY <1>1, <1>3, <1>4, <1>8, <1>9, <1>10 DEF Leaving, Wakeup
<1> QED BY <1>9, <1>11, <1>12, <1>13, <1>14, <1>15

\* Unlock releases a unit for one more of them.
LEMMA UnlockReaderKeeps ==
  ASSUME RWInv, NEW g \in G, unlockReader(g)
  PROVE  RWInv'
<1> USE DEF RWInv
<1>1. /\ pc[g] = "unlockW" /\ r > 0 /\ readerSem' = readerSem + 1 /\ r' = r - 1
      /\ UNCHANGED <<w, writerSem, readerCount, readerWait, pc>>
  BY DEF unlockReader
<1>2. \A k : N(k)' = N(k)
  BY <1>1 DEF N, At
<1>3. Phase' = Phase /\ Phase = "unlockW" /\ ~Announced /\ ~Announced' /\ Owner'
  BY <1>1, RWAssumption DEF Owner, WriterPC, Phase, Announced
<1>4. TypeOK'
  BY <1>1 DEF TypeOK
<1>5. Counted' /\ Wakeup' /\ NoFatal'
  BY <1>1, <1>2, <1>3 DEF Counted, Wakeup, NoFatal
<1>6. Units' /\ Leaving'
  BY <1>1, <1>2, <1>3 DEF Units, Leaving, TypeOK
<1> QED BY <1>3, <1>4, <1>5, <1>6

\* The writer gives w up.
LEMMA UnlockWKeeps ==
  ASSUME RWInv, NEW g \in G, unlockW(g)
  PROVE  RWInv'
<1> USE DEF RWInv
<1>1. /\ pc[g] = "unlockW" /\ r = 0 /\ w' = None /\ Goto(g, "out")
      /\ UNCHANGED <<writerSem, readerSem, readerCount, readerWait, r>>
  BY DEF unlockW
<1>2. \A k : N(k)' = IF k = "out" THEN N(k) + 1 ELSE IF k = pc[g] THEN N(k) - 1 ELSE N(k)
  BY <1>1, Move DEF TypeOK
<1>3. \A k \in {"reading", "rwait", "departing", "wake"} : N(k)' = N(k)
  BY <1>1, <1>2
<1>4. pc' \in [G -> PC] /\ \A h \in G : pc'[h] = IF h = g THEN "out" ELSE pc[h]
  BY <1>1 DEF Goto, TypeOK, PC
<1>5. w = g /\ Phase = "unlockW" /\ Phase' = "none" /\ ~Announced /\ ~Announced'
  BY <1>1, RWAssumption DEF Owner, WriterPC, Phase, Announced
<1>6. Owner' /\ NoFatal'
  BY <1>1, <1>4, <1>5, RWAssumption DEF Owner, NoFatal, WriterPC
<1>7. Counted' /\ Units' /\ Leaving' /\ Wakeup' /\ TypeOK'
  BY <1>1, <1>3, <1>4, <1>5 DEF Counted, Units, Leaving, Wakeup, TypeOK
<1> QED BY <1>6, <1>7

-----------------------------------------------------------------------------
(* The theorems.                                                           *)

LEMMA InitInv == Init => RWInv
<1> SUFFICES ASSUME Init PROVE RWInv
  OBVIOUS
<1> USE DEF Init
<1>1. TypeOK
  BY DEF TypeOK, PC
<1>2. \A k \in {"reading", "rwait", "departing", "wake"} : At(k) = {}
  BY DEF At
<1>3. \A k \in {"reading", "rwait", "departing", "wake"} : N(k) = 0
  BY <1>2, CountZero
<1>4. Phase = "none" /\ ~Announced
  BY DEF Phase, Announced
<1>5. Owner /\ NoFatal
  BY RWAssumption DEF Owner, WriterPC, NoFatal
<1>6. Counted /\ Units /\ Leaving /\ Wakeup
  BY <1>3, <1>4 DEF Counted, Units, Leaving, Wakeup
<1> QED BY <1>1, <1>5, <1>6 DEF RWInv

LEMMA NextInv == RWInv /\ [Next]_vars => RWInv'
<1> SUFFICES ASSUME RWInv, [Next]_vars PROVE RWInv'
  OBVIOUS
<1>1. ASSUME NEW g \in G, Call(g)
      PROVE  RWInv'
  BY <1>1, ArriveKeeps, LockKeeps, TakeWKeeps DEF Call
<1>2. ASSUME NEW g \in G, Run(g)
      PROVE  RWInv'
  BY <1>2, RLockWokenKeeps, RUnlockKeeps, RUnlockSlowKeeps, RUnlockWakeKeeps, TakeWKeeps,
     LockAnnounceKeeps, LockDrainKeeps, LockWokenKeeps, TryLockAnnounceKeeps, UnlockKeeps,
     UnlockReaderKeeps, UnlockWKeeps DEF Run
<1>3. CASE UNCHANGED vars
  <2>1. (\A k : N(k)' = N(k)) /\ Phase' = Phase /\ (Announced' <=> Announced)
    BY <1>3 DEF vars, N, At, Phase, Announced
  <2> QED BY <1>3, <2>1 DEF vars, RWInv, TypeOK, Owner, Counted, Units, Leaving, Left,
                           Wakeup, NoFatal
<1> QED BY <1>1, <1>2, <1>3 DEF Next

\* RWInv is an invariant: readerCount, readerWait and the semaphores of
\* sync.RWMutex count what they are meant to, in every interleaving.
THEOREM RWInvariant == Spec => []RWInv
BY InitInv, NextInv, PTL DEF Spec

\* A writer of sync.RWMutex excludes readers and other writers, and the sanity
\* checks of RUnlock and Unlock do not fail.
THEOREM RWExclusive == Spec => []Exclusion
<1>1. RWInv => Exclusion
  <2> SUFFICES ASSUME RWInv PROVE Exclusion
    OBVIOUS
  <2>1. At("fatal") = {}
    BY DEF RWInv, NoFatal, At
  <2>2. ASSUME NEW g \in At("writing")
        PROVE  At("reading") = {} /\ At("writing") = {g}
    <3>1. g \in G /\ w = g /\ Phase = "writing"
      BY <2>2, RWAssumption DEF RWInv, Owner, WriterPC, Phase, At
    <3>2. At("writing") = {g}
      BY <2>2, <3>1 DEF RWInv, Owner, WriterPC, At
    <3>3. N("reading") \in Nat /\ N("departing") \in Nat
      BY CountType
    <3>4. N("reading") = 0
      BY <3>1, <3>3 DEF RWInv, Leaving, Left, TypeOK
    <3> QED BY <3>2, <3>4, CountZero
  <2> QED BY <2>1, <2>2 DEF Exclusion
<1> QED BY <1>1, RWInvariant, PTL

=============================================================================
