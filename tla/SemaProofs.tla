----------------------------- MODULE SemaProofs -----------------------------
(***************************************************************************)
(* SemaInvariant holds initially and is preserved by every step of the     *)
(* semaphores, by every call and by every return: so it holds in every     *)
(* system that uses semaphores only through them.                          *)
(***************************************************************************)
EXTENDS SemaInv, TLAPS

\* What the steps of g do to the control state, once and for all.
LEMMA SGotoFact ==
  ASSUME SemaTypeOK, NEW g \in G, NEW l \in SPC, SGoto(g, l)
  PROVE  /\ spc' \in [G -> SPC] /\ spc'[g] = l
         /\ \A h \in G : h # g => spc'[h] = spc[h]
BY DEF SemaTypeOK, SGoto

\* Initially all words are zero and nobody waits.
LEMMA SemaInitInvariant ==
  ASSUME SemaInit
  PROVE  SemaInvariant
<1>1. SemaTypeOK
  BY SemaAssumption DEF SemaInit, SemaTypeOK, SPC
<1>2. \A a \in Addr : DOMAIN waitq[a] = {}
  BY DEF SemaInit
<1>3. \A g \in G : spc[g] = "idle"
  BY DEF SemaInit
<1>4. QueuedAsleep /\ QueuedOnce
  BY <1>2 DEF QueuedAsleep, QueuedOnce
<1>5. FoundAsleep /\ FoundOnce /\ TicketFresh /\ RootLocked
  BY <1>3 DEF FoundAsleep, FoundOnce, TicketFresh, RootLocked, Dequeued
<1> QED
  BY <1>1, <1>4, <1>5 DEF SemaInvariant

\* A step that moves only g's control, between places that are neither asleep
\* nor holding anything, and perhaps the words.
LEMMA SemaMove ==
  ASSUME SemaInvariant, NEW g \in G, NEW l \in SPC, SGoto(g, l),
         spc[g] # "park", l \notin {"handoff", "ready", "lock", "check", "undo", "queue"},
         val' \in [Addr -> Nat], addr' \in [G -> Addr], flag' \in [G -> BOOLEAN],
         UNCHANGED <<nwait, rootlock, waitq, ticket, found>>
  PROVE  SemaInvariant'
<1> USE DEF SemaInvariant
<1>1. /\ spc' \in [G -> SPC] /\ spc'[g] = l
      /\ \A h \in G : h # g => spc'[h] = spc[h]
  BY SGotoFact
<1>2. SemaTypeOK'
  BY <1>1 DEF SemaTypeOK
<1>3. \A h \in G : spc[h] = "park" => spc'[h] = "park"
  BY <1>1
<1>4. QueuedAsleep'
  <2>1. \A a \in Addr : \A i \in DOMAIN waitq[a] : waitq[a][i] \in G
    BY DEF SemaTypeOK
  <2> QED BY <1>3, <2>1 DEF QueuedAsleep
<1>5. QueuedOnce'
  BY DEF QueuedOnce
<1>6. FoundAsleep'
  BY <1>1, <1>3 DEF FoundAsleep, Dequeued
<1>7. FoundOnce'
  BY <1>1 DEF FoundOnce, Dequeued
<1>8. TicketFresh' /\ RootLocked'
  BY <1>1 DEF TicketFresh, RootLocked
<1> QED BY <1>2, <1>4, <1>5, <1>6, <1>7, <1>8

\* A call into the semaphores keeps the invariant.
LEMMA SemaCallKeeps ==
  ASSUME SemaInvariant, NEW g \in G, NEW a \in Addr, NEW b \in BOOLEAN,
         NEW l \in {"easy", "xadd"}, SemCall(g, l, a, b)
  PROVE  SemaInvariant'
<1>1. l \in SPC /\ l \notin {"handoff", "ready", "lock", "check", "undo", "queue"}
  BY DEF SPC
<1>2. spc[g] # "park" /\ SGoto(g, l)
  BY DEF SemCall
<1>3. val' \in [Addr -> Nat] /\ addr' \in [G -> Addr] /\ flag' \in [G -> BOOLEAN]
  BY DEF SemCall, SemaInvariant, SemaTypeOK
<1>4. UNCHANGED <<nwait, rootlock, waitq, ticket, found>>
  BY DEF SemCall
<1> QED BY <1>1, <1>2, <1>3, <1>4, SemaMove

\* A return from the semaphores keeps the invariant.
LEMMA SemaReturnKeeps ==
  ASSUME SemaInvariant, NEW g \in G, NEW l \in {"acquired", "released"}, SemReturn(g, l)
  PROVE  SemaInvariant'
<1>1. "idle" \in SPC
      /\ "idle" \notin {"handoff", "ready", "lock", "check", "undo", "queue"}
  BY DEF SPC
<1>2. spc[g] # "park" /\ SGoto(g, "idle")
  BY DEF SemReturn
<1>3. val' \in [Addr -> Nat] /\ addr' \in [G -> Addr] /\ flag' \in [G -> BOOLEAN]
  BY DEF SemReturn, SemaInvariant, SemaTypeOK
<1>4. UNCHANGED <<nwait, rootlock, waitq, ticket, found>>
  BY DEF SemReturn
<1> QED BY <1>1, <1>2, <1>3, <1>4, SemaMove

-----------------------------------------------------------------------------
(* The steps.                                                              *)

\* Who is in a list is a goroutine.
LEMMA QueuedAreG ==
  ASSUME SemaTypeOK
  PROVE  \A a \in Addr : \A i \in DOMAIN waitq[a] : waitq[a][i] \in G
BY DEF SemaTypeOK

\* g goes for root.lock: it has no ticket, and nobody looks for it.
LEMMA SemaToLock ==
  ASSUME SemaInvariant, NEW g \in G, SGoto(g, "lock"), spc[g] \in {"easy", "retry"},
         ticket' = [ticket EXCEPT ![g] = FALSE],
         UNCHANGED <<val, nwait, rootlock, waitq, addr, flag, found>>
  PROVE  SemaInvariant'
<1> USE DEF SemaInvariant
<1>0. "lock" \in SPC
  BY DEF SPC
<1>1. /\ spc' \in [G -> SPC] /\ spc'[g] = "lock"
      /\ \A h \in G : h # g => spc'[h] = spc[h]
  BY <1>0, SGotoFact
<1>2. ticket' \in [G -> BOOLEAN] /\ \A h \in G : ticket'[h] => ticket[h] /\ h # g
  BY DEF SemaTypeOK
<1>3. SemaTypeOK'
  BY <1>1, <1>2 DEF SemaTypeOK
<1>4. \A h \in G : spc[h] = "park" => h # g /\ spc'[h] = "park"
  BY <1>1
<1>5. QueuedAsleep'
  BY <1>2, <1>4, QueuedAreG DEF QueuedAsleep
<1>6. QueuedOnce'
  BY DEF QueuedOnce
<1>7. FoundAsleep'
  BY <1>1, <1>2, <1>4 DEF FoundAsleep, Dequeued
<1>8. FoundOnce'
  BY <1>1 DEF FoundOnce, Dequeued
<1>9. TicketFresh' /\ RootLocked'
  BY <1>1, <1>2 DEF TicketFresh, RootLocked
<1> QED BY <1>3, <1>5, <1>6, <1>7, <1>8, <1>9

\* Taking a unit that is there leaves a word that is not negative.
LEMMA TakeType ==
  ASSUME SemaTypeOK, NEW g \in G, val[addr[g]] > 0, Take(g)
  PROVE  val' \in [Addr -> Nat]
BY DEF SemaTypeOK, Take

\* The easy case and what follows it.
LEMMA SemaEasyKeeps ==
  ASSUME SemaInvariant, NEW g \in G, semEasy(g)
  PROVE  SemaInvariant'
<1>0. SemaTypeOK
  BY DEF SemaInvariant
<1>1. CASE val[addr[g]] > 0
  <2>1. val' \in [Addr -> Nat]
    BY <1>0, <1>1, TakeType DEF semEasy
  <2>2. SGoto(g, "acquired") /\ spc[g] # "park"
        /\ UNCHANGED <<nwait, rootlock, waitq, ticket, found, addr, flag>>
    BY <1>1 DEF semEasy
  <2>3. addr' \in [G -> Addr] /\ flag' \in [G -> BOOLEAN]
    BY <1>0, <2>2 DEF SemaTypeOK
  <2>4. "acquired" \in SPC
        /\ "acquired" \notin {"handoff", "ready", "lock", "check", "undo", "queue"}
    BY DEF SPC
  <2> QED BY <2>1, <2>2, <2>3, <2>4, SemaMove
<1>2. CASE ~(val[addr[g]] > 0)
  <2>1. SGoto(g, "lock") /\ spc[g] \in {"easy", "retry"}
        /\ ticket' = [ticket EXCEPT ![g] = FALSE]
        /\ UNCHANGED <<val, nwait, rootlock, waitq, addr, flag, found>>
    BY <1>2 DEF semEasy
  <2> QED BY <2>1, SemaToLock
<1> QED BY <1>1, <1>2

\* Woken, with or without a ticket.
LEMMA SemaRetryKeeps ==
  ASSUME SemaInvariant, NEW g \in G, semRetry(g)
  PROVE  SemaInvariant'
<1>0. SemaTypeOK
  BY DEF SemaInvariant
<1>1. CASE SGoto(g, "acquired")
  <2>1. val' \in [Addr -> Nat]
    <3>1. CASE UNCHANGED val
      BY <1>0, <3>1 DEF SemaTypeOK
    <3>2. CASE val[addr[g]] > 0 /\ Take(g)
      BY <1>0, <3>2, TakeType
    <3> QED BY <3>1, <3>2 DEF semRetry
  <2>2. spc[g] # "park" /\ UNCHANGED <<nwait, rootlock, waitq, ticket, found, addr, flag>>
    BY DEF semRetry
  <2>3. addr' \in [G -> Addr] /\ flag' \in [G -> BOOLEAN]
    BY <1>0, <2>2 DEF SemaTypeOK
  <2>4. "acquired" \in SPC
        /\ "acquired" \notin {"handoff", "ready", "lock", "check", "undo", "queue"}
    BY DEF SPC
  <2> QED BY <1>1, <2>1, <2>2, <2>3, <2>4, SemaMove
<1>2. CASE ~ticket[g] /\ SGoto(g, "lock") /\ UNCHANGED val
  <2>1. spc[g] \in {"easy", "retry"}
        /\ UNCHANGED <<val, nwait, rootlock, waitq, addr, flag, found, ticket>>
    BY <1>2 DEF semRetry
  <2>2. ticket = [ticket EXCEPT ![g] = FALSE]
    BY <1>0, <1>2, Zenon DEF SemaTypeOK
  <2> QED BY <1>2, <2>1, <2>2, SemaToLock
<1> QED BY <1>1, <1>2 DEF semRetry

\* Entering the section under root.lock.
LEMMA SemaLockKeeps ==
  ASSUME SemaInvariant, NEW g \in G, semLock(g)
  PROVE  SemaInvariant'
<1> USE DEF SemaInvariant
<1>0. "check" \in SPC
  BY DEF SPC
<1>1. /\ spc' \in [G -> SPC] /\ spc'[g] = "check"
      /\ \A h \in G : h # g => spc'[h] = spc[h]
  BY <1>0, SGotoFact DEF semLock
<1>2. spc[g] = "lock" /\ rootlock = NoG /\ rootlock' = g /\ nwait' = nwait + 1
      /\ UNCHANGED <<val, waitq, addr, flag, ticket, found>>
  BY DEF semLock
<1>3. SemaTypeOK'
  BY <1>1, <1>2 DEF SemaTypeOK
<1>4. \A h \in G : spc[h] = "park" => spc'[h] = "park"
  BY <1>1, <1>2
<1>5. QueuedAsleep'
  BY <1>2, <1>4, QueuedAreG DEF QueuedAsleep
<1>6. QueuedOnce'
  BY <1>2 DEF QueuedOnce
<1>7. FoundAsleep'
  BY <1>1, <1>2, <1>4 DEF FoundAsleep, Dequeued
<1>8. FoundOnce'
  BY <1>1, <1>2 DEF FoundOnce, Dequeued
<1>9. TicketFresh'
  BY <1>1, <1>2 DEF TicketFresh
<1>10. RootLocked'
  <2>1. nwait \in Nat /\ nwait' > 0
    BY <1>2 DEF SemaTypeOK
  <2>2. \A h \in G : spc[h] \notin {"check", "undo", "queue"}
    BY <1>2, SemaAssumption DEF RootLocked
  <2> QED BY <1>1, <1>2, <2>1, <2>2 DEF RootLocked
<1> QED BY <1>3, <1>5, <1>6, <1>7, <1>8, <1>9, <1>10

\* The second look, under the lock.
LEMMA SemaCheckKeeps ==
  ASSUME SemaInvariant, NEW g \in G, semCheck(g)
  PROVE  SemaInvariant'
<1> USE DEF SemaInvariant
<1>1. spc[g] = "check" /\ UNCHANGED <<nwait, rootlock, waitq, addr, flag, ticket, found>>
  BY DEF semCheck
<1>2. val' \in [Addr -> Nat]
  BY TakeType DEF semCheck, SemaTypeOK
<1>3. PICK l \in {"undo", "queue"} : SGoto(g, l)
  BY DEF semCheck
<1>4. l \in SPC
  BY DEF SPC
<1>5. /\ spc' \in [G -> SPC] /\ spc'[g] = l
      /\ \A h \in G : h # g => spc'[h] = spc[h]
  BY <1>3, <1>4, SGotoFact
<1>6. SemaTypeOK'
  BY <1>1, <1>2, <1>5 DEF SemaTypeOK
<1>7. \A h \in G : spc[h] = "park" => spc'[h] = "park"
  BY <1>1, <1>5
<1>8. QueuedAsleep'
  BY <1>1, <1>7, QueuedAreG DEF QueuedAsleep
<1>9. QueuedOnce'
  BY <1>1 DEF QueuedOnce
<1>10. FoundAsleep'
  BY <1>1, <1>5, <1>7 DEF FoundAsleep, Dequeued
<1>11. FoundOnce'
  BY <1>1, <1>5 DEF FoundOnce, Dequeued
<1>12. TicketFresh'
  BY <1>1, <1>5 DEF TicketFresh
<1>13. RootLocked'
  BY <1>1, <1>5 DEF RootLocked
<1> QED BY <1>6, <1>8, <1>9, <1>10, <1>11, <1>12, <1>13

\* Leaving that section with a unit.
LEMMA SemaUndoKeeps ==
  ASSUME SemaInvariant, NEW g \in G, semUndo(g)
  PROVE  SemaInvariant'
<1> USE DEF SemaInvariant
<1>0. "acquired" \in SPC
  BY DEF SPC
<1>1. /\ spc' \in [G -> SPC] /\ spc'[g] = "acquired"
      /\ \A h \in G : h # g => spc'[h] = spc[h]
  BY <1>0, SGotoFact DEF semUndo
<1>2. spc[g] = "undo" /\ rootlock' = NoG /\ nwait' = nwait - 1
      /\ UNCHANGED <<val, waitq, addr, flag, ticket, found>>
  BY DEF semUndo
<1>3. nwait \in Nat /\ nwait > 0 /\ rootlock = g
  BY <1>2 DEF RootLocked, SemaTypeOK
<1>4. SemaTypeOK'
  BY <1>1, <1>2, <1>3 DEF SemaTypeOK
<1>5. \A h \in G : spc[h] = "park" => spc'[h] = "park"
  BY <1>1, <1>2
<1>6. QueuedAsleep'
  BY <1>2, <1>5, QueuedAreG DEF QueuedAsleep
<1>7. QueuedOnce'
  BY <1>2 DEF QueuedOnce
<1>8. FoundAsleep'
  BY <1>1, <1>2, <1>5 DEF FoundAsleep, Dequeued
<1>9. FoundOnce'
  BY <1>1, <1>2 DEF FoundOnce, Dequeued
<1>10. TicketFresh'
  BY <1>1, <1>2 DEF TicketFresh
<1>11. RootLocked'
  BY <1>1, <1>3 DEF RootLocked
<1> QED BY <1>4, <1>6, <1>7, <1>8, <1>9, <1>10, <1>11

\* Putting one more element at either end of a sequence without duplicates.
LEMMA PutOnce ==
  ASSUME NEW S, NEW q \in Seq(S), NEW x \in S, NEW r,
         r = <<x>> \o q \/ r = Append(q, x),
         \A i \in DOMAIN q : q[i] # x,
         \A i, j \in DOMAIN q : q[i] = q[j] => i = j
  PROVE  /\ r \in Seq(S)
         /\ \A i \in DOMAIN r : r[i] = x \/ \E j \in DOMAIN q : r[i] = q[j]
         /\ \A i, j \in DOMAIN r : r[i] = r[j] => i = j
<1>1. CASE r = <<x>> \o q
  <2>1. r \in Seq(S) /\ Len(r) = Len(q) + 1 /\ r[1] = x
        /\ \A i \in 2..Len(r) : r[i] = q[i - 1] /\ i - 1 \in DOMAIN q
    BY <1>1
  <2> QED BY <2>1
<1>2. CASE r = Append(q, x)
  <2>1. r \in Seq(S) /\ Len(r) = Len(q) + 1 /\ r[Len(r)] = x
        /\ \A i \in 1..Len(q) : r[i] = q[i] /\ i \in DOMAIN q
    BY <1>2
  <2> QED BY <2>1
<1> QED BY <1>1, <1>2

\* Taking the first element from a sequence without duplicates.
LEMMA TakeFirst ==
  ASSUME NEW S, NEW q \in Seq(S), q # <<>>,
         \A i, j \in DOMAIN q : q[i] = q[j] => i = j
  PROVE  /\ Head(q) \in S /\ Tail(q) \in Seq(S) /\ 1 \in DOMAIN q /\ Head(q) = q[1]
         /\ \A i \in DOMAIN Tail(q) : i + 1 \in DOMAIN q /\ Tail(q)[i] = q[i + 1]
         /\ \A i \in DOMAIN Tail(q) : Tail(q)[i] # Head(q)
         /\ \A i, j \in DOMAIN Tail(q) : Tail(q)[i] = Tail(q)[j] => i = j
<1>1. /\ Head(q) \in S /\ Tail(q) \in Seq(S) /\ 1 \in DOMAIN q /\ Head(q) = q[1]
      /\ \A i \in DOMAIN Tail(q) : i \in Nat \ {0} /\ i + 1 \in DOMAIN q /\ Tail(q)[i] = q[i + 1]
  OBVIOUS
<1> QED BY <1>1

\* Joining the list of its address and going to sleep.
LEMMA SemaQueueKeeps ==
  ASSUME SemaInvariant, NEW g \in G, semQueue(g)
  PROVE  SemaInvariant'
<1> USE DEF SemaInvariant
<1>0. "park" \in SPC
  BY DEF SPC
<1>1. /\ spc' \in [G -> SPC] /\ spc'[g] = "park"
      /\ \A h \in G : h # g => spc'[h] = spc[h]
  BY <1>0, SGotoFact DEF semQueue
<1>2. spc[g] = "queue" /\ rootlock' = NoG
      /\ UNCHANGED <<val, nwait, addr, flag, ticket, found>>
  BY DEF semQueue
<1>3. PICK c \in Addr : c = addr[g]
  BY DEF SemaTypeOK
<1>4. PICK r : /\ waitq' = [waitq EXCEPT ![c] = r]
               /\ r = <<g>> \o waitq[c] \/ r = Append(waitq[c], g)
  BY <1>3 DEF semQueue, SemaTypeOK
<1>5. waitq[c] \in Seq(G) /\ waitq \in [Addr -> Seq(G)]
  BY DEF SemaTypeOK
<1>6. \A a \in Addr : \A i \in DOMAIN waitq[a] : waitq[a][i] \in G /\ waitq[a][i] # g
  BY <1>2, QueuedAreG DEF QueuedAsleep
<1>7. /\ r \in Seq(G)
      /\ \A i \in DOMAIN r : r[i] = g \/ \E j \in DOMAIN waitq[c] : r[i] = waitq[c][j]
      /\ \A i, j \in DOMAIN r : r[i] = r[j] => i = j
  <2>1. \A i, j \in DOMAIN waitq[c] : waitq[c][i] = waitq[c][j] => i = j
    BY DEF QueuedOnce
  <2> QED BY <1>4, <1>5, <1>6, <2>1, PutOnce
<1>8. waitq' \in [Addr -> Seq(G)] /\ waitq'[c] = r
      /\ \A a \in Addr : a # c => waitq'[a] = waitq[a]
  BY <1>4, <1>5, <1>7
<1>9. ~ticket[g] /\ rootlock = g
  BY <1>2 DEF TicketFresh, RootLocked
<1>10. SemaTypeOK'
  BY <1>1, <1>2, <1>8 DEF SemaTypeOK
<1>11. \A a \in Addr : \A i \in DOMAIN waitq'[a] :
         waitq'[a][i] = g \/ \E j \in DOMAIN waitq[a] : waitq'[a][i] = waitq[a][j]
  BY <1>7, <1>8
<1>12. QueuedAsleep'
  BY <1>1, <1>2, <1>6, <1>9, <1>11 DEF QueuedAsleep
<1>13. QueuedOnce'
  <2> SUFFICES ASSUME NEW a \in Addr, NEW b \in Addr,
                      NEW i \in DOMAIN waitq'[a], NEW j \in DOMAIN waitq'[b],
                      waitq'[a][i] = waitq'[b][j]
               PROVE  a = b /\ i = j
    BY DEF QueuedOnce
  <2>1. CASE a = c /\ b = c
    BY <1>7, <1>8, <2>1
  <2>2. CASE a # c /\ b # c
    BY <1>8, <2>2 DEF QueuedOnce
  <2>3. CASE a = c /\ b # c
    BY <1>6, <1>7, <1>8, <2>3 DEF QueuedOnce
  <2>4. CASE a # c /\ b = c
    BY <1>6, <1>7, <1>8, <2>4 DEF QueuedOnce
  <2> QED BY <2>1, <2>2, <2>3, <2>4
<1>14. FoundAsleep'
  <2> SUFFICES ASSUME NEW h \in G, Dequeued(h)'
               PROVE  /\ found[h] \in G /\ spc'[found[h]] = "park"
                      /\ spc'[h] = "handoff" => ~ticket[found[h]]
                      /\ \A a \in Addr : \A i \in DOMAIN waitq'[a] : waitq'[a][i] # found[h]
    BY <1>2 DEF FoundAsleep
  <2>1. Dequeued(h) /\ spc'[h] = spc[h]
    BY <1>1 DEF Dequeued
  <2>2. found[h] \in G /\ spc[found[h]] = "park" /\ (spc[h] = "handoff" => ~ticket[found[h]])
        /\ \A a \in Addr : \A i \in DOMAIN waitq[a] : waitq[a][i] # found[h]
    BY <2>1 DEF FoundAsleep
  <2>3. found[h] # g
    BY <1>2, <2>2
  <2> QED BY <1>1, <1>11, <2>1, <2>2, <2>3
<1>15. FoundOnce'
  BY <1>1, <1>2 DEF FoundOnce, Dequeued
<1>16. TicketFresh'
  BY <1>1, <1>2 DEF TicketFresh
<1>17. RootLocked'
  BY <1>1, <1>9 DEF RootLocked
<1> QED BY <1>10, <1>12, <1>13, <1>14, <1>15, <1>16, <1>17

\* Adding a unit to the word.
LEMMA SemaXaddKeeps ==
  ASSUME SemaInvariant, NEW g \in G, semXadd(g)
  PROVE  SemaInvariant'
<1>0. SemaTypeOK
  BY DEF SemaInvariant
<1>1. val' \in [Addr -> Nat]
  BY <1>0 DEF semXadd, SemaTypeOK
<1>2. SGoto(g, "nwait") /\ spc[g] # "park"
      /\ UNCHANGED <<nwait, rootlock, waitq, ticket, found, addr, flag>>
  BY DEF semXadd
<1>3. addr' \in [G -> Addr] /\ flag' \in [G -> BOOLEAN]
  BY <1>0, <1>2 DEF SemaTypeOK
<1>4. "nwait" \in SPC
      /\ "nwait" \notin {"handoff", "ready", "lock", "check", "undo", "queue"}
  BY DEF SPC
<1> QED BY <1>1, <1>2, <1>3, <1>4, SemaMove

\* Reading root.nwait without the lock.
LEMMA SemaNwaitKeeps ==
  ASSUME SemaInvariant, NEW g \in G, semNwait(g)
  PROVE  SemaInvariant'
<1>0. SemaTypeOK
  BY DEF SemaInvariant
<1>1. PICK l \in {"released", "dequeue"} : SGoto(g, l)
  BY DEF semNwait
<1>2. spc[g] # "park"
      /\ UNCHANGED <<val, nwait, rootlock, waitq, ticket, found, addr, flag>>
  BY DEF semNwait
<1>3. addr' \in [G -> Addr] /\ flag' \in [G -> BOOLEAN] /\ val' \in [Addr -> Nat]
  BY <1>0, <1>2 DEF SemaTypeOK
<1>4. l \in SPC /\ l \notin {"handoff", "ready", "lock", "check", "undo", "queue"}
  BY DEF SPC
<1> QED BY <1>1, <1>2, <1>3, <1>4, SemaMove

\* The section of semrelease1 under root.lock.
LEMMA SemaDequeueKeeps ==
  ASSUME SemaInvariant, NEW g \in G, semDequeue(g)
  PROVE  SemaInvariant'
<1> USE DEF SemaInvariant
<1>1. spc[g] = "dequeue" /\ rootlock = NoG /\ UNCHANGED <<val, rootlock, addr, flag>>
  BY DEF semDequeue
<1>2. addr' \in [G -> Addr] /\ flag' \in [G -> BOOLEAN] /\ val' \in [Addr -> Nat]
  BY <1>1 DEF SemaTypeOK
<1>3. CASE nwait = 0 \/ waitq[addr[g]] = <<>>
  <2>1. SGoto(g, "released") /\ UNCHANGED <<nwait, rootlock, waitq, ticket, found>>
    BY <1>1, <1>3 DEF semDequeue
  <2>2. "released" \in SPC
        /\ "released" \notin {"handoff", "ready", "lock", "check", "undo", "queue"}
    BY DEF SPC
  <2> QED BY <1>1, <1>2, <2>1, <2>2, SemaMove
<1>4. CASE ~(nwait = 0 \/ waitq[addr[g]] = <<>>)
  <2>1. PICK c \in Addr : c = addr[g]
    BY DEF SemaTypeOK
  <2>2. PICK q \in Seq(G) : q = waitq[c] /\ q # <<>>
    BY <1>4, <2>1 DEF SemaTypeOK
  <2>3. PICK x : x = Head(q)
    OBVIOUS
  <2>4. PICK r : r = Tail(q)
    OBVIOUS
  <2>5. /\ waitq' = [waitq EXCEPT ![c] = r] /\ nwait' = nwait - 1
        /\ ticket' = [ticket EXCEPT ![x] = FALSE] /\ found' = [found EXCEPT ![g] = x]
        /\ SGoto(g, "handoff")
    BY <1>4, <2>1, <2>2, <2>3, <2>4 DEF semDequeue
  <2>6. /\ x \in G /\ r \in Seq(G) /\ 1 \in DOMAIN q /\ x = q[1]
        /\ \A i \in DOMAIN r : i + 1 \in DOMAIN q /\ r[i] = q[i + 1]
        /\ \A i \in DOMAIN r : r[i] # x
        /\ \A i, j \in DOMAIN r : r[i] = r[j] => i = j
    <3>1. \A i, j \in DOMAIN q : q[i] = q[j] => i = j
      BY <2>2 DEF QueuedOnce
    <3> QED BY <2>2, <2>3, <2>4, <3>1, TakeFirst
  <2>7. spc[x] = "park" /\ ~ticket[x] /\ x # g
    BY <1>1, <2>2, <2>6 DEF QueuedAsleep
  <2>8. "handoff" \in SPC
    BY DEF SPC
  <2>9. /\ spc' \in [G -> SPC] /\ spc'[g] = "handoff"
        /\ \A h \in G : h # g => spc'[h] = spc[h]
    BY <2>5, <2>8, SGotoFact
  <2>10. waitq' \in [Addr -> Seq(G)] /\ waitq'[c] = r
         /\ \A a \in Addr : a # c => waitq'[a] = waitq[a]
    BY <2>5, <2>6 DEF SemaTypeOK
  <2>11. ticket' \in [G -> BOOLEAN] /\ \A h \in G : ticket'[h] => ticket[h]
    BY <2>5 DEF SemaTypeOK
  <2>12. found' \in [G -> G \cup {NoG}] /\ found'[g] = x
         /\ \A h \in G : h # g => found'[h] = found[h]
    BY <2>5, <2>6 DEF SemaTypeOK
  <2>13. nwait' \in Nat
    BY <1>4, <2>5 DEF SemaTypeOK
  <2>14. SemaTypeOK'
    BY <1>1, <1>2, <2>9, <2>10, <2>11, <2>12, <2>13 DEF SemaTypeOK
  <2>15. \A a \in Addr : \A i \in DOMAIN waitq'[a] :
           waitq'[a][i] # x /\ \E j \in DOMAIN waitq[a] : waitq'[a][i] = waitq[a][j]
    <3> SUFFICES ASSUME NEW a \in Addr, NEW i \in DOMAIN waitq'[a]
                 PROVE  waitq'[a][i] # x /\ \E j \in DOMAIN waitq[a] : waitq'[a][i] = waitq[a][j]
      OBVIOUS
    <3>1. CASE a = c
      BY <2>2, <2>6, <2>10, <3>1
    <3>2. CASE a # c
      <4>1. i \in DOMAIN waitq[a] /\ waitq'[a][i] = waitq[a][i]
        BY <2>10, <3>2
      <4>2. waitq[a][i] # waitq[c][1]
        BY <2>2, <2>6, <3>2, <4>1 DEF QueuedOnce
      <4> QED BY <2>2, <2>6, <4>1, <4>2
    <3> QED BY <3>1, <3>2
  <2>16. \A h \in G : spc[h] = "park" => spc'[h] = "park"
    BY <1>1, <2>9
  <2>17. QueuedAsleep'
    BY <2>11, <2>15, <2>16, QueuedAreG DEF QueuedAsleep
  <2>18. QueuedOnce'
    <3> SUFFICES ASSUME NEW a \in Addr, NEW b \in Addr,
                        NEW i \in DOMAIN waitq'[a], NEW j \in DOMAIN waitq'[b],
                        waitq'[a][i] = waitq'[b][j]
                 PROVE  a = b /\ i = j
      BY DEF QueuedOnce
    <3>1. a = b
      BY <2>15 DEF QueuedOnce
    <3>2. CASE a = c
      BY <2>6, <2>10, <3>1, <3>2
    <3>3. CASE a # c
      BY <2>10, <3>1, <3>3 DEF QueuedOnce
    <3> QED BY <3>1, <3>2, <3>3
  <2>19. \A h \in G : Dequeued(h) => found[h] # x
    BY <2>2, <2>6 DEF FoundAsleep
  <2>20. FoundAsleep'
    <3> SUFFICES ASSUME NEW h \in G, Dequeued(h)'
                 PROVE  /\ found'[h] \in G /\ spc'[found'[h]] = "park"
                        /\ spc'[h] = "handoff" => ~ticket'[found'[h]]
                        /\ \A a \in Addr : \A i \in DOMAIN waitq'[a] : waitq'[a][i] # found'[h]
      BY DEF FoundAsleep
    <3>1. CASE h = g
      BY <2>6, <2>7, <2>11, <2>12, <2>15, <2>16, <3>1
    <3>2. CASE h # g
      <4>1. Dequeued(h) /\ spc'[h] = spc[h] /\ found'[h] = found[h]
        BY <2>9, <2>12, <3>2 DEF Dequeued
      <4>2. found[h] \in G /\ spc[found[h]] = "park" /\ (spc[h] = "handoff" => ~ticket[found[h]])
            /\ \A a \in Addr : \A i \in DOMAIN waitq[a] : waitq[a][i] # found[h]
        BY <4>1 DEF FoundAsleep
      <4> QED BY <2>11, <2>15, <2>16, <4>1, <4>2
    <3> QED BY <3>1, <3>2
  <2>21. FoundOnce'
    <3> SUFFICES ASSUME NEW h \in G, NEW k \in G, Dequeued(h)', Dequeued(k)',
                        found'[h] = found'[k]
                 PROVE  h = k
      BY DEF FoundOnce
    <3>1. \A z \in G : z # g /\ Dequeued(z)' => Dequeued(z) /\ found'[z] = found[z]
      BY <2>9, <2>12 DEF Dequeued
    <3> QED BY <2>12, <2>19, <3>1 DEF FoundOnce
  <2>22. TicketFresh'
    BY <2>9, <2>11 DEF TicketFresh
  <2>23. RootLocked'
    BY <1>1, <2>9, SemaAssumption DEF RootLocked
  <2> QED BY <2>14, <2>17, <2>18, <2>20, <2>21, <2>22, <2>23
<1> QED BY <1>3, <1>4

\* Taking the unit for the waiter it found, or leaving it to whoever comes first.
LEMMA SemaHandoffKeeps ==
  ASSUME SemaInvariant, NEW g \in G, semHandoff(g)
  PROVE  SemaInvariant'
<1> USE DEF SemaInvariant
<1>0. "ready" \in SPC
  BY DEF SPC
<1>1. /\ spc' \in [G -> SPC] /\ spc'[g] = "ready"
      /\ \A h \in G : h # g => spc'[h] = spc[h]
  BY <1>0, SGotoFact DEF semHandoff
<1>2. spc[g] = "handoff" /\ UNCHANGED <<nwait, rootlock, waitq, addr, flag, found>>
  BY DEF semHandoff
<1>3. PICK x \in G : x = found[g]
  BY <1>2 DEF FoundAsleep, Dequeued
<1>4. /\ spc[x] = "park"
      /\ \A a \in Addr : \A i \in DOMAIN waitq[a] : waitq[a][i] # x
      /\ \A h \in G : h # g /\ Dequeued(h) => found[h] # x
  <2>1. Dequeued(g)
    BY <1>2 DEF Dequeued
  <2> QED BY <1>3, <2>1 DEF FoundAsleep, FoundOnce
<1>5. val' \in [Addr -> Nat]
  BY TakeType DEF semHandoff, SemaTypeOK
<1>6. ticket' \in [G -> BOOLEAN] /\ \A h \in G : h # x => ticket'[h] = ticket[h]
  BY <1>3 DEF semHandoff, SemaTypeOK
<1>7. SemaTypeOK'
  BY <1>1, <1>2, <1>5, <1>6 DEF SemaTypeOK
<1>8. \A h \in G : spc[h] = "park" => spc'[h] = "park"
  BY <1>1, <1>2
<1>9. QueuedAsleep'
  BY <1>2, <1>4, <1>6, <1>8, QueuedAreG DEF QueuedAsleep
<1>10. QueuedOnce'
  BY <1>2 DEF QueuedOnce
<1>11. FoundAsleep'
  <2> SUFFICES ASSUME NEW h \in G, Dequeued(h)'
               PROVE  /\ found[h] \in G /\ spc'[found[h]] = "park"
                      /\ spc'[h] = "handoff" => ~ticket'[found[h]]
                      /\ \A a \in Addr : \A i \in DOMAIN waitq[a] : waitq[a][i] # found[h]
    BY <1>2 DEF FoundAsleep
  <2>1. Dequeued(h)
    BY <1>1, <1>2 DEF Dequeued
  <2>2. found[h] \in G /\ spc[found[h]] = "park" /\ (spc[h] = "handoff" => ~ticket[found[h]])
        /\ \A a \in Addr : \A i \in DOMAIN waitq[a] : waitq[a][i] # found[h]
    BY <2>1 DEF FoundAsleep
  <2>3. spc'[h] = "handoff" => h # g /\ spc[h] = "handoff" /\ found[h] # x
    BY <1>1, <1>4, <2>1
  <2> QED BY <1>6, <1>8, <2>2, <2>3
<1>12. FoundOnce'
  BY <1>1, <1>2 DEF FoundOnce, Dequeued
<1>13. TicketFresh'
  BY <1>1, <1>4, <1>6 DEF TicketFresh
<1>14. RootLocked'
  BY <1>1, <1>2 DEF RootLocked
<1> QED BY <1>7, <1>9, <1>10, <1>11, <1>12, <1>13, <1>14

\* Readying the waiter it found: nobody else knows of that waiter.
LEMMA SemaReadyKeeps ==
  ASSUME SemaInvariant, NEW g \in G, semReady(g)
  PROVE  SemaInvariant'
<1> USE DEF SemaInvariant
<1>1. spc[g] = "ready" /\ UNCHANGED <<val, nwait, rootlock, waitq, addr, flag, ticket>>
      /\ found' = [found EXCEPT ![g] = NoG]
  BY DEF semReady
<1>2. PICK x \in G : x = found[g]
  BY <1>1 DEF FoundAsleep, Dequeued
<1>3. /\ spc[x] = "park" /\ x # g
      /\ \A a \in Addr : \A i \in DOMAIN waitq[a] : waitq[a][i] # x
      /\ \A h \in G : h # g /\ Dequeued(h) => found[h] # x
  <2>1. Dequeued(g)
    BY <1>1 DEF Dequeued
  <2> QED BY <1>1, <1>2, <2>1 DEF FoundAsleep, FoundOnce
<1>4. /\ spc' \in [G -> SPC] /\ spc'[x] = "retry" /\ spc'[g] = "released"
      /\ \A h \in G : h # g /\ h # x => spc'[h] = spc[h]
  BY <1>2, <1>3 DEF semReady, SemaTypeOK, SPC
<1>5. found' \in [G -> G \cup {NoG}] /\ \A h \in G : h # g => found'[h] = found[h]
  BY <1>1 DEF SemaTypeOK
<1>6. SemaTypeOK'
  BY <1>1, <1>4, <1>5 DEF SemaTypeOK
<1>7. \A h \in G : spc[h] = "park" /\ h # x => spc'[h] = "park"
  BY <1>1, <1>4
<1>8. QueuedAsleep'
  BY <1>1, <1>3, <1>7, QueuedAreG DEF QueuedAsleep
<1>9. QueuedOnce'
  BY <1>1 DEF QueuedOnce
<1>10. \A h \in G : Dequeued(h)' => Dequeued(h) /\ h # g /\ spc'[h] = spc[h]
                                   /\ found'[h] = found[h] /\ found[h] # x
  BY <1>3, <1>4, <1>5 DEF Dequeued
<1>11. FoundAsleep'
  BY <1>1, <1>7, <1>10 DEF FoundAsleep
<1>12. FoundOnce'
  BY <1>10 DEF FoundOnce
<1>13. TicketFresh'
  BY <1>1, <1>4 DEF TicketFresh
<1>14. RootLocked'
  BY <1>1, <1>4 DEF RootLocked
<1> QED BY <1>6, <1>8, <1>9, <1>11, <1>12, <1>13, <1>14

-----------------------------------------------------------------------------
\* Every step of semacquire1 and semrelease1 keeps the invariant, whoever
\* calls them and whatever else the callers do.
THEOREM SemaStepKeeps ==
  ASSUME SemaInvariant, NEW g \in G, SemaStep(g)
  PROVE  SemaInvariant'
BY SemaEasyKeeps, SemaLockKeeps, SemaCheckKeeps, SemaUndoKeeps, SemaQueueKeeps,
   SemaRetryKeeps, SemaXaddKeeps, SemaNwaitKeeps, SemaDequeueKeeps,
   SemaHandoffKeeps, SemaReadyKeeps
   DEF SemaStep

=============================================================================
