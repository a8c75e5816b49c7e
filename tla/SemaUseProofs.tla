--------------------------- MODULE SemaUseProofs ----------------------------
(***************************************************************************)
(* SemaInvariant holds however goroutines use the semaphores of a root, no *)
(* wakeup is lost and no unit is created, lost or moved to another word.   *)
(***************************************************************************)
EXTENDS SemaUse, SemaProofs, FiniteSetTheorems

\* Every step of a goroutine that uses semaphores keeps the invariant.
LEMMA UseStepKeeps ==
  ASSUME SemaInvariant, [Next]_useVars
  PROVE  SemaInvariant'
<1>1. CASE UNCHANGED useVars
  BY <1>1 DEF useVars, semaVars, SemaInvariant, SemaTypeOK, QueuedAsleep, QueuedOnce,
              FoundAsleep, FoundOnce, Dequeued, TicketFresh, RootLocked
<1>2. ASSUME NEW g \in G, Acquire(g) PROVE SemaInvariant'
  BY <1>2, SemaCallKeeps DEF Acquire, semacquire1
<1>3. ASSUME NEW g \in G, Release(g) PROVE SemaInvariant'
  BY <1>3, SemaCallKeeps DEF Release, semrelease1
<1>4. ASSUME NEW g \in G, Finish(g) PROVE SemaInvariant'
  BY <1>4, SemaReturnKeeps DEF Finish
<1>5. ASSUME NEW g \in G, SemaStep(g) PROVE SemaInvariant'
  BY <1>5, SemaStepKeeps
<1> QED BY <1>1, <1>2, <1>3, <1>4, <1>5 DEF Next, Run

\* In every use of the semaphores of a root, a goroutine is in at most one wait
\* list and once, only asleep; the waiter a semrelease1 has dequeued stays
\* asleep, without a ticket, until that very call readies it, and no other call
\* has it; and the section of semacquire1 under root.lock is exclusive.
THEOREM SemaCorrect == Spec => []SemaInvariant
<1>1. Init => SemaInvariant
  BY SemaInitInvariant DEF Init
<1>2. SemaInvariant /\ [Next]_useVars => SemaInvariant'
  BY UseStepKeeps
<1> QED BY <1>1, <1>2, PTL DEF Spec

-----------------------------------------------------------------------------
(* No wakeup is lost and no unit is lost, for every root and every use.    *)

\* A waiter is in the list of its own address, and a release has dequeued one
\* that waits on the address it released to.
SameAddr ==
  /\ \A a \in Addr : \A i \in DOMAIN waitq[a] : addr[waitq[a][i]] = a
  /\ \A g \in G : Dequeued(g) => addr[found[g]] = addr[g]

\* root.nwait counts exactly those in a list and those in semacquire1's section
\* under root.lock.
InQueue(g) == \E a \in Addr : \E i \in DOMAIN waitq[a] : waitq[a][i] = g
Counted    == {g \in G : spc[g] \in {"check", "undo", "queue"} \/ InQueue(g)}
NwaitExact == nwait = Cardinality(Counted)

\* NoLostWakeup already holds for those who have looked a second time and are
\* about to enter the list.
Sleepy(a)    == waitq[a] # <<>> \/ \E g \in G : spc[g] = "queue" /\ addr[g] = a
UnitsCarried == \A a \in Addr : Sleepy(a) => val[a] <= Cardinality(Carriers(a))

CallsOK == acquired \in [Addr -> Nat] /\ released \in [Addr -> Nat]

UInv == SemaInvariant /\ SameAddr /\ NwaitExact /\ UnitsCarried /\ CallsOK /\ Conserved

\* Two sets of goroutines that differ at most at one goroutine.
LEMMA DifferAtOne ==
  ASSUME NEW S \in SUBSET G, NEW T \in SUBSET G, NEW x, S \ {x} = T \ {x}
  PROVE  /\ Cardinality(S) \in Nat /\ Cardinality(T) \in Nat
         /\ (x \in S <=> x \in T) => Cardinality(T) = Cardinality(S)
         /\ x \notin S /\ x \in T => Cardinality(T) = Cardinality(S) + 1
         /\ x \in S /\ x \notin T => Cardinality(T) = Cardinality(S) - 1
<1>1. IsFiniteSet(S) /\ IsFiniteSet(T)
  BY UseAssumption, FS_Subset
<1>2. Cardinality(S) \in Nat /\ Cardinality(T) \in Nat
  BY <1>1, FS_CardinalityType
<1>3. CASE x \in S <=> x \in T
  <2>1. S = T
    BY <1>3
  <2> QED BY <2>1, <1>2, <1>3
<1>4. CASE x \notin S /\ x \in T
  <2>1. T = S \cup {x}
    BY <1>4
  <2> QED BY <2>1, <1>1, <1>2, <1>4, FS_AddElement
<1>5. CASE x \in S /\ x \notin T
  <2>1. T = S \ {x}
    BY <1>5
  <2> QED BY <2>1, <1>1, <1>2, <1>5, FS_RemoveElement
<1> QED BY <1>3, <1>4, <1>5

\* The sets that are counted are sets of goroutines.
LEMMA CountType ==
  /\ \A a : Carriers(a) \in SUBSET G /\ Wanting(a) \in SUBSET G /\ Adding(a) \in SUBSET G
  /\ Counted \in SUBSET G
  /\ \A a : (Carriers(a) \in SUBSET G)' /\ (Wanting(a) \in SUBSET G)' /\ (Adding(a) \in SUBSET G)'
  /\ (Counted \in SUBSET G)'
BY DEF Carriers, Wanting, Adding, Counted

\* A step in which g, awake and with no waiter at hand before or after, moves
\* alone: it changes who is counted at g only.
Alone(g) ==
  /\ spc[g] \notin {"park", "handoff", "ready"} /\ spc'[g] \notin {"handoff", "ready"}
  /\ \A h \in G \ {g} : spc'[h] = spc[h] /\ addr'[h] = addr[h] /\ ticket'[h] = ticket[h]
  /\ UNCHANGED found

LEMMA AloneSets ==
  ASSUME SemaInvariant, NEW g \in G, Alone(g)
  PROVE  \A a \in Addr : /\ Carriers(a)' \ {g} = Carriers(a) \ {g}
                         /\ Wanting(a)' \ {g} = Wanting(a) \ {g}
                         /\ Adding(a)' \ {g} = Adding(a) \ {g}
<1>1. \A h \in G : Dequeued(h) => h # g /\ found[h] \in G \ {g}
  BY DEF SemaInvariant, FoundAsleep, Dequeued, Alone
<1>2. \A h \in G \ {g} : Dequeued(h) => ticket'[found'[h]] = ticket[found[h]]
  BY <1>1 DEF Alone
<1>3. \A a \in Addr : \A h \in G \ {g} : h \in Carriers(a)' <=> h \in Carriers(a)
  BY <1>2 DEF Carriers, Alone, Dequeued
<1>4. \A a \in Addr : \A h \in G \ {g} : h \in Wanting(a)' <=> h \in Wanting(a)
  BY DEF Wanting, Waiting, Alone
<1>5. \A a \in Addr : \A h \in G \ {g} : h \in Adding(a)' <=> h \in Adding(a)
  BY DEF Adding, Alone
<1> QED BY <1>3, <1>4, <1>5, CountType

LEMMA AloneSame ==
  ASSUME SemaInvariant, SameAddr, NEW g \in G, Alone(g), UNCHANGED waitq
  PROVE  SameAddr'
<1>1. \A h \in G : Dequeued(h) => h # g /\ found[h] \in G \ {g}
  BY DEF SemaInvariant, FoundAsleep, Dequeued, Alone
<1>2. \A a \in Addr : \A i \in DOMAIN waitq[a] : waitq[a][i] \in G \ {g}
  BY QueuedAreG DEF SemaInvariant, QueuedAsleep, Alone
<1>3. \A h \in G : Dequeued(h)' => h # g /\ Dequeued(h)
  BY DEF Dequeued, Alone
<1> QED BY <1>1, <1>2, <1>3 DEF SameAddr, Alone

\* ... so nwait stays exact when it goes with g's own place.
LEMMA AloneNwait ==
  ASSUME SemaInvariant, NwaitExact, NEW g \in G, Alone(g), UNCHANGED waitq,
         nwait' = nwait + (IF spc'[g] \in {"check", "undo", "queue"} THEN 1 ELSE 0)
                        - (IF spc[g] \in {"check", "undo", "queue"} THEN 1 ELSE 0)
  PROVE  NwaitExact'
<1>1. ~InQueue(g) /\ \A h : InQueue(h)' <=> InQueue(h)
  BY DEF SemaInvariant, QueuedAsleep, Alone, InQueue
<1>2. \A h \in G \ {g} : h \in Counted' <=> h \in Counted
  BY <1>1 DEF Counted, Alone
<1>3. Counted \ {g} = Counted' \ {g}
  BY <1>2, CountType
<1>4. /\ g \in Counted <=> spc[g] \in {"check", "undo", "queue"}
      /\ g \in Counted' <=> spc'[g] \in {"check", "undo", "queue"}
  BY <1>1 DEF Counted
<1>5. Cardinality(Counted') = nwait'
  BY <1>3, <1>4, CountType, DifferAtOne DEF NwaitExact
<1> QED BY <1>5 DEF NwaitExact

\* Somebody who sleeps, or is about to, is counted in nwait.
LEMMA SleepyCounted ==
  ASSUME SemaInvariant, NwaitExact, NEW a \in Addr, Sleepy(a)
  PROVE  nwait > 0
<1>1. \E g \in G : g \in Counted
  <2>1. CASE waitq[a] # <<>>
    <3>1. waitq[a] \in Seq(G) /\ 1 \in DOMAIN waitq[a] /\ waitq[a][1] \in G
      BY <2>1 DEF SemaInvariant, SemaTypeOK
    <3> QED BY <3>1 DEF Counted, InQueue
  <2>2. CASE \E g \in G : spc[g] = "queue" /\ addr[g] = a
    BY <2>2 DEF Counted
  <2> QED BY <2>1, <2>2 DEF Sleepy
<1>2. IsFiniteSet(Counted) /\ Counted # {}
  BY <1>1, CountType, UseAssumption, FS_Subset
<1>3. Cardinality(Counted) \in Nat /\ Cardinality(Counted) # 0
  BY <1>2, FS_CardinalityType, FS_EmptySet
<1> QED BY <1>3 DEF NwaitExact

\* How the numbers of those counted on an address follow g's own place.
LEMMA AloneCards ==
  ASSUME SemaInvariant, NEW g \in G, Alone(g), NEW a \in Addr
  PROVE  /\ Cardinality(Carriers(a)) \in Nat /\ Cardinality(Carriers(a)') \in Nat
         /\ (g \in Carriers(a) <=> g \in Carriers(a)') =>
              Cardinality(Carriers(a)') = Cardinality(Carriers(a))
         /\ g \notin Carriers(a) /\ g \in Carriers(a)' =>
              Cardinality(Carriers(a)') = Cardinality(Carriers(a)) + 1
         /\ g \in Carriers(a) /\ g \notin Carriers(a)' =>
              Cardinality(Carriers(a)') = Cardinality(Carriers(a)) - 1
         /\ Cardinality(Wanting(a)) \in Nat /\ Cardinality(Wanting(a)') \in Nat
         /\ (g \in Wanting(a) <=> g \in Wanting(a)') =>
              Cardinality(Wanting(a)') = Cardinality(Wanting(a))
         /\ g \notin Wanting(a) /\ g \in Wanting(a)' =>
              Cardinality(Wanting(a)') = Cardinality(Wanting(a)) + 1
         /\ g \in Wanting(a) /\ g \notin Wanting(a)' =>
              Cardinality(Wanting(a)') = Cardinality(Wanting(a)) - 1
         /\ Cardinality(Adding(a)) \in Nat /\ Cardinality(Adding(a)') \in Nat
         /\ (g \in Adding(a) <=> g \in Adding(a)') =>
              Cardinality(Adding(a)') = Cardinality(Adding(a))
         /\ g \notin Adding(a) /\ g \in Adding(a)' =>
              Cardinality(Adding(a)') = Cardinality(Adding(a)) + 1
         /\ g \in Adding(a) /\ g \notin Adding(a)' =>
              Cardinality(Adding(a)') = Cardinality(Adding(a)) - 1
<1>1. /\ Carriers(a) \ {g} = Carriers(a)' \ {g} /\ Wanting(a) \ {g} = Wanting(a)' \ {g}
      /\ Adding(a) \ {g} = Adding(a)' \ {g}
  BY AloneSets
<1>2. /\ Carriers(a) \in SUBSET G /\ Carriers(a)' \in SUBSET G
      /\ Wanting(a) \in SUBSET G /\ Wanting(a)' \in SUBSET G
      /\ Adding(a) \in SUBSET G /\ Adding(a)' \in SUBSET G
  BY CountType
<1> QED BY <1>1, <1>2, DifferAtOne

\* A step of g alone in which the words and the calls of a change as g's place
\* does keeps the account of a's units.
LEMMA AloneUnits ==
  ASSUME SemaInvariant, CallsOK, Conserved, UnitsCarried, NEW g \in G, Alone(g),
         val' \in [Addr -> Nat], CallsOK',
         \A a \in Addr :
           /\ val'[a] = val[a] + (released'[a] - released[a])
                               + (IF g \in Adding(a) THEN 1 ELSE 0)
                               - (IF g \in Adding(a)' THEN 1 ELSE 0)
                               - (acquired'[a] - acquired[a])
                               - (IF g \in Wanting(a) THEN 1 ELSE 0)
                               + (IF g \in Wanting(a)' THEN 1 ELSE 0)
           /\ Sleepy(a)' =>
                \/ val'[a] = 0
                \/ /\ Sleepy(a)
                   /\ val'[a] <= val[a] + (IF g \in Carriers(a)' THEN 1 ELSE 0)
                                        - (IF g \in Carriers(a) THEN 1 ELSE 0)
  PROVE  Conserved' /\ UnitsCarried'
<1>1. ASSUME NEW a \in Addr
      PROVE  released'[a] - Cardinality(Adding(a)') =
               (acquired'[a] - Cardinality(Wanting(a)')) + val'[a]
  <2>1. val[a] \in Nat /\ val'[a] \in Nat /\ released[a] \in Nat /\ released'[a] \in Nat
        /\ acquired[a] \in Nat /\ acquired'[a] \in Nat
    BY DEF SemaInvariant, SemaTypeOK, CallsOK
  <2>2. released[a] - Cardinality(Adding(a)) = (acquired[a] - Cardinality(Wanting(a))) + val[a]
    BY DEF Conserved
  <2> QED BY <2>1, <2>2, AloneCards
<1>2. ASSUME NEW a \in Addr, Sleepy(a)' PROVE val'[a] <= Cardinality(Carriers(a)')
  <2>1. val[a] \in Nat /\ val'[a] \in Nat
    BY DEF SemaInvariant, SemaTypeOK
  <2>2. Sleepy(a) => val[a] <= Cardinality(Carriers(a))
    BY DEF UnitsCarried
  <2> QED BY <1>2, <2>1, <2>2, AloneCards
<1> QED BY <1>1, <1>2 DEF Conserved, UnitsCarried

\* Nobody new is about to sleep unless it is g.
LEMMA AloneSleepy ==
  ASSUME NEW g \in G, Alone(g), UNCHANGED waitq, NEW a \in Addr, Sleepy(a)'
  PROVE  Sleepy(a) \/ (spc'[g] = "queue" /\ addr'[g] = a)
BY DEF Sleepy, Alone

LEMMA CallKeeps ==
  ASSUME UInv, NEW g \in G, Acquire(g) \/ Release(g)
  PROVE  UInv'
<1>1. SemaInvariant /\ SemaTypeOK /\ CallsOK
  BY DEF UInv, SemaInvariant
<1>2. SemaInvariant'
  BY <1>1, UseStepKeeps DEF Next
<1>3. PICK a \in Addr, b \in BOOLEAN, l \in {"easy", "xadd"} :
        /\ SemCall(g, l, a, b)
        /\ l = "easy" => acquired' = [acquired EXCEPT ![a] = @ + 1] /\ UNCHANGED released
        /\ l = "xadd" => released' = [released EXCEPT ![a] = @ + 1] /\ UNCHANGED acquired
  BY DEF Acquire, Release, semacquire1, semrelease1
<1>4. /\ spc[g] = "idle" /\ spc'[g] = l /\ addr'[g] = a
      /\ \A h \in G \ {g} : spc'[h] = spc[h] /\ addr'[h] = addr[h]
      /\ UNCHANGED <<val, nwait, rootlock, waitq, ticket, found>>
  BY <1>1, <1>3 DEF SemCall, SGoto, SemaTypeOK
<1>5. Alone(g)
  BY <1>4 DEF Alone
<1>6. SameAddr' /\ NwaitExact'
  <2>1. nwait' = nwait + (IF spc'[g] \in {"check", "undo", "queue"} THEN 1 ELSE 0)
                       - (IF spc[g] \in {"check", "undo", "queue"} THEN 1 ELSE 0)
    BY <1>1, <1>4 DEF SemaTypeOK
  <2> QED BY <1>1, <1>4, <1>5, <2>1, AloneSame, AloneNwait DEF UInv
<1>7. CallsOK'
  BY <1>1, <1>3 DEF CallsOK
<1>8. \A c \in Addr :
        /\ g \notin Carriers(c) /\ g \notin Carriers(c)'
        /\ g \notin Wanting(c) /\ (g \in Wanting(c)' <=> l = "easy" /\ c = a)
        /\ g \notin Adding(c) /\ (g \in Adding(c)' <=> l = "xadd" /\ c = a)
  BY <1>4 DEF Carriers, Wanting, Waiting, Adding
<1>9. \A c \in Addr : Sleepy(c)' => Sleepy(c)
  BY <1>4, <1>5, AloneSleepy
<1>10. \A c \in Addr : /\ acquired[c] \in Nat /\ released[c] \in Nat /\ val[c] \in Nat
                       /\ val'[c] = val[c]
                       /\ acquired'[c] = acquired[c] + (IF l = "easy" /\ c = a THEN 1 ELSE 0)
                       /\ released'[c] = released[c] + (IF l = "xadd" /\ c = a THEN 1 ELSE 0)
  BY <1>1, <1>3, <1>4 DEF CallsOK, SemaTypeOK
<1>11. val' \in [Addr -> Nat]
  BY <1>1, <1>4 DEF SemaTypeOK
<1>12. \A c \in Addr :
           /\ val'[c] = val[c] + (released'[c] - released[c])
                               + (IF g \in Adding(c) THEN 1 ELSE 0)
                               - (IF g \in Adding(c)' THEN 1 ELSE 0)
                               - (acquired'[c] - acquired[c])
                               - (IF g \in Wanting(c) THEN 1 ELSE 0)
                               + (IF g \in Wanting(c)' THEN 1 ELSE 0)
           /\ val'[c] <= val[c] + (IF g \in Carriers(c)' THEN 1 ELSE 0)
                                - (IF g \in Carriers(c) THEN 1 ELSE 0)
  BY <1>8, <1>10
<1>13. Conserved' /\ UnitsCarried'
  BY <1>1, <1>4, <1>5, <1>7, <1>9, <1>11, <1>12, AloneUnits DEF UInv
<1> QED BY <1>2, <1>6, <1>7, <1>13 DEF UInv

\* g is one of the Carriers of its address.
Carries(g) == \/ spc[g] \in {"nwait", "dequeue", "handoff"}
              \/ spc[g] = "ready" /\ ~ticket[found[g]]
              \/ spc[g] = "retry" /\ ~ticket[g]

\* A step of g alone inside its call: it adds k units to its word, and k goes
\* with what g has or lacks before and after.
LEMMA StepUnits ==
  ASSUME UInv, NEW g \in G, Alone(g), UNCHANGED <<addr, acquired, released>>,
         NEW k \in {-1, 0, 1}, val' = [val EXCEPT ![addr[g]] = @ + k], val' \in [Addr -> Nat],
         k = (IF spc[g] = "xadd" THEN 1 ELSE 0) - (IF Waiting(g) THEN 1 ELSE 0)
               + (IF Waiting(g)' THEN 1 ELSE 0),
         spc'[g] # "xadd",
         \A a \in Addr \ {addr[g]} : Sleepy(a)' => Sleepy(a),
         \/ ~Sleepy(addr[g])'
         \/ val'[addr[g]] = 0
         \/ Sleepy(addr[g]) /\ k <= (IF Carries(g)' THEN 1 ELSE 0) - (IF Carries(g) THEN 1 ELSE 0)
  PROVE  CallsOK' /\ Conserved' /\ UnitsCarried'
<1>1. CallsOK /\ CallsOK' /\ SemaInvariant /\ SemaTypeOK
  BY DEF UInv, CallsOK, SemaInvariant
<1>2. addr[g] \in Addr
  BY <1>1 DEF SemaTypeOK
<1>3. \A a \in Addr :
        /\ g \in Adding(a) <=> a = addr[g] /\ spc[g] = "xadd"
        /\ g \notin Adding(a)'
        /\ g \in Wanting(a) <=> a = addr[g] /\ Waiting(g)
        /\ g \in Wanting(a)' <=> a = addr[g] /\ Waiting(g)'
        /\ g \in Carriers(a) <=> a = addr[g] /\ Carries(g)
        /\ g \in Carriers(a)' <=> a = addr[g] /\ Carries(g)'
  BY DEF Adding, Wanting, Carriers, Carries
<1>4. \A a \in Addr : /\ val[a] \in Nat /\ val'[a] \in Nat
                      /\ val'[a] = val[a] + (IF a = addr[g] THEN k ELSE 0)
                      /\ acquired[a] \in Nat /\ acquired'[a] - acquired[a] = 0
                      /\ released[a] \in Nat /\ released'[a] - released[a] = 0
  <2> TAKE a \in Addr
  <2>1. val[a] \in Nat /\ val'[a] \in Nat /\ acquired[a] \in Nat /\ released[a] \in Nat
    BY <1>1 DEF SemaTypeOK, CallsOK
  <2>2. val'[a] = IF a = addr[g] THEN val[a] + k ELSE val[a]
    BY <1>1 DEF SemaTypeOK
  <2>3. acquired'[a] = acquired[a] /\ released'[a] = released[a]
    OBVIOUS
  <2> QED BY <2>1, <2>2, <2>3
<1>5. \A a \in Addr :
        val'[a] = val[a] + (released'[a] - released[a])
                         + (IF g \in Adding(a) THEN 1 ELSE 0)
                         - (IF g \in Adding(a)' THEN 1 ELSE 0)
                         - (acquired'[a] - acquired[a])
                         - (IF g \in Wanting(a) THEN 1 ELSE 0)
                         + (IF g \in Wanting(a)' THEN 1 ELSE 0)
  BY <1>3, <1>4
<1>6. \A a \in Addr : Sleepy(a)' =>
        \/ val'[a] = 0
        \/ /\ Sleepy(a)
           /\ val'[a] <= val[a] + (IF g \in Carriers(a)' THEN 1 ELSE 0)
                                - (IF g \in Carriers(a) THEN 1 ELSE 0)
  BY <1>2, <1>3, <1>4
<1> QED BY <1>1, <1>5, <1>6, AloneUnits DEF UInv

\* ... and when it leaves the lists as they are.
LEMMA StepKeeps ==
  ASSUME UInv, NEW g \in G, Alone(g), UNCHANGED <<waitq, addr, acquired, released>>,
         NEW k \in {-1, 0, 1}, val' = [val EXCEPT ![addr[g]] = @ + k], SemaInvariant',
         k = (IF spc[g] = "xadd" THEN 1 ELSE 0) - (IF Waiting(g) THEN 1 ELSE 0)
               + (IF Waiting(g)' THEN 1 ELSE 0),
         spc'[g] # "xadd",
         spc'[g] = "queue" => val'[addr[g]] = 0,
         \/ ~Sleepy(addr[g])
         \/ val'[addr[g]] = 0
         \/ k <= (IF Carries(g)' THEN 1 ELSE 0) - (IF Carries(g) THEN 1 ELSE 0),
         nwait' = nwait + (IF spc'[g] \in {"check", "undo", "queue"} THEN 1 ELSE 0)
                        - (IF spc[g] \in {"check", "undo", "queue"} THEN 1 ELSE 0)
  PROVE  UInv'
<1>1. SemaInvariant /\ SameAddr /\ NwaitExact /\ addr[g] \in Addr /\ addr'[g] = addr[g]
  BY DEF UInv, SemaInvariant, SemaTypeOK
<1>2. SameAddr' /\ NwaitExact'
  BY <1>1, AloneSame, AloneNwait
<1>3. \A a \in Addr : Sleepy(a)' => Sleepy(a) \/ (spc'[g] = "queue" /\ addr[g] = a)
  BY <1>1, AloneSleepy
<1>4. val' \in [Addr -> Nat]
  BY DEF SemaInvariant, SemaTypeOK
<1>5. \A a \in Addr \ {addr[g]} : Sleepy(a)' => Sleepy(a)
  BY <1>3
<1>6. \/ ~Sleepy(addr[g])'
      \/ val'[addr[g]] = 0
      \/ Sleepy(addr[g]) /\ k <= (IF Carries(g)' THEN 1 ELSE 0) - (IF Carries(g) THEN 1 ELSE 0)
  BY <1>1, <1>3
<1>7. CallsOK' /\ Conserved' /\ UnitsCarried'
  BY <1>4, <1>5, <1>6, StepUnits
<1> QED BY <1>2, <1>7 DEF UInv

\* The words after a step that leaves them alone or takes a unit.
LEMMA WordStep ==
  ASSUME SemaTypeOK, NEW g \in G
  PROVE  /\ UNCHANGED val => val' = [val EXCEPT ![addr[g]] = @ + 0]
         /\ Take(g) => val' = [val EXCEPT ![addr[g]] = @ + (-1)]
         /\ addr[g] \in Addr /\ val[addr[g]] \in Nat
BY DEF SemaTypeOK, Take

\* A step that moves g's control, and nothing of another goroutine.
LEMMA GotoAlone ==
  ASSUME SemaTypeOK, NEW g \in G, NEW l \in SPC \ {"handoff", "ready"}, SGoto(g, l),
         spc[g] \notin {"park", "handoff", "ready"},
         UNCHANGED <<addr, found>>,
         UNCHANGED ticket \/ ticket' = [ticket EXCEPT ![g] = FALSE]
  PROVE  Alone(g) /\ spc'[g] = l
BY SGotoFact DEF Alone, SemaTypeOK

\* StepKeeps for a step that leaves the words alone, that takes a unit, and that
\* adds one.
UnderLock(g) == spc[g] \in {"check", "undo", "queue"}

LEMMA QuietKeeps ==
  ASSUME UInv, NEW g \in G, Alone(g), UNCHANGED <<val, waitq, addr, acquired, released>>,
         SemaInvariant', spc[g] # "xadd", spc'[g] # "xadd", Waiting(g) <=> Waiting(g)',
         spc'[g] = "queue" => val[addr[g]] = 0,
         Carries(g) /\ ~Carries(g)' => ~Sleepy(addr[g]) \/ val[addr[g]] = 0,
         (UnderLock(g) <=> UnderLock(g)') => nwait' = nwait,
         ~UnderLock(g) /\ UnderLock(g)' => nwait' = nwait + 1,
         UnderLock(g) /\ ~UnderLock(g)' => nwait' = nwait - 1
  PROVE  UInv'
<1>1. SemaTypeOK /\ nwait \in Nat
  BY DEF UInv, SemaInvariant, SemaTypeOK
<1>2. val' = [val EXCEPT ![addr[g]] = @ + 0] /\ val'[addr[g]] = val[addr[g]]
  BY <1>1, WordStep
<1>3. nwait' = nwait + (IF spc'[g] \in {"check", "undo", "queue"} THEN 1 ELSE 0)
                     - (IF spc[g] \in {"check", "undo", "queue"} THEN 1 ELSE 0)
  BY <1>1 DEF UnderLock
<1>4. 0 = (IF spc[g] = "xadd" THEN 1 ELSE 0) - (IF Waiting(g) THEN 1 ELSE 0)
            + (IF Waiting(g)' THEN 1 ELSE 0)
  OBVIOUS
<1>5. \/ ~Sleepy(addr[g])
      \/ val'[addr[g]] = 0
      \/ 0 <= (IF Carries(g)' THEN 1 ELSE 0) - (IF Carries(g) THEN 1 ELSE 0)
  BY <1>2
<1> QED BY <1>2, <1>3, <1>4, <1>5, StepKeeps

LEMMA TakeKeeps ==
  ASSUME UInv, NEW g \in G, Alone(g), UNCHANGED <<nwait, waitq, addr, acquired, released>>,
         SemaInvariant', Take(g), spc[g] # "xadd", spc'[g] \notin {"xadd", "queue"},
         Waiting(g), ~Waiting(g)', UnderLock(g) <=> UnderLock(g)'
  PROVE  UInv'
<1>1. SemaTypeOK /\ nwait \in Nat
  BY DEF UInv, SemaInvariant, SemaTypeOK
<1>2. val' = [val EXCEPT ![addr[g]] = @ + (-1)]
  BY <1>1, WordStep
<1>3. nwait' = nwait + (IF spc'[g] \in {"check", "undo", "queue"} THEN 1 ELSE 0)
                     - (IF spc[g] \in {"check", "undo", "queue"} THEN 1 ELSE 0)
  BY <1>1 DEF UnderLock
<1>4. -1 = (IF spc[g] = "xadd" THEN 1 ELSE 0) - (IF Waiting(g) THEN 1 ELSE 0)
             + (IF Waiting(g)' THEN 1 ELSE 0)
  OBVIOUS
<1>5. -1 <= (IF Carries(g)' THEN 1 ELSE 0) - (IF Carries(g) THEN 1 ELSE 0)
  OBVIOUS
<1>6. -1 \in {-1, 0, 1}
  OBVIOUS
<1> QED BY <1>2, <1>3, <1>4, <1>5, <1>6, StepKeeps

LEMMA AddKeeps ==
  ASSUME UInv, NEW g \in G, Alone(g), UNCHANGED <<nwait, waitq, addr, acquired, released>>,
         SemaInvariant', val' = [val EXCEPT ![addr[g]] = @ + 1],
         spc[g] = "xadd", spc'[g] = "nwait"
  PROVE  UInv'
<1>1. nwait \in Nat
  BY DEF UInv, SemaInvariant, SemaTypeOK
<1>2. nwait' = nwait + (IF spc'[g] \in {"check", "undo", "queue"} THEN 1 ELSE 0)
                     - (IF spc[g] \in {"check", "undo", "queue"} THEN 1 ELSE 0)
  BY <1>1
<1>3. ~Waiting(g) /\ ~Waiting(g)' /\ ~Carries(g) /\ Carries(g)'
  BY DEF Waiting, Carries
<1>4. 1 = (IF spc[g] = "xadd" THEN 1 ELSE 0) - (IF Waiting(g) THEN 1 ELSE 0)
            + (IF Waiting(g)' THEN 1 ELSE 0)
  BY <1>3
<1>5. 1 <= (IF Carries(g)' THEN 1 ELSE 0) - (IF Carries(g) THEN 1 ELSE 0)
  BY <1>3
<1>6. spc'[g] # "xadd" /\ spc'[g] # "queue"
  OBVIOUS
<1> QED BY <1>2, <1>4, <1>5, <1>6, StepKeeps

LEMMA EasyUnits ==
  ASSUME UInv, NEW g \in G, semEasy(g), UNCHANGED <<acquired, released>>
  PROVE  UInv'
<1>1. SemaInvariant /\ SemaTypeOK /\ SemaInvariant'
  BY SemaEasyKeeps DEF UInv, SemaInvariant
<1>2. spc[g] = "easy" /\ UNCHANGED <<nwait, waitq, addr, found>>
  BY DEF semEasy
<1>3. CASE val[addr[g]] > 0
  <2>1. Take(g) /\ SGoto(g, "acquired") /\ UNCHANGED ticket
    BY <1>3 DEF semEasy
  <2>2. Alone(g) /\ spc'[g] = "acquired"
    BY <1>1, <1>2, <2>1, GotoAlone DEF SPC
  <2>3. Waiting(g) /\ ~Waiting(g)' /\ ~UnderLock(g) /\ ~UnderLock(g)'
    BY <1>2, <2>2 DEF Waiting, UnderLock
  <2> QED BY <1>1, <1>2, <2>1, <2>2, <2>3, TakeKeeps
<1>4. CASE ~(val[addr[g]] > 0)
  <2>1. UNCHANGED val /\ SGoto(g, "lock") /\ ticket' = [ticket EXCEPT ![g] = FALSE]
    BY <1>4 DEF semEasy
  <2>2. Alone(g) /\ spc'[g] = "lock" /\ ~ticket'[g]
    BY <1>1, <1>2, <2>1, GotoAlone DEF SPC, SemaTypeOK
  <2>3. Waiting(g) /\ Waiting(g)' /\ ~Carries(g) /\ ~UnderLock(g) /\ ~UnderLock(g)'
    BY <1>2, <2>2 DEF Waiting, Carries, UnderLock
  <2> QED BY <1>1, <1>2, <2>1, <2>2, <2>3, QuietKeeps
<1> QED BY <1>3, <1>4

LEMMA LockUnits ==
  ASSUME UInv, NEW g \in G, semLock(g), UNCHANGED <<acquired, released>>
  PROVE  UInv'
<1>1. SemaInvariant /\ SemaTypeOK /\ SemaInvariant'
  BY SemaLockKeeps DEF UInv, SemaInvariant
<1>2. /\ spc[g] = "lock" /\ SGoto(g, "check") /\ nwait' = nwait + 1
      /\ UNCHANGED <<val, waitq, addr, ticket, found>>
  BY DEF semLock
<1>3. Alone(g) /\ spc'[g] = "check"
  BY <1>1, <1>2, GotoAlone DEF SPC
<1>4. ~Carries(g) /\ (Waiting(g) <=> Waiting(g)') /\ ~UnderLock(g) /\ UnderLock(g)'
  BY <1>2, <1>3 DEF Waiting, Carries, UnderLock
<1> QED BY <1>1, <1>2, <1>3, <1>4, QuietKeeps

\* The second look: whoever goes on to sleep has seen the word at zero under
\* root.lock, after it was counted in nwait.
LEMMA CheckUnits ==
  ASSUME UInv, NEW g \in G, semCheck(g), UNCHANGED <<acquired, released>>
  PROVE  UInv'
<1>1. SemaInvariant /\ SemaTypeOK /\ SemaInvariant'
  BY SemaCheckKeeps DEF UInv, SemaInvariant
<1>2. spc[g] = "check" /\ UNCHANGED <<nwait, waitq, addr, ticket, found>>
  BY DEF semCheck
<1>3. Waiting(g) /\ ~ticket[g] /\ ~Carries(g) /\ UnderLock(g)
  BY <1>1, <1>2 DEF SemaInvariant, TicketFresh, Waiting, Carries, UnderLock
<1>4. CASE val[addr[g]] > 0
  <2>1. Take(g) /\ SGoto(g, "undo")
    BY <1>4 DEF semCheck
  <2>2. Alone(g) /\ spc'[g] = "undo"
    BY <1>1, <1>2, <2>1, GotoAlone DEF SPC
  <2>3. ~Waiting(g)' /\ UnderLock(g)'
    BY <2>2 DEF Waiting, UnderLock
  <2> QED BY <1>1, <1>2, <1>3, <2>1, <2>2, <2>3, TakeKeeps
<1>5. CASE ~(val[addr[g]] > 0)
  <2>1. UNCHANGED val /\ SGoto(g, "queue")
    BY <1>5 DEF semCheck
  <2>2. Alone(g) /\ spc'[g] = "queue"
    BY <1>1, <1>2, <2>1, GotoAlone DEF SPC
  <2>3. Waiting(g)' /\ UnderLock(g)'
    BY <1>2, <1>3, <2>2 DEF Waiting, UnderLock
  <2>4. val[addr[g]] = 0
    BY <1>1, <1>5, WordStep
  <2> QED BY <1>1, <1>2, <1>3, <2>1, <2>2, <2>3, <2>4, QuietKeeps
<1> QED BY <1>4, <1>5

LEMMA UndoUnits ==
  ASSUME UInv, NEW g \in G, semUndo(g), UNCHANGED <<acquired, released>>
  PROVE  UInv'
<1>1. SemaInvariant /\ SemaTypeOK /\ SemaInvariant'
  BY SemaUndoKeeps DEF UInv, SemaInvariant
<1>2. /\ spc[g] = "undo" /\ SGoto(g, "acquired") /\ nwait' = nwait - 1
      /\ UNCHANGED <<val, waitq, addr, ticket, found>>
  BY DEF semUndo
<1>3. Alone(g) /\ spc'[g] = "acquired"
  BY <1>1, <1>2, GotoAlone DEF SPC
<1>4. ~Carries(g) /\ ~Waiting(g)' /\ ~Waiting(g) /\ UnderLock(g) /\ ~UnderLock(g)'
  BY <1>2, <1>3 DEF Waiting, Carries, UnderLock
<1> QED BY <1>1, <1>2, <1>3, <1>4, QuietKeeps

LEMMA RetryUnits ==
  ASSUME UInv, NEW g \in G, semRetry(g), UNCHANGED <<acquired, released>>
  PROVE  UInv'
<1>1. SemaInvariant /\ SemaTypeOK /\ SemaInvariant'
  BY SemaRetryKeeps DEF UInv, SemaInvariant
<1>2. spc[g] = "retry" /\ UNCHANGED <<nwait, waitq, addr, ticket, found>> /\ ~UnderLock(g)
  BY DEF semRetry, UnderLock
<1>3. CASE ticket[g] /\ SGoto(g, "acquired") /\ UNCHANGED val
  <2>1. Alone(g) /\ spc'[g] = "acquired"
    BY <1>1, <1>2, <1>3, GotoAlone DEF SPC
  <2>2. ~Waiting(g) /\ ~Waiting(g)' /\ ~Carries(g) /\ ~UnderLock(g)'
    BY <1>2, <1>3, <2>1 DEF Waiting, Carries, UnderLock
  <2> QED BY <1>1, <1>2, <1>3, <2>1, <2>2, QuietKeeps
<1>4. CASE ~ticket[g] /\ val[addr[g]] > 0 /\ Take(g) /\ SGoto(g, "acquired")
  <2>1. Alone(g) /\ spc'[g] = "acquired"
    BY <1>1, <1>2, <1>4, GotoAlone DEF SPC
  <2>2. Waiting(g) /\ ~Waiting(g)' /\ ~UnderLock(g)'
    BY <1>2, <1>4, <2>1 DEF Waiting, UnderLock
  <2> QED BY <1>1, <1>2, <1>4, <2>1, <2>2, TakeKeeps
<1>5. CASE ~ticket[g] /\ val[addr[g]] = 0 /\ SGoto(g, "lock") /\ UNCHANGED val
  <2>1. Alone(g) /\ spc'[g] = "lock"
    BY <1>1, <1>2, <1>5, GotoAlone DEF SPC
  <2>2. Waiting(g) /\ Waiting(g)' /\ ~UnderLock(g)'
    BY <1>2, <1>5, <2>1 DEF Waiting, UnderLock
  <2> QED BY <1>1, <1>2, <1>5, <2>1, <2>2, QuietKeeps
<1> QED BY <1>3, <1>4, <1>5 DEF semRetry

LEMMA XaddUnits ==
  ASSUME UInv, NEW g \in G, semXadd(g), UNCHANGED <<acquired, released>>
  PROVE  UInv'
<1>1. SemaInvariant /\ SemaTypeOK /\ SemaInvariant'
  BY SemaXaddKeeps DEF UInv, SemaInvariant
<1>2. /\ spc[g] = "xadd" /\ SGoto(g, "nwait") /\ val' = [val EXCEPT ![addr[g]] = @ + 1]
      /\ UNCHANGED <<nwait, waitq, addr, ticket, found>>
  BY DEF semXadd
<1>3. Alone(g) /\ spc'[g] = "nwait"
  BY <1>1, <1>2, GotoAlone DEF SPC
<1> QED BY <1>1, <1>2, <1>3, AddKeeps

\* A release that reads nwait = 0 leaves its unit to nobody's loss: whoever
\* sleeps on its address, or has looked at the word for the last time, is
\* counted in nwait.
LEMMA NwaitUnits ==
  ASSUME UInv, NEW g \in G, semNwait(g), UNCHANGED <<acquired, released>>
  PROVE  UInv'
<1>1. SemaInvariant /\ SemaTypeOK /\ SemaInvariant' /\ NwaitExact /\ addr[g] \in Addr
  BY SemaNwaitKeeps DEF UInv, SemaInvariant, SemaTypeOK
<1>2. /\ spc[g] = "nwait" /\ UNCHANGED <<val, nwait, waitq, addr, ticket, found>>
      /\ ~UnderLock(g) /\ ~Waiting(g)
  BY DEF semNwait, UnderLock, Waiting
<1>3. CASE nwait = 0
  <2>1. SGoto(g, "released")
    BY <1>3 DEF semNwait
  <2>2. Alone(g) /\ spc'[g] = "released"
    BY <1>1, <1>2, <2>1, GotoAlone DEF SPC
  <2>3. ~Waiting(g)' /\ ~UnderLock(g)'
    BY <2>2 DEF Waiting, UnderLock
  <2>4. ~Sleepy(addr[g])
    BY <1>1, <1>3, SleepyCounted
  <2> QED BY <1>1, <1>2, <2>2, <2>3, <2>4, QuietKeeps
<1>4. CASE nwait # 0
  <2>1. SGoto(g, "dequeue")
    BY <1>4 DEF semNwait
  <2>2. Alone(g) /\ spc'[g] = "dequeue"
    BY <1>1, <1>2, <2>1, GotoAlone DEF SPC
  <2>3. ~Waiting(g)' /\ Carries(g)' /\ ~UnderLock(g)'
    BY <2>2 DEF Waiting, Carries, UnderLock
  <2> QED BY <1>1, <1>2, <2>2, <2>3, QuietKeeps
<1> QED BY <1>3, <1>4

LEMMA FinishUnits ==
  ASSUME UInv, NEW g \in G, Finish(g)
  PROVE  UInv'
<1>1. SemaInvariant /\ SemaTypeOK /\ SemaInvariant'
  BY SemaReturnKeeps DEF UInv, SemaInvariant, Finish
<1>2. /\ spc[g] \in {"acquired", "released"} /\ SGoto(g, "idle")
      /\ UNCHANGED <<val, nwait, waitq, addr, ticket, found, acquired, released>>
  BY DEF Finish, SemReturn
<1>3. Alone(g) /\ spc'[g] = "idle"
  BY <1>1, <1>2, GotoAlone DEF SPC
<1>4. ~Carries(g) /\ ~Waiting(g)' /\ ~Waiting(g) /\ ~UnderLock(g) /\ ~UnderLock(g)'
  BY <1>2, <1>3 DEF Waiting, Carries, UnderLock
<1> QED BY <1>1, <1>2, <1>3, <1>4, QuietKeeps

\* A list into which x was put holds x and whom it held before.
LEMMA PutMembers ==
  ASSUME NEW S, NEW q \in Seq(S), NEW x \in S, NEW r, r = <<x>> \o q \/ r = Append(q, x)
  PROVE  /\ \A i \in DOMAIN r : r[i] = x \/ \E j \in DOMAIN q : q[j] = r[i]
         /\ \A j \in DOMAIN q : \E i \in DOMAIN r : r[i] = q[j]
         /\ \E i \in DOMAIN r : r[i] = x
<1>1. CASE r = <<x>> \o q
  <2>1. /\ DOMAIN r = 1..(Len(q) + 1) /\ DOMAIN q = 1..Len(q) /\ Len(q) \in Nat
        /\ r[1] = x /\ \A j \in DOMAIN q : r[j + 1] = q[j]
    BY <1>1
  <2>2. \A i \in DOMAIN r : i = 1 \/ (i - 1 \in DOMAIN q /\ r[i] = q[i - 1])
    BY <2>1
  <2>3. \A j \in DOMAIN q : j + 1 \in DOMAIN r
    BY <2>1
  <2>4. 1 \in DOMAIN r
    BY <2>1
  <2> QED BY <2>1, <2>2, <2>3, <2>4
<1>2. CASE r = Append(q, x)
  <2>1. /\ DOMAIN r = 1..(Len(q) + 1) /\ DOMAIN q = 1..Len(q) /\ Len(q) \in Nat
        /\ r[Len(q) + 1] = x /\ \A j \in DOMAIN q : r[j] = q[j]
    BY <1>2
  <2>2. \A i \in DOMAIN r : i = Len(q) + 1 \/ i \in DOMAIN q
    BY <2>1
  <2>3. DOMAIN q \subseteq DOMAIN r /\ Len(q) + 1 \in DOMAIN r
    BY <2>1
  <2> QED BY <2>1, <2>2, <2>3
<1> QED BY <1>1, <1>2

LEMMA QueueUnits ==
  ASSUME UInv, NEW g \in G, semQueue(g), UNCHANGED <<acquired, released>>
  PROVE  UInv'
<1>1. SemaInvariant /\ SemaTypeOK /\ SemaInvariant' /\ SameAddr /\ NwaitExact
  BY SemaQueueKeeps DEF UInv, SemaInvariant
<1>2. /\ spc[g] = "queue" /\ SGoto(g, "park")
      /\ UNCHANGED <<val, nwait, addr, ticket, found>>
  BY DEF semQueue
<1>3. Alone(g) /\ spc'[g] = "park"
  BY <1>1, <1>2, GotoAlone DEF SPC
<1>4. PICK a \in Addr : a = addr[g]
  BY <1>1 DEF SemaTypeOK
<1>5. PICK r : /\ waitq' = [waitq EXCEPT ![a] = r]
               /\ r = <<g>> \o waitq[a] \/ r = Append(waitq[a], g)
  BY <1>1, <1>4 DEF semQueue, SemaTypeOK
<1>6. waitq'[a] = r /\ \A c \in Addr \ {a} : waitq'[c] = waitq[c]
  BY <1>1, <1>5 DEF SemaTypeOK
<1>7. /\ \A i \in DOMAIN r : r[i] = g \/ \E j \in DOMAIN waitq[a] : waitq[a][j] = r[i]
      /\ \A j \in DOMAIN waitq[a] : \E i \in DOMAIN r : r[i] = waitq[a][j]
      /\ \E i \in DOMAIN r : r[i] = g
  <2>1. PICK q \in Seq(G) : q = waitq[a]
    BY <1>1 DEF SemaTypeOK
  <2>2. r = <<g>> \o q \/ r = Append(q, g)
    BY <1>5, <2>1
  <2>3. /\ \A i \in DOMAIN r : r[i] = g \/ \E j \in DOMAIN q : q[j] = r[i]
        /\ \A j \in DOMAIN q : \E i \in DOMAIN r : r[i] = q[j]
        /\ \E i \in DOMAIN r : r[i] = g
    BY <2>2, PutMembers
  <2> QED BY <2>1, <2>3
<1>8. SameAddr'
  <2>1. ASSUME NEW c \in Addr, NEW i \in DOMAIN waitq'[c] PROVE addr[waitq'[c][i]] = c
    <3>1. CASE c = a
      <4>1. waitq'[c][i] = g \/ \E j \in DOMAIN waitq[a] : waitq[a][j] = waitq'[c][i]
        BY <1>6, <1>7, <2>1, <3>1
      <4> QED BY <1>1, <1>4, <3>1, <4>1 DEF SameAddr
    <3>2. CASE c # a
      BY <1>1, <1>6, <2>1, <3>2 DEF SameAddr
    <3> QED BY <3>1, <3>2
  <2>2. \A h \in G : Dequeued(h)' => h # g /\ Dequeued(h)
    BY <1>3 DEF Dequeued, Alone
  <2> QED BY <1>1, <1>2, <2>1, <2>2 DEF SameAddr
<1>9. NwaitExact'
  <2>1. \A h : InQueue(h)' <=> InQueue(h) \/ h = g
    <3> TAKE h
    <3>1. ASSUME InQueue(h)' PROVE InQueue(h) \/ h = g
      <4>1. PICK c \in Addr : \E i \in DOMAIN waitq'[c] : waitq'[c][i] = h
        BY <3>1 DEF InQueue
      <4>2. CASE c = a
        BY <1>6, <1>7, <4>1, <4>2 DEF InQueue
      <4>3. CASE c # a
        BY <1>6, <4>1, <4>3 DEF InQueue
      <4> QED BY <4>2, <4>3
    <3>2. ASSUME InQueue(h) PROVE InQueue(h)'
      <4>1. PICK c \in Addr : \E i \in DOMAIN waitq[c] : waitq[c][i] = h
        BY <3>2 DEF InQueue
      <4>2. CASE c = a
        BY <1>6, <1>7, <4>1, <4>2 DEF InQueue
      <4>3. CASE c # a
        BY <1>6, <4>1, <4>3 DEF InQueue
      <4> QED BY <4>2, <4>3
    <3>3. ASSUME h = g PROVE InQueue(h)'
      BY <1>6, <1>7, <3>3 DEF InQueue
    <3> QED BY <3>1, <3>2, <3>3
  <2>2. \A h \in G : h \in Counted' <=> h \in Counted
    BY <1>2, <1>3, <2>1 DEF Counted, Alone
  <2>3. Counted' = Counted
    BY <2>2, CountType
  <2> QED BY <1>1, <1>2, <2>3 DEF NwaitExact
<1>10. Sleepy(addr[g]) /\ \A c \in Addr \ {addr[g]} : Sleepy(c)' => Sleepy(c)
  BY <1>2, <1>3, <1>4, <1>6 DEF Sleepy, Alone
<1>11. ~ticket[g] /\ Waiting(g) /\ Waiting(g)' /\ ~Carries(g) /\ ~Carries(g)'
  BY <1>1, <1>2, <1>3 DEF SemaInvariant, TicketFresh, Waiting, Carries
<1>12. 0 = (IF spc[g] = "xadd" THEN 1 ELSE 0) - (IF Waiting(g) THEN 1 ELSE 0)
             + (IF Waiting(g)' THEN 1 ELSE 0)
  BY <1>2, <1>11
<1>13. 0 <= (IF Carries(g)' THEN 1 ELSE 0) - (IF Carries(g) THEN 1 ELSE 0)
  BY <1>11
<1>14. val' = [val EXCEPT ![addr[g]] = @ + 0] /\ val' \in [Addr -> Nat]
  BY <1>1, <1>2, WordStep DEF SemaTypeOK
<1>15. CallsOK' /\ Conserved' /\ UnitsCarried'
  BY <1>2, <1>3, <1>10, <1>12, <1>13, <1>14, StepUnits
<1> QED BY <1>1, <1>8, <1>9, <1>15 DEF UInv

\* A step that leaves everybody counted as before.
LEMMA SetsSame ==
  ASSUME UInv, UNCHANGED <<val, acquired, released>>,
         \A a \in Addr : /\ Adding(a)' = Adding(a) /\ Wanting(a)' = Wanting(a)
                         /\ Cardinality(Carriers(a)') = Cardinality(Carriers(a))
                         /\ Sleepy(a)' => Sleepy(a)
  PROVE  CallsOK' /\ Conserved' /\ UnitsCarried'
<1>1. CallsOK'
  BY DEF UInv, CallsOK
<1>2. Conserved'
  BY DEF UInv, Conserved
<1>3. UnitsCarried'
  BY DEF UInv, UnitsCarried
<1> QED BY <1>1, <1>2, <1>3

\* A release that finds no waiter under root.lock: nobody is in the section of
\* semacquire1 either, so nobody is about to sleep on its address.
LEMMA NoWaiterUnits ==
  ASSUME UInv, NEW g \in G, semDequeue(g), UNCHANGED <<acquired, released>>,
         nwait = 0 \/ waitq[addr[g]] = <<>>
  PROVE  UInv'
<1>1. SemaInvariant /\ SemaTypeOK /\ SemaInvariant' /\ NwaitExact /\ addr[g] \in Addr
  BY SemaDequeueKeeps DEF UInv, SemaInvariant, SemaTypeOK
<1>2. /\ spc[g] = "dequeue" /\ SGoto(g, "released") /\ rootlock = NoG
      /\ UNCHANGED <<val, nwait, waitq, addr, ticket, found>>
  BY DEF semDequeue
<1>3. Alone(g) /\ spc'[g] = "released"
  BY <1>1, <1>2, GotoAlone DEF SPC
<1>4. ~Waiting(g) /\ ~Waiting(g)' /\ ~UnderLock(g) /\ ~UnderLock(g)'
  BY <1>2, <1>3 DEF Waiting, UnderLock
<1>5. ~Sleepy(addr[g])
  <2>1. CASE nwait = 0
    BY <1>1, <2>1, SleepyCounted
  <2>2. CASE waitq[addr[g]] = <<>>
    BY <1>1, <1>2, <2>2, SemaAssumption DEF SemaInvariant, RootLocked, Sleepy
  <2> QED BY <2>1, <2>2
<1> QED BY <1>1, <1>2, <1>3, <1>4, <1>5, QuietKeeps

\* A list without its first holds whom it held but the first.
LEMMA TakeMembers ==
  ASSUME NEW q \in Seq(G), q # <<>>, \A i, j \in DOMAIN q : q[i] = q[j] => i = j
  PROVE  /\ \A i \in DOMAIN Tail(q) : /\ Tail(q)[i] # Head(q)
                                      /\ \E j \in DOMAIN q : q[j] = Tail(q)[i]
         /\ \A j \in DOMAIN q : q[j] # Head(q) => \E i \in DOMAIN Tail(q) : Tail(q)[i] = q[j]
<1>1. /\ Head(q) = q[1] /\ 1 \in DOMAIN q
      /\ \A i \in DOMAIN Tail(q) : i + 1 \in DOMAIN q /\ Tail(q)[i] = q[i + 1]
      /\ \A i \in DOMAIN Tail(q) : Tail(q)[i] # Head(q)
  BY TakeFirst
<1>2. \A i \in DOMAIN q : i # 1 => i - 1 \in DOMAIN Tail(q) /\ Tail(q)[i - 1] = q[i]
  OBVIOUS
<1> QED BY <1>1, <1>2

LEMMA DequeueUnits ==
  ASSUME UInv, NEW g \in G, semDequeue(g), UNCHANGED <<acquired, released>>
  PROVE  UInv'
<1>1. SemaInvariant /\ SemaTypeOK /\ SemaInvariant' /\ SameAddr /\ NwaitExact
  BY SemaDequeueKeeps DEF UInv, SemaInvariant
<1>2. CASE nwait = 0 \/ waitq[addr[g]] = <<>>
  BY <1>2, NoWaiterUnits
<1>3. CASE ~(nwait = 0 \/ waitq[addr[g]] = <<>>)
  <2>1. PICK a \in Addr : a = addr[g]
    BY <1>1 DEF SemaTypeOK
  <2>2. PICK q \in Seq(G) : q = waitq[a] /\ q # <<>>
    BY <1>1, <1>3, <2>1 DEF SemaTypeOK
  <2>3. \A i, j \in DOMAIN q : q[i] = q[j] => i = j
    BY <1>1, <2>2 DEF SemaInvariant, QueuedOnce
  <2>4. 1 \in DOMAIN q /\ Head(q) = q[1] /\ q[1] \in G
    BY <2>2
  <2>5. PICK x \in G : x = Head(q) /\ x = q[1]
    BY <2>4
  <2>51. PICK t : t = Tail(q)
    OBVIOUS
  <2>52. /\ \A i \in DOMAIN t : t[i] # x /\ \E j \in DOMAIN q : q[j] = t[i]
        /\ \A j \in DOMAIN q : q[j] # x => \E i \in DOMAIN t : t[i] = q[j]
    <3>1. /\ \A i \in DOMAIN Tail(q) : /\ Tail(q)[i] # Head(q)
                                       /\ \E j \in DOMAIN q : q[j] = Tail(q)[i]
          /\ \A j \in DOMAIN q : q[j] # Head(q) => \E i \in DOMAIN Tail(q) : Tail(q)[i] = q[j]
      BY <2>2, <2>3, TakeMembers
    <3> QED BY <2>5, <2>51, <3>1
  <2>6. spc[x] = "park" /\ ~ticket[x] /\ addr[x] = a
    BY <1>1, <2>2, <2>4, <2>5 DEF SemaInvariant, QueuedAsleep, SameAddr
  <2>7. /\ spc[g] = "dequeue" /\ SGoto(g, "handoff") /\ nwait' = nwait - 1
        /\ UNCHANGED <<val, addr>>
        /\ waitq' = [waitq EXCEPT ![a] = t]
        /\ ticket' = [ticket EXCEPT ![x] = FALSE] /\ found' = [found EXCEPT ![g] = x]
    BY <1>3, <2>1, <2>2, <2>5, <2>51 DEF semDequeue
  <2>8. UNCHANGED ticket
    BY <1>1, <2>6, <2>7 DEF SemaTypeOK
  <2>9. spc'[g] = "handoff" /\ \A h \in G \ {g} : spc'[h] = spc[h]
    BY <1>1, <2>7, SGotoFact DEF SPC
  <2>10. found'[g] = x /\ \A h \in G \ {g} : found'[h] = found[h]
    BY <1>1, <2>7 DEF SemaTypeOK
  <2>11. waitq'[a] = t /\ \A c \in Addr \ {a} : waitq'[c] = waitq[c]
    BY <1>1, <2>7 DEF SemaTypeOK
  <2>12. SameAddr'
    <3>1. \A c \in Addr : \A i \in DOMAIN waitq'[c] :
            \E j \in DOMAIN waitq[c] : waitq'[c][i] = waitq[c][j]
      BY <2>2, <2>52, <2>11
    <3>2. \A h \in G : Dequeued(h)' => h = g \/ Dequeued(h)
      BY <2>9 DEF Dequeued
    <3> QED BY <1>1, <2>1, <2>6, <2>7, <2>10, <3>1, <3>2 DEF SameAddr
  <2>13. NwaitExact'
    <3>2. \A h : InQueue(h) /\ h # x => InQueue(h)'
      <4> SUFFICES ASSUME NEW h, InQueue(h), h # x PROVE InQueue(h)'
        OBVIOUS
      <4>1. PICK c \in Addr : \E i \in DOMAIN waitq[c] : waitq[c][i] = h
        BY DEF InQueue
      <4>2. CASE c = a
        BY <2>2, <2>52, <2>11, <4>1, <4>2 DEF InQueue
      <4>3. CASE c # a
        BY <2>11, <4>1, <4>3 DEF InQueue
      <4> QED BY <4>2, <4>3
    <3>3. \A h : InQueue(h)' => InQueue(h) /\ h # x
      <4> SUFFICES ASSUME NEW h, InQueue(h)' PROVE InQueue(h) /\ h # x
        OBVIOUS
      <4>1. PICK c \in Addr : \E i \in DOMAIN waitq'[c] : waitq'[c][i] = h
        BY DEF InQueue
      <4>2. CASE c = a
        BY <2>2, <2>52, <2>11, <4>1, <4>2 DEF InQueue
      <4>3. CASE c # a
        <5>1. \A i \in DOMAIN waitq[c] : waitq[c][i] # q[1]
          BY <1>1, <2>2, <2>4, <4>3 DEF SemaInvariant, QueuedOnce
        <5> QED BY <2>4, <2>5, <2>11, <4>1, <4>3, <5>1 DEF InQueue
      <4> QED BY <4>2, <4>3
    <3>4. \A h \in G \ {x} : h \in Counted <=> h \in Counted'
      BY <2>7, <2>9, <3>2, <3>3 DEF Counted
    <3>5. x \in Counted
      BY <2>2, <2>4, <2>5 DEF Counted, InQueue
    <3>6. x # g /\ x \notin Counted'
      BY <2>6, <2>7, <2>9, <3>3 DEF Counted
    <3>7. Counted \ {x} = Counted' \ {x}
      BY <3>4, CountType
    <3>8. Cardinality(Counted') = Cardinality(Counted) - 1
      BY <3>5, <3>6, <3>7, CountType, DifferAtOne
    <3> QED BY <1>1, <2>7, <3>8 DEF NwaitExact
  <2>14. \A h \in G : Waiting(h)' <=> Waiting(h)
    BY <2>7, <2>8, <2>9 DEF Waiting
  <2>15. \A h \in G : Carries(h)' <=> Carries(h)
    BY <2>7, <2>8, <2>9, <2>10 DEF Carries
  <2>16. \A c \in Addr : /\ Adding(c)' = Adding(c) /\ Wanting(c)' = Wanting(c)
                         /\ Carriers(c)' = Carriers(c)
    <3>1. \A c \in Addr : Adding(c)' = Adding(c)
      BY <2>7, <2>9 DEF Adding
    <3>2. \A c \in Addr : Wanting(c)' = Wanting(c)
      BY <2>7, <2>14 DEF Wanting
    <3>3. \A c \in Addr : \A h \in G : h \in Carriers(c)' <=> h \in Carriers(c)
      BY <2>7, <2>15 DEF Carriers, Carries
    <3>4. \A c \in Addr : Carriers(c)' = Carriers(c)
      BY <3>3, CountType
    <3> QED BY <3>1, <3>2, <3>4
  <2>17. \A c \in Addr : Sleepy(c)' => Sleepy(c)
    BY <2>2, <2>7, <2>9, <2>11 DEF Sleepy
  <2>18. CallsOK' /\ Conserved' /\ UnitsCarried'
    BY <2>7, <2>16, <2>17, SetsSame
  <2> QED BY <1>1, <2>12, <2>13, <2>18 DEF UInv
<1> QED BY <1>2, <1>3

LEMMA HandoffUnits ==
  ASSUME UInv, NEW g \in G, semHandoff(g), UNCHANGED <<acquired, released>>
  PROVE  UInv'
<1>1. /\ SemaInvariant /\ SemaTypeOK /\ SemaInvariant' /\ SameAddr /\ NwaitExact
      /\ CallsOK /\ Conserved /\ UnitsCarried
  BY SemaHandoffKeeps DEF UInv, SemaInvariant
<1>2. /\ spc[g] = "handoff" /\ SGoto(g, "ready")
      /\ UNCHANGED <<nwait, rootlock, waitq, addr, flag, found>>
  BY DEF semHandoff
<1>3. spc'[g] = "ready" /\ \A h \in G \ {g} : spc'[h] = spc[h]
  BY <1>1, <1>2, SGotoFact DEF SPC
<1>4. PICK x \in G : /\ x = found[g] /\ spc[x] = "park" /\ ~ticket[x] /\ addr[x] = addr[g]
  BY <1>1, <1>2 DEF SemaInvariant, FoundAsleep, Dequeued, SameAddr
<1>5. \A h \in G \ {g} : Dequeued(h) => found[h] # x
  BY <1>1, <1>2, <1>4 DEF SemaInvariant, FoundOnce, Dequeued
<1>6. SameAddr'
  <2>1. \A h \in G : Dequeued(h)' <=> Dequeued(h)
    BY <1>2, <1>3 DEF Dequeued
  <2> QED BY <1>1, <1>2, <2>1 DEF SameAddr
<1>7. NwaitExact'
  <2>1. \A h \in G : h \in Counted' <=> h \in Counted
    BY <1>2, <1>3 DEF Counted, InQueue
  <2>2. Counted' = Counted
    BY <2>1, CountType
  <2> QED BY <1>1, <1>2, <2>2 DEF NwaitExact
<1>8. \A c \in Addr : Adding(c)' = Adding(c) /\ (Sleepy(c)' <=> Sleepy(c))
  BY <1>2, <1>3 DEF Adding, Sleepy
<1>9. CASE ~(flag[g] /\ val[addr[g]] > 0)
  <2>1. UNCHANGED <<val, ticket>>
    BY <1>9 DEF semHandoff
  <2>2. \A h \in G : (Waiting(h)' <=> Waiting(h)) /\ (Carries(h)' <=> Carries(h))
    BY <1>2, <1>3, <1>4, <2>1 DEF Waiting, Carries
  <2>3. \A c \in Addr : Wanting(c)' = Wanting(c)
    BY <1>2, <2>2 DEF Wanting
  <2>4. \A c \in Addr : \A h \in G : h \in Carriers(c)' <=> h \in Carriers(c)
    BY <1>2, <2>2 DEF Carriers, Carries
  <2>5. \A c \in Addr : Carriers(c)' = Carriers(c)
    BY <2>4, CountType
  <2>6. CallsOK' /\ Conserved' /\ UnitsCarried'
    BY <1>8, <2>1, <2>3, <2>5, SetsSame
  <2> QED BY <1>1, <1>6, <1>7, <2>6 DEF UInv
\* The unit goes from the word to the waiter, and the release carries nothing.
<1>10. CASE flag[g] /\ val[addr[g]] > 0
  <2>1. PICK a \in Addr : a = addr[g]
    BY <1>1 DEF SemaTypeOK
  <2>2. Take(g) /\ ticket' = [ticket EXCEPT ![x] = TRUE]
    BY <1>4, <1>10 DEF semHandoff
  <2>3. ticket'[x] /\ \A h \in G \ {x} : ticket'[h] = ticket[h]
    BY <1>1, <2>2 DEF SemaTypeOK
  <2>4. /\ val[a] \in Nat /\ val[a] > 0 /\ val'[a] = val[a] - 1
        /\ \A c \in Addr \ {a} : val'[c] = val[c] /\ val[c] \in Nat
    BY <1>1, <1>10, <2>1, <2>2 DEF SemaTypeOK, Take
  <2>5. \A h \in G \ {x} : Waiting(h)' <=> Waiting(h)
    BY <1>2, <1>3, <2>3 DEF Waiting
  <2>6. Waiting(x) /\ ~Waiting(x)'
    BY <1>2, <1>3, <1>4, <2>3 DEF Waiting
  <2>7. \A h \in G \ {g} : Carries(h)' <=> Carries(h)
    <3>1. \A h \in G \ {g} : Dequeued(h) => found[h] \in G \ {x} /\ found'[h] = found[h]
      BY <1>1, <1>2, <1>5 DEF SemaInvariant, FoundAsleep
    <3>2. \A h \in G \ {g} : Dequeued(h) => ticket'[found'[h]] = ticket[found[h]]
      BY <2>3, <3>1
    <3>3. \A h \in G \ {g} : spc[h] = "retry" => ticket'[h] = ticket[h]
      BY <1>4, <2>3
    <3> QED BY <1>3, <3>2, <3>3 DEF Carries, Dequeued
  <2>8. Carries(g) /\ ~Carries(g)'
    BY <1>2, <1>3, <1>4, <2>3 DEF Carries
  <2>9. \A c \in Addr : /\ Wanting(c) \ {x} = Wanting(c)' \ {x}
                        /\ x \in Wanting(c) <=> c = a
                        /\ x \notin Wanting(c)'
    BY <1>2, <1>4, <2>1, <2>5, <2>6 DEF Wanting
  <2>10. \A c \in Addr : /\ \A h \in G \ {g} : h \in Carriers(c) <=> h \in Carriers(c)'
                         /\ g \in Carriers(c) <=> c = a
                         /\ g \notin Carriers(c)'
    BY <1>2, <2>1, <2>7, <2>8 DEF Carriers, Carries
  <2>11. \A c \in Addr : Carriers(c) \ {g} = Carriers(c)' \ {g}
    BY <2>10, CountType
  <2>12. \A c \in Addr : /\ Cardinality(Carriers(c)) \in Nat /\ Cardinality(Wanting(c)) \in Nat
                         /\ Cardinality(Carriers(c)') =
                              Cardinality(Carriers(c)) - (IF c = a THEN 1 ELSE 0)
                         /\ Cardinality(Wanting(c)') =
                              Cardinality(Wanting(c)) - (IF c = a THEN 1 ELSE 0)
    BY <2>9, <2>10, <2>11, CountType, DifferAtOne
  <2>13. CallsOK'
    BY <1>1 DEF CallsOK
  <2>14. Conserved'
    <3> SUFFICES ASSUME NEW c \in Addr
                 PROVE  released[c] - Cardinality(Adding(c)') =
                          (acquired[c] - Cardinality(Wanting(c)')) + val'[c]
      BY DEF Conserved
    <3>1. released[c] - Cardinality(Adding(c)) =
            (acquired[c] - Cardinality(Wanting(c))) + val[c]
      BY <1>1 DEF Conserved
    <3>2. acquired[c] \in Nat /\ released[c] \in Nat
      BY <1>1 DEF CallsOK
    <3>3. Adding(c)' = Adding(c)
      BY <1>8
    <3> QED BY <2>4, <2>12, <3>1, <3>2, <3>3
  <2>15. UnitsCarried'
    <3> SUFFICES ASSUME NEW c \in Addr, Sleepy(c)' PROVE val'[c] <= Cardinality(Carriers(c)')
      BY DEF UnitsCarried
    <3>1. val[c] <= Cardinality(Carriers(c))
      BY <1>1, <1>8 DEF UnitsCarried
    <3> QED BY <2>4, <2>12, <3>1
  <2> QED BY <1>1, <1>6, <1>7, <2>13, <2>14, <2>15 DEF UInv
<1> QED BY <1>9, <1>10

\* The waiter takes over what the release that readies it carried.
LEMMA ReadyUnits ==
  ASSUME UInv, NEW g \in G, semReady(g), UNCHANGED <<acquired, released>>
  PROVE  UInv'
<1>1. SemaInvariant /\ SemaTypeOK /\ SemaInvariant' /\ SameAddr /\ NwaitExact
  BY SemaReadyKeeps DEF UInv, SemaInvariant
<1>2. /\ spc[g] = "ready" /\ found' = [found EXCEPT ![g] = NoG]
      /\ UNCHANGED <<val, nwait, rootlock, waitq, addr, flag, ticket>>
  BY DEF semReady
<1>3. PICK x \in G : /\ x = found[g] /\ spc[x] = "park" /\ addr[x] = addr[g]
                     /\ \A a \in Addr : \A i \in DOMAIN waitq[a] : waitq[a][i] # x
  BY <1>1, <1>2 DEF SemaInvariant, FoundAsleep, Dequeued, SameAddr
<1>4. /\ x # g /\ spc'[g] = "released" /\ spc'[x] = "retry"
      /\ \A h \in G \ {g, x} : spc'[h] = spc[h]
      /\ \A h \in G \ {g} : found'[h] = found[h]
  BY <1>1, <1>2, <1>3 DEF semReady, SemaTypeOK
<1>5. SameAddr'
  <2>1. \A h \in G : Dequeued(h)' => h # g /\ Dequeued(h)
    BY <1>4 DEF Dequeued
  <2> QED BY <1>1, <1>2, <1>4, <2>1 DEF SameAddr
<1>6. NwaitExact'
  <2>1. \A h \in G : h \in Counted' <=> h \in Counted
    BY <1>2, <1>3, <1>4 DEF Counted, InQueue
  <2>2. Counted' = Counted
    BY <2>1, CountType
  <2> QED BY <1>1, <1>2, <2>2 DEF NwaitExact
<1>7. \A c \in Addr : Adding(c)' = Adding(c) /\ (Sleepy(c)' <=> Sleepy(c))
  BY <1>2, <1>3, <1>4 DEF Adding, Sleepy
<1>8. \A h \in G : Waiting(h)' <=> Waiting(h)
  BY <1>2, <1>3, <1>4 DEF Waiting
<1>9. \A c \in Addr : Wanting(c)' = Wanting(c)
  BY <1>2, <1>8 DEF Wanting
<1>10. \A h \in G \ {g, x} : Carries(h)' <=> Carries(h)
  BY <1>2, <1>4 DEF Carries
<1>11. ~Carries(x) /\ ~Carries(g)' /\ (Carries(x)' <=> Carries(g))
  BY <1>2, <1>3, <1>4 DEF Carries
<1>12. ASSUME NEW c \in Addr PROVE Cardinality(Carriers(c)') = Cardinality(Carriers(c))
  <2>1. /\ \A h \in G \ {g, x} : h \in Carriers(c)' <=> h \in Carriers(c)
        /\ x \notin Carriers(c) /\ g \notin Carriers(c)'
        /\ x \in Carriers(c)' <=> g \in Carriers(c)
    BY <1>2, <1>3, <1>10, <1>11 DEF Carriers, Carries
  <2>2. PICK M : M = Carriers(c) \ {g}
    OBVIOUS
  <2>3. M \in SUBSET G /\ M \ {g} = Carriers(c) \ {g} /\ M \ {x} = Carriers(c)' \ {x}
    BY <2>1, <2>2, CountType
  <2>4. g \notin M /\ x \notin M
    BY <2>1, <2>2
  <2>5. CASE g \in Carriers(c)
    <3>1. Cardinality(Carriers(c)) = Cardinality(M) + 1
      BY <2>3, <2>4, <2>5, CountType, DifferAtOne
    <3>2. Cardinality(Carriers(c)') = Cardinality(M) + 1
      BY <2>1, <2>3, <2>4, <2>5, CountType, DifferAtOne
    <3> QED BY <3>1, <3>2
  <2>6. CASE g \notin Carriers(c)
    <3>1. Cardinality(Carriers(c)) = Cardinality(M)
      BY <2>3, <2>4, <2>6, CountType, DifferAtOne
    <3>2. Cardinality(Carriers(c)') = Cardinality(M)
      BY <2>1, <2>3, <2>4, <2>6, CountType, DifferAtOne
    <3> QED BY <3>1, <3>2
  <2> QED BY <2>5, <2>6
<1>13. CallsOK' /\ Conserved' /\ UnitsCarried'
  BY <1>2, <1>7, <1>9, <1>12, SetsSame
<1> QED BY <1>1, <1>5, <1>6, <1>13 DEF UInv

LEMMA InitUnits == Init => UInv
<1> SUFFICES ASSUME Init PROVE UInv
  OBVIOUS
<1>1. SemaInvariant
  BY SemaInitInvariant DEF Init
<1>2. /\ \A a \in Addr : waitq[a] = <<>> /\ val[a] = 0 /\ acquired[a] = 0 /\ released[a] = 0
      /\ \A g \in G : spc[g] = "idle"
      /\ nwait = 0
  BY DEF Init, SemaInit
<1>3. SameAddr
  BY <1>2 DEF SameAddr, Dequeued
<1>4. Counted = {} /\ \A a \in Addr : Carriers(a) = {} /\ Wanting(a) = {} /\ Adding(a) = {}
  BY <1>2 DEF Counted, InQueue, Carriers, Wanting, Waiting, Adding
<1>5. /\ Cardinality({}) = 0
      /\ \A a \in Addr : /\ Cardinality(Carriers(a)) = 0 /\ Cardinality(Wanting(a)) = 0
                         /\ Cardinality(Adding(a)) = 0
  BY <1>4, FS_EmptySet
<1>6. NwaitExact
  BY <1>2, <1>4, <1>5 DEF NwaitExact
<1>7. UnitsCarried
  BY <1>2, <1>5 DEF UnitsCarried
<1>8. CallsOK
  BY DEF Init, CallsOK
<1>9. Conserved
  BY <1>2, <1>5 DEF Conserved
<1> QED BY <1>1, <1>3, <1>6, <1>7, <1>8, <1>9 DEF UInv

LEMMA NextUnits ==
  ASSUME UInv, [Next]_useVars
  PROVE  UInv'
<1>1. CASE UNCHANGED useVars
  <2>1. UNCHANGED <<val, nwait, rootlock, waitq, spc, addr, flag, ticket, found, acquired, released>>
    BY <1>1 DEF useVars, semaVars
  <2>2. SemaInvariant'
    BY <1>1, UseStepKeeps DEF UInv
  <2>3. \A a \in Addr : /\ Adding(a)' = Adding(a) /\ Wanting(a)' = Wanting(a)
                        /\ Carriers(a)' = Carriers(a) /\ (Sleepy(a)' <=> Sleepy(a))
    BY <2>1 DEF Adding, Wanting, Waiting, Carriers, Sleepy
  <2>4. SameAddr'
    BY <2>1 DEF UInv, SameAddr, Dequeued
  <2>5. NwaitExact'
    BY <2>1 DEF UInv, NwaitExact, Counted, InQueue
  <2>6. CallsOK' /\ Conserved' /\ UnitsCarried'
    BY <2>1, <2>3, SetsSame
  <2> QED BY <2>2, <2>4, <2>5, <2>6 DEF UInv
<1>2. ASSUME NEW g \in G, Acquire(g) \/ Release(g) PROVE UInv'
  BY <1>2, CallKeeps
<1>3. ASSUME NEW g \in G, Finish(g) PROVE UInv'
  BY <1>3, FinishUnits
<1>4. ASSUME NEW g \in G, SemaStep(g), UNCHANGED <<acquired, released>> PROVE UInv'
  BY <1>4, EasyUnits, LockUnits, CheckUnits, UndoUnits, QueueUnits, RetryUnits, XaddUnits,
     NwaitUnits, DequeueUnits, HandoffUnits, ReadyUnits DEF SemaStep
<1> QED BY <1>1, <1>2, <1>3, <1>4 DEF Next, Run

\* nwait counts exactly those who sleep or are about to under root.lock, a waiter
\* and the release that has it at hand are on one address, and both results below.
THEOREM UnitsInvariant == Spec => []UInv
<1>1. Init => UInv
  BY InitUnits
<1>2. UInv /\ [Next]_useVars => UInv'
  BY NextUnits
<1> QED BY <1>1, <1>2, PTL DEF Spec

\* While a goroutine sleeps on an address, every unit in its word has a carrier:
\* a semrelease1 that still looks for a waiter or has one at hand without having
\* given it the unit, or a waiter it has readied and that has yet to try again.
\* So no release returns leaving its unit to a sleeper nobody will wake, however
\* the words of a root share its nwait and its lock.
THEOREM NoLostWakeupCorrect == Spec => []NoLostWakeup
<1>1. UInv => NoLostWakeup
  BY DEF UInv, UnitsCarried, Sleepy, NoLostWakeup
<1> QED BY <1>1, UnitsInvariant, PTL

\* Every unit released to a word is in the word or with an acquire of that word,
\* taken by cansemacquire or handed over with a ticket, and none is there twice.
THEOREM ConservedCorrect == Spec => []Conserved
<1>1. UInv => Conserved
  BY DEF UInv
<1> QED BY <1>1, UnitsInvariant, PTL

=============================================================================
