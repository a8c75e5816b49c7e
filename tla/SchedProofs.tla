---------------------------- MODULE SchedProofs -----------------------------
(***************************************************************************)
(* Owned of module Sched, for any number of Ps, threads and goroutines: no *)
(* P is lost or used twice, and sched.nmspinning is exact.                 *)
(***************************************************************************)
EXTENDS Sched, FiniteSetTheorems, TLAPS

WithP == {"run", "wakep", "wakepLock", "startm", "top", "global", "spin", "become", "become2",
          "steal", "drop", "put", "putRecheck", "found"}
WithoutP == {"parked", "dance", "recheckGlobal", "recheck", "recheckLock"}

TypeOK ==
  /\ lq \in [P -> Nat] /\ glob \in Nat /\ pidle \in SUBSET P /\ nmspinning \in Nat
  /\ mp \in [M -> P \cup {Nil}] /\ pp \in [M -> P \cup {Nil}]
  /\ spinning \in [M -> BOOLEAN] /\ pc \in [M -> WithP \cup WithoutP]
  /\ ret \in [M -> {"run", "top", "spin", "found", Nil}] /\ todo \in [M -> SUBSET P]

\* What a thread has at each point.
Control ==
  \A m \in M :
    /\ mp[m] # Nil <=> pc[m] \in WithP
    /\ pp[m] # Nil <=> pc[m] = "startm"
    /\ pc[m] \in {"wakep", "wakepLock", "startm"} => ret[m] \in {"run", "top"}
    /\ pc[m] \in {"become", "become2"} => ret[m] \in {"spin", "found", "top"}
    /\ spinning[m] => pc[m] \in {"top", "global", "spin", "become2", "steal", "drop",
                                 "put", "found", "dance"}
    /\ pc[m] \in {"become2", "dance"} => spinning[m]

\* A P is in one place.
Separate ==
  /\ \A m, n \in M : mp[m] # Nil /\ mp[m] = mp[n] => m = n
  /\ \A m, n \in M : pp[m] # Nil /\ pp[m] = pp[n] => m = n
  /\ \A m, n \in M : mp[m] # Nil => mp[m] # pp[n]
  /\ \A m \in M : mp[m] \notin pidle /\ pp[m] \notin pidle
  /\ \A p \in P : p \in pidle \/ \E m \in M : p \in {mp[m], pp[m]}

\* m has found its own queue empty, and only it puts goroutines there.
Dry(m) == \/ pc[m] \in {"global", "spin", "steal", "drop"}
          \/ pc[m] \in {"become", "become2"} /\ ret[m] = "spin"

\* A P is given up only when its queue is empty.
Empty ==
  /\ \A p \in pidle : lq[p] = 0
  /\ \A m \in M : pp[m] # Nil => lq[pp[m]] = 0
  /\ \A m \in M : Dry(m) => lq[mp[m]] = 0

Spinner(m) == spinning[m] \/ pc[m] \in {"wakepLock", "startm"}

Spinners == {m \in M : Spinner(m)}

\* m runs a goroutine, or has one to run and nothing else in its hand.
Carries(m) == \/ pc[m] \in {"run", "found"}
              \/ pc[m] \in {"wakep", "wakepLock", "startm"} /\ ret[m] = "run"
              \/ pc[m] \in {"become", "become2"} /\ ret[m] = "found"

\* A batch is in the hand of a thread from the take to runqputbatch, and no longer.
Hands ==
  /\ hand \in [M -> Nat]
  /\ \A m \in M : IF pc[m] \in {"put", "putRecheck"} THEN hand[m] > 0
                  ELSE hand[m] = IF Carries(m) THEN 1 ELSE 0

SchedInv == TypeOK /\ Control /\ Separate /\ Empty /\ nmspinning = Cardinality(Spinners)

-----------------------------------------------------------------------------
(* What the steps have in common.                                          *)

\* The count follows when one thread starts or stops to count as spinning.
LEMMA CountKept ==
  ASSUME SchedInv, NEW m \in M, \A x \in M : x # m => (Spinner(x)' <=> Spinner(x)),
         nmspinning' = IF Spinner(m) = Spinner(m)' THEN nmspinning
                       ELSE IF Spinner(m) THEN nmspinning - 1 ELSE nmspinning + 1
  PROVE  nmspinning' \in Nat /\ nmspinning' = Cardinality(Spinners')
<1>1. Spinners \in SUBSET M
  BY DEF Spinners
<1>2. IsFiniteSet(Spinners) /\ nmspinning = Cardinality(Spinners)
  BY <1>1, FS_Subset, SchedAssumption DEF SchedInv
<1>3. IsFiniteSet(Spinners') /\ nmspinning' = Cardinality(Spinners')
  <2>1. CASE Spinner(m) <=> Spinner(m)'
    <3>1. Spinners' = Spinners
      BY <2>1 DEF Spinners
    <3>2. nmspinning' = nmspinning
      BY <2>1 DEF Spinner
    <3> QED BY <1>2, <3>1, <3>2
  <2>2. CASE Spinner(m) /\ ~Spinner(m)'
    <3>1. m \in Spinners /\ Spinners' = Spinners \ {m}
      BY <2>2 DEF Spinners
    <3>2. nmspinning' = nmspinning - 1
      BY <2>2
    <3> QED BY <1>2, <3>1, <3>2, FS_RemoveElement
  <2>3. CASE ~Spinner(m) /\ Spinner(m)'
    <3>1. m \notin Spinners /\ Spinners' = Spinners \cup {m}
      BY <2>3 DEF Spinners
    <3>2. nmspinning' = nmspinning + 1
      BY <2>3
    <3> QED BY <1>2, <3>1, <3>2, FS_AddElement
  <2> QED BY <2>1, <2>2, <2>3
<1> QED BY <1>3, FS_CardinalityType

\* A step that moves no P.
LEMMA SeparateKept ==
  ASSUME Separate, UNCHANGED <<mp, pp, pidle>>
  PROVE  Separate'
BY DEF Separate

\* How much is taken from the global queue.
LEMMA Batch ==
  ASSUME NEW n \in Nat, n > 0
  PROVE  LET k == Min({n, n \div Cardinality(P) + 1}) IN k \in Nat /\ k >= 1 /\ k <= n
<1> DEFINE a == n \div Cardinality(P) + 1
<1>1. Cardinality(P) \in Nat /\ Cardinality(P) > 0
  BY SchedAssumption, FS_CardinalityType, FS_EmptySet
<1>2. n \div Cardinality(P) \in Nat
  BY <1>1
<1>3. a \in Nat /\ a >= 1
  BY <1>2
<1> HIDE DEF a
<1>4. Min({n, a}) \in {n, a} /\ \A y \in {n, a} : Min({n, a}) <= y
  <2>1. \E x \in {n, a} : \A y \in {n, a} : x <= y
    BY <1>3
  <2> QED BY <2>1 DEF Min
<1>5. Min({n, a}) \in Nat /\ Min({n, a}) >= 1 /\ Min({n, a}) <= n
  BY <1>3, <1>4
<1> QED BY <1>5 DEF a

LEMMA BatchKeeps ==
  ASSUME TypeOK, glob > 0, NEW m \in M, globrunqgetbatch(m)
  PROVE  glob' \in Nat /\ \E k \in Nat : k > 0 /\ hand' = [hand EXCEPT ![m] = k]
<1> DEFINE k == Min({glob, glob \div Cardinality(P) + 1})
<1>1. k \in Nat /\ k >= 1 /\ k <= glob /\ glob \in Nat
  BY Batch DEF TypeOK
<1>2. glob' = glob - k /\ hand' = [hand EXCEPT ![m] = k]
  BY DEF globrunqgetbatch, Set
<1> HIDE DEF k
<1>3. glob' \in Nat
  BY <1>1, <1>2
<1>4. k \in Nat /\ k > 0 /\ hand' = [hand EXCEPT ![m] = k]
  BY <1>1, <1>2
<1> QED BY <1>3, <1>4

-----------------------------------------------------------------------------
(* Steps that move no P.                                                   *)

\* A goroutine readies another, yields, or blocks.
LEMMA ReadyKeeps ==
  ASSUME SchedInv, NEW m \in M, ready(m) \/ goschedImpl(m) \/ park(m)
  PROVE  SchedInv'
<1>0. TypeOK /\ Control /\ Separate /\ Empty
  BY DEF SchedInv
<1>1. UNCHANGED <<mp, pp, pidle>>
  BY DEF ready, goschedImpl, park, schedVars
<1>2. nmspinning' \in Nat /\ nmspinning' = Cardinality(Spinners')
  BY <1>0, CountKept DEF ready, goschedImpl, park, Call, Goto, Set, schedVars, TypeOK, Control, Spinner
<1>3. TypeOK'
  BY <1>0, <1>2 DEF ready, goschedImpl, park, Call, Goto, Set, schedVars, TypeOK, Control, WithP, WithoutP
<1>4. Control'
  BY <1>0 DEF ready, goschedImpl, park, Call, Goto, Set, schedVars, TypeOK, Control, WithP
<1>5. Empty'
  BY <1>0 DEF ready, goschedImpl, park, Call, Goto, Set, schedVars, TypeOK, Control, Separate, Empty, Dry, WithP
<1> QED BY <1>0, <1>1, <1>2, <1>3, <1>4, <1>5, SeparateKept DEF SchedInv

\* wakep announces a spinning thread, or finds that there is one.
LEMMA WakepKeeps ==
  ASSUME SchedInv, NEW m \in M, wakep(m)
  PROVE  SchedInv'
<1>0. TypeOK /\ Control /\ Separate /\ Empty
  BY DEF SchedInv
<1>1. UNCHANGED <<mp, pp, pidle>>
  BY DEF wakep, schedVars
<1>2. nmspinning' \in Nat /\ nmspinning' = Cardinality(Spinners')
  BY <1>0, CountKept DEF wakep, Call, Goto, Set, Return, TypeOK, Control, Spinner
<1>3. TypeOK'
  BY <1>0, <1>2 DEF wakep, Call, Goto, Set, Return, TypeOK, Control, WithP, WithoutP
<1>4. Control'
  BY <1>0 DEF wakep, Call, Goto, Set, Return, TypeOK, Control, WithP
<1>5. Empty'
  BY <1>0 DEF wakep, Call, Goto, Set, Return, TypeOK, Control, Separate, Empty, Dry, WithP
<1> QED BY <1>0, <1>1, <1>2, <1>3, <1>4, <1>5, SeparateKept DEF SchedInv

\* findRunnable looks at the queues.
LEMMA FindKeeps ==
  ASSUME SchedInv, NEW m \in M, findTick(m) \/ findLocal(m)
  PROVE  SchedInv'
<1>0. TypeOK /\ Control /\ Separate /\ Empty
  BY DEF SchedInv
<1>1. UNCHANGED <<mp, pp, pidle>>
  BY DEF findTick, findLocal, schedVars
<1>2. nmspinning' \in Nat /\ nmspinning' = Cardinality(Spinners')
  BY <1>0, CountKept DEF findTick, findLocal, Call, Goto, Set, TypeOK, Control, Spinner
<1>3. TypeOK'
  BY <1>0, <1>2 DEF findTick, findLocal, Call, Goto, Set, TypeOK, Control, WithP, WithoutP
<1>4. Control'
  BY <1>0 DEF findTick, findLocal, Call, Goto, Set, TypeOK, Control, WithP
<1>5. Empty'
  BY <1>0 DEF findTick, findLocal, Call, Goto, Set, TypeOK, Control, Separate, Empty, Dry, WithP
<1> QED BY <1>0, <1>1, <1>2, <1>3, <1>4, <1>5, SeparateKept DEF SchedInv

\* findRunnable decides whether to spin.
LEMMA SpinKeeps ==
  ASSUME SchedInv, NEW m \in M, findSpin(m)
  PROVE  SchedInv'
<1>0. TypeOK /\ Control /\ Separate /\ Empty
  BY DEF SchedInv
<1>1. UNCHANGED <<mp, pp, pidle>>
  BY DEF findSpin, schedVars
<1>2. nmspinning' \in Nat /\ nmspinning' = Cardinality(Spinners')
  BY <1>0, CountKept DEF findSpin, Call, Goto, Set, schedVars, TypeOK, Control, Spinner
<1>3. TypeOK'
  BY <1>0, <1>2 DEF findSpin, Call, Goto, Set, schedVars, TypeOK, Control, WithP, WithoutP
<1>4. Control'
  BY <1>0 DEF findSpin, Call, Goto, Set, schedVars, TypeOK, Control, WithP
<1>5. Empty'
  BY <1>0 DEF findSpin, Call, Goto, Set, schedVars, TypeOK, Control, Separate, Empty, Dry, WithP
<1> QED BY <1>0, <1>1, <1>2, <1>3, <1>4, <1>5, SeparateKept DEF SchedInv

\* becomeSpinning counts the thread,
LEMMA BecomeKeeps ==
  ASSUME SchedInv, NEW m \in M, becomeSpinning(m)
  PROVE  SchedInv'
<1>0. TypeOK /\ Control /\ Separate /\ Empty
  BY DEF SchedInv
<1>1. UNCHANGED <<mp, pp, pidle>>
  BY DEF becomeSpinning, schedVars
<1>2. nmspinning' \in Nat /\ nmspinning' = Cardinality(Spinners')
  BY <1>0, CountKept DEF becomeSpinning, Call, Goto, Set, TypeOK, Control, Spinner
<1>3. TypeOK'
  BY <1>0, <1>2 DEF becomeSpinning, Call, Goto, Set, TypeOK, Control, WithP, WithoutP
<1>4. Control'
  BY <1>0 DEF becomeSpinning, Call, Goto, Set, TypeOK, Control, WithP
<1>5. Empty'
  BY <1>0 DEF becomeSpinning, Call, Goto, Set, TypeOK, Control, Separate, Empty, Dry, WithP
<1> QED BY <1>0, <1>1, <1>2, <1>3, <1>4, <1>5, SeparateKept DEF SchedInv

\* ... and the need for one is met.
LEMMA Become2Keeps ==
  ASSUME SchedInv, NEW m \in M, becomeSpinning2(m)
  PROVE  SchedInv'
<1>0. TypeOK /\ Control /\ Separate /\ Empty
  BY DEF SchedInv
<1>1. UNCHANGED <<mp, pp, pidle>>
  BY DEF becomeSpinning2, schedVars
<1>2. nmspinning' \in Nat /\ nmspinning' = Cardinality(Spinners')
  BY <1>0, CountKept DEF becomeSpinning2, Call, Goto, Set, Return, TypeOK, Control, Spinner
<1>3. TypeOK'
  BY <1>0, <1>2 DEF becomeSpinning2, Call, Goto, Set, Return, TypeOK, Control, WithP, WithoutP
<1>4. Control'
  BY <1>0 DEF becomeSpinning2, Call, Goto, Set, Return, TypeOK, Control, WithP
<1>5. Empty'
  BY <1>0 DEF becomeSpinning2, Call, Goto, Set, Return, TypeOK, Control, Separate, Empty, Dry, WithP
<1> QED BY <1>0, <1>1, <1>2, <1>3, <1>4, <1>5, SeparateKept DEF SchedInv

\* The spinning thread that has given up its P stops spinning, and looks again.
LEMMA DanceKeeps ==
  ASSUME SchedInv, NEW m \in M, dance(m) \/ checkRunqsNoP(m)
  PROVE  SchedInv'
<1>0. TypeOK /\ Control /\ Separate /\ Empty
  BY DEF SchedInv
<1>1. UNCHANGED <<mp, pp, pidle>>
  BY DEF dance, checkRunqsNoP, schedVars
<1>2. nmspinning' \in Nat /\ nmspinning' = Cardinality(Spinners')
  BY <1>0, CountKept DEF dance, checkRunqsNoP, Call, Goto, Set, schedVars, TypeOK, Control, Spinner
<1>3. TypeOK'
  BY <1>0, <1>2 DEF dance, checkRunqsNoP, Call, Goto, Set, schedVars, TypeOK, Control, WithP, WithoutP
<1>4. Control'
  BY <1>0 DEF dance, checkRunqsNoP, Call, Goto, Set, schedVars, TypeOK, Control, WithP
<1>5. Empty'
  BY <1>0 DEF dance, checkRunqsNoP, Call, Goto, Set, schedVars, TypeOK, Control, Separate, Empty, Dry, WithP
<1> QED BY <1>0, <1>1, <1>2, <1>3, <1>4, <1>5, SeparateKept DEF SchedInv

\* resetspinning, and on to the goroutine.
LEMMA ScheduleKeeps ==
  ASSUME SchedInv, NEW m \in M, schedule(m)
  PROVE  SchedInv'
<1>0. TypeOK /\ Control /\ Separate /\ Empty
  BY DEF SchedInv
<1>1. UNCHANGED <<mp, pp, pidle>>
  BY DEF schedule, schedVars
<1>2. nmspinning' \in Nat /\ nmspinning' = Cardinality(Spinners')
  BY <1>0, CountKept DEF schedule, Call, Goto, Set, TypeOK, Control, Spinner
<1>3. TypeOK'
  BY <1>0, <1>2 DEF schedule, Call, Goto, Set, TypeOK, Control, WithP, WithoutP
<1>4. Control'
  BY <1>0 DEF schedule, Call, Goto, Set, TypeOK, Control, WithP
<1>5. Empty'
  BY <1>0 DEF schedule, Call, Goto, Set, TypeOK, Control, Separate, Empty, Dry, WithP
<1> QED BY <1>0, <1>1, <1>2, <1>3, <1>4, <1>5, SeparateKept DEF SchedInv

\* The global queue: a batch of it, if there is any.
LEMMA FindGlobalKeeps ==
  ASSUME SchedInv, NEW m \in M, findGlobal(m)
  PROVE  SchedInv'
<1>0. TypeOK /\ Control /\ Separate /\ Empty
  BY DEF SchedInv
<1>1. pc[m] = "global" /\ UNCHANGED <<lq, mp, pp, pidle, spinning, ret, nmspinning, todo>>
  BY DEF findGlobal
<1>2. nmspinning' \in Nat /\ nmspinning' = Cardinality(Spinners')
  BY <1>0, CountKept DEF findGlobal, Goto, TypeOK, Spinner
<1>3. mp[m] \in P
  BY <1>0, <1>1 DEF TypeOK, Control, WithP
<1>4. CASE glob > 0
  <2>1. glob' \in Nat /\ pc' = [pc EXCEPT ![m] = "put"]
    BY <1>0, <1>3, <1>4, BatchKeeps DEF findGlobal, Goto, TypeOK
  <2>2. TypeOK'
    BY <1>0, <1>1, <1>2, <2>1 DEF TypeOK, WithP
  <2>3. Control'
    BY <1>0, <1>1, <2>1 DEF TypeOK, Control, WithP
  <2>4. Empty'
    BY <1>0, <1>1, <1>3, <2>1 DEF TypeOK, Control, Separate, Empty, Dry, WithP
  <2> QED BY <1>0, <1>1, <1>2, <2>2, <2>3, <2>4, SeparateKept DEF SchedInv
<1>5. CASE ~(glob > 0)
  <2>1. UNCHANGED glob /\ pc' = [pc EXCEPT ![m] = "spin"]
    BY <1>5 DEF findGlobal, Goto
  <2>2. TypeOK'
    BY <1>0, <1>1, <1>2, <2>1 DEF TypeOK, WithP
  <2>3. Control'
    BY <1>0, <1>1, <2>1 DEF TypeOK, Control, WithP
  <2>4. Empty'
    BY <1>0, <1>1, <2>1 DEF TypeOK, Empty, Dry
  <2> QED BY <1>0, <1>1, <1>2, <2>2, <2>3, <2>4, SeparateKept DEF SchedInv
<1> QED BY <1>4, <1>5

\* The batch becomes visible in the local queue.
LEMMA PutbatchKeeps ==
  ASSUME SchedInv, Hands, NEW m \in M, runqputbatch(m)
  PROVE  SchedInv'
<1>0. TypeOK /\ Control /\ Separate /\ Empty
  BY DEF SchedInv
<1>1. /\ pc[m] \in {"put", "putRecheck"} /\ lq' = [lq EXCEPT ![mp[m]] = @ + hand[m] - 1]
      /\ UNCHANGED <<glob, mp, pp, pidle, spinning, nmspinning, todo>>
  BY DEF runqputbatch
<1>2. /\ pc' = [pc EXCEPT ![m] = IF pc[m] = "put" THEN "found" ELSE "become"]
      /\ ret' = IF pc[m] = "put" THEN ret ELSE [ret EXCEPT ![m] = "found"]
  BY DEF runqputbatch, Call, Goto, Set
<1>3. mp[m] \in P
  BY <1>0, <1>1 DEF TypeOK, Control, WithP
<1>4. lq' \in [P -> Nat] /\ \A p \in P : p # mp[m] => lq'[p] = lq[p]
  <2>1. hand[m] \in Nat /\ hand[m] > 0
    BY <1>1 DEF Hands
  <2>2. lq[mp[m]] + hand[m] - 1 \in Nat
    BY <1>0, <1>3, <2>1 DEF TypeOK
  <2> QED BY <1>0, <1>1, <1>3, <2>2 DEF TypeOK
<1>5. nmspinning' \in Nat /\ nmspinning' = Cardinality(Spinners')
  BY <1>0, <1>1, <1>2, CountKept DEF TypeOK, Spinner
<1>6. TypeOK'
  BY <1>0, <1>1, <1>2, <1>4, <1>5 DEF TypeOK, WithP
<1>7. Control'
  BY <1>0, <1>1, <1>2 DEF TypeOK, Control, WithP
<1>8. Empty'
  BY <1>0, <1>1, <1>2, <1>3, <1>4 DEF TypeOK, Control, Separate, Empty, Dry, WithP
<1> QED BY <1>0, <1>1, <1>5, <1>6, <1>7, <1>8, SeparateKept DEF SchedInv

\* stealWork takes from a P that is not idle.
LEMMA StealKeeps ==
  ASSUME SchedInv, NEW m \in M, stealWork(m)
  PROVE  SchedInv'
<1>0. TypeOK /\ Control /\ Separate /\ Empty
  BY DEF SchedInv
<1>1. pc[m] = "steal" /\ UNCHANGED <<mp, pp, pidle, spinning, ret, nmspinning, glob>>
  BY DEF stealWork
<1>2. mp[m] \in P /\ lq[mp[m]] = 0
  BY <1>0, <1>1 DEF TypeOK, Control, Empty, Dry, WithP
<1>3. CASE todo[m] = {} /\ Goto(m, "drop") /\ UNCHANGED <<lq, todo, hand>>
  <2>1. nmspinning' \in Nat /\ nmspinning' = Cardinality(Spinners')
    BY <1>0, <1>1, <1>3, CountKept DEF Goto, TypeOK, Spinner
  <2>2. TypeOK' /\ Control' /\ Empty'
    BY <1>0, <1>1, <1>3, <2>1 DEF Goto, TypeOK, Control, Empty, Dry, WithP
  <2> QED BY <1>0, <1>1, <2>1, <2>2, SeparateKept DEF SchedInv
<1>4. ASSUME NEW q \in todo[m], NEW k, k = IF q \in pidle THEN 0 ELSE lq[q] - lq[q] \div 2,
             todo' = Set(todo, m, IF k > 0 THEN {} ELSE todo[m] \ {q}),
             lq' = [lq EXCEPT ![q] = @ - k],
             IF k > 0 THEN Goto(m, "put") ELSE UNCHANGED pc
      PROVE  SchedInv'
  <2>1. q \in P /\ lq[q] \in Nat
    BY <1>0 DEF TypeOK
  <2>2. k \in Nat /\ k <= lq[q]
    BY <1>4, <2>1
  <2>3. todo' \in [M -> SUBSET P]
    BY <1>0, <1>4 DEF TypeOK, Set
  <2>4. lq' \in [P -> Nat] /\ \A p \in P : lq[p] = 0 => lq'[p] = 0
    <3>1. lq[q] - k \in Nat /\ (lq[q] = 0 => lq[q] - k = 0)
      BY <2>1, <2>2
    <3> QED BY <1>0, <1>4, <2>1, <3>1 DEF TypeOK
  <2>5. pc' = pc \/ pc' = [pc EXCEPT ![m] = "put"]
    BY <1>4 DEF Goto
  <2>6. nmspinning' \in Nat /\ nmspinning' = Cardinality(Spinners')
    BY <1>0, <1>1, <2>5, CountKept DEF TypeOK, Spinner
  <2>7. TypeOK' /\ Control'
    BY <1>0, <1>1, <2>3, <2>4, <2>5, <2>6 DEF TypeOK, Control, WithP
  <2>8. Empty'
    BY <1>0, <1>1, <1>2, <2>4, <2>5, SchedAssumption DEF TypeOK, Control, Separate, Empty, Dry, WithP
  <2> QED BY <1>0, <1>1, <2>6, <2>7, <2>8, SeparateKept DEF SchedInv
<1> QED BY <1>3, <1>4 DEF stealWork

-----------------------------------------------------------------------------
(* Steps that move a P.                                                    *)

LEMMA IdleP ==
  ASSUME TypeOK, ~NoIdle
  PROVE  pidleget \in pidle /\ pidleget \in P /\ pidleget # Nil
BY SchedAssumption DEF TypeOK, NoIdle, pidleget

\* wakep takes an idle P, or takes its announcement back.
LEMMA WakepLockKeeps ==
  ASSUME SchedInv, NEW m \in M, wakepLock(m)
  PROVE  SchedInv'
<1>0. TypeOK /\ Control /\ Separate /\ Empty
  BY DEF SchedInv
<1>1. pc[m] = "wakepLock" /\ UNCHANGED <<lq, glob, mp, spinning, todo>>
  BY DEF wakepLock
<1>2. ~spinning[m] /\ ret[m] \in {"run", "top"} /\ mp[m] # Nil /\ pp[m] = Nil
  BY <1>0, <1>1 DEF Control, WithP
<1>3. CASE NoIdle
  <2>1. /\ pc' = [pc EXCEPT ![m] = ret[m]] /\ ret' = [ret EXCEPT ![m] = Nil]
        /\ nmspinning' = nmspinning - 1 /\ UNCHANGED <<pidle, pp>>
    BY <1>3 DEF wakepLock, Return, Goto, Set
  <2>2. nmspinning' \in Nat /\ nmspinning' = Cardinality(Spinners')
    BY <1>0, <1>1, <1>2, <2>1, CountKept DEF TypeOK, Spinner
  <2>3. TypeOK' /\ Control'
    BY <1>0, <1>1, <1>2, <2>1, <2>2 DEF TypeOK, Control, WithP
  <2>4. Empty'
    BY <1>0, <1>1, <1>2, <2>1 DEF TypeOK, Empty, Dry
  <2> QED BY <1>0, <1>1, <2>1, <2>2, <2>3, <2>4, SeparateKept DEF SchedInv
<1>4. CASE ~NoIdle
  <2> DEFINE p == pidleget
  <2>1. p \in pidle /\ p \in P /\ p # Nil
    BY <1>0, <1>4, IdleP
  <2>2. /\ pc' = [pc EXCEPT ![m] = "startm"] /\ pp' = [pp EXCEPT ![m] = p]
        /\ pidle' = pidle \ {p} /\ UNCHANGED <<nmspinning, ret>>
    BY <1>4 DEF wakepLock, Goto, Set
  <2> HIDE DEF p
  <2>3. nmspinning' \in Nat /\ nmspinning' = Cardinality(Spinners')
    BY <1>0, <1>1, <1>2, <2>2, CountKept DEF TypeOK, Spinner
  <2>4. TypeOK' /\ Control'
    BY <1>0, <1>1, <1>2, <2>1, <2>2, <2>3 DEF TypeOK, Control, WithP
  <2>5. \A x \in M : pp'[x] = IF x = m THEN p ELSE pp[x]
    BY <1>0, <2>2 DEF TypeOK
  <2>6. Separate'
    <3>1. \A x, y \in M : mp'[x] # Nil => mp'[x] # pp'[y]
      BY <1>0, <1>1, <2>1, <2>5 DEF Separate
    <3>2. \A x, y \in M : pp'[x] # Nil /\ pp'[x] = pp'[y] => x = y
      BY <1>0, <2>1, <2>5 DEF Separate
    <3>3. \A x \in M : mp'[x] \notin pidle' /\ pp'[x] \notin pidle'
      BY <1>0, <1>1, <2>2, <2>5 DEF Separate
    <3>4. \A q \in P : q \in pidle' \/ \E x \in M : q \in {mp'[x], pp'[x]}
      <4> SUFFICES ASSUME NEW q \in P, q \notin pidle'
                   PROVE  \E x \in M : q \in {mp'[x], pp'[x]}
        OBVIOUS
      <4>1. CASE q = p
        BY <2>5, <4>1
      <4>2. CASE q # p
        <5>1. PICK x \in M : q \in {mp[x], pp[x]}
          BY <1>0, <2>2, <4>2 DEF Separate
        <5>2. x = m => q = mp[m]
          BY <1>2, <5>1, SchedAssumption
        <5> QED BY <1>1, <2>5, <5>1, <5>2
      <4> QED BY <4>1, <4>2
    <3> QED BY <1>0, <1>1, <3>1, <3>2, <3>3, <3>4 DEF Separate
  <2>7. Empty'
    BY <1>0, <1>1, <2>1, <2>2, <2>5 DEF TypeOK, Empty, Dry
  <2> QED BY <2>3, <2>4, <2>6, <2>7 DEF SchedInv
<1> QED BY <1>3, <1>4

\* startm gives p to a thread that was parked.
LEMMA StartmGives ==
  ASSUME TypeOK, Control, NEW p \in P, NEW b \in BOOLEAN, startm(p, b)
  PROVE  \E x \in M : /\ pc[x] = "parked" /\ mp[x] = Nil /\ pp[x] = Nil /\ ~spinning[x]
                      /\ mp' = [mp EXCEPT ![x] = p]
                      /\ spinning' = [spinning EXCEPT ![x] = b]
                      /\ \A y \in M : mp'[y] # mp[y] <=> y = x
<1> DEFINE x == CHOOSE y \in M : pc[y] = "parked"
<1>1. x \in M /\ pc[x] = "parked"
  BY DEF startm
<1>2. mp' = [mp EXCEPT ![x] = p] /\ spinning' = [spinning EXCEPT ![x] = b]
  BY DEF startm, Set
<1> HIDE DEF x
<1>3. mp[x] = Nil /\ pp[x] = Nil /\ ~spinning[x]
  BY <1>1 DEF Control, WithP
<1>4. \A y \in M : mp'[y] # mp[y] <=> y = x
  BY <1>1, <1>2, <1>3, SchedAssumption DEF TypeOK
<1> QED BY <1>1, <1>2, <1>3, <1>4

\* wakep starts a thread with its P; the thread spins in its place.
LEMMA WakepStartKeeps ==
  ASSUME SchedInv, NEW m \in M, wakepStart(m)
  PROVE  SchedInv'
<1>0. TypeOK /\ Control /\ Separate /\ Empty
  BY DEF SchedInv
<1> DEFINE p == pp[m]
<1>1. /\ pc[m] = "startm" /\ startm(p, TRUE) /\ pc' = Woken(Set(pc, m, ret[m]))
      /\ pp' = [pp EXCEPT ![m] = Nil] /\ ret' = [ret EXCEPT ![m] = Nil]
      /\ UNCHANGED <<lq, glob, pidle, nmspinning, todo>>
  BY DEF wakepStart, schedVars, Set
<1>2. /\ p \in P /\ p # Nil /\ lq[p] = 0 /\ ret[m] \in {"run", "top"} /\ mp[m] # Nil
      /\ ~spinning[m]
  BY <1>0, <1>1, SchedAssumption DEF TypeOK, Control, Empty, WithP
<1>3. PICK x \in M : /\ pc[x] = "parked" /\ mp[x] = Nil /\ pp[x] = Nil /\ ~spinning[x]
                     /\ mp' = [mp EXCEPT ![x] = p]
                     /\ spinning' = [spinning EXCEPT ![x] = TRUE]
                     /\ \A y \in M : mp'[y] # mp[y] <=> y = x
  BY <1>0, <1>1, <1>2, StartmGives
<1>4. x # m
  BY <1>1, <1>3
<1>5. pc' = [pc EXCEPT ![m] = ret[m], ![x] = "top"]
  <2>1. pc' = [y \in M |-> IF y = x THEN "top" ELSE IF y = m THEN ret[m] ELSE pc[y]]
    BY <1>0, <1>1, <1>3, <1>4 DEF Woken, Set, TypeOK
  <2> QED BY <1>0, <1>4, <2>1 DEF TypeOK
<1>6. nmspinning' = Cardinality(Spinners')
  <2>1. m \in Spinners /\ x \notin Spinners /\ Spinners' = (Spinners \ {m}) \cup {x}
    BY <1>0, <1>1, <1>2, <1>3, <1>4, <1>5 DEF TypeOK, Spinners, Spinner
  <2>2. IsFiniteSet(Spinners)
    <3>1. Spinners \in SUBSET M
      BY DEF Spinners
    <3> QED BY <3>1, FS_Subset, SchedAssumption
  <2>3. IsFiniteSet(Spinners \ {m}) /\ Cardinality(Spinners \ {m}) = Cardinality(Spinners) - 1
    BY <2>1, <2>2, FS_RemoveElement
  <2>4. Cardinality(Spinners') = Cardinality(Spinners) - 1 + 1
    BY <2>1, <2>3, FS_AddElement
  <2>5. Cardinality(Spinners) = nmspinning /\ nmspinning \in Nat
    BY <1>0 DEF SchedInv, TypeOK
  <2> QED BY <1>1, <2>4, <2>5
<1> HIDE DEF p
<1>7. TypeOK'
  BY <1>0, <1>1, <1>2, <1>3, <1>5 DEF TypeOK, WithP
<1>8. Control'
  BY <1>0, <1>1, <1>2, <1>3, <1>4, <1>5 DEF TypeOK, Control, WithP
<1>9. /\ \A y \in M : mp'[y] = IF y = x THEN p ELSE mp[y]
      /\ \A y \in M : pp'[y] = IF y = m THEN Nil ELSE pp[y]
  BY <1>0, <1>1, <1>3 DEF TypeOK
<1>10. Separate'
  BY <1>0, <1>1, <1>2, <1>3, <1>4, <1>9, SchedAssumption DEF TypeOK, Separate, p
<1>11. Empty'
  BY <1>0, <1>1, <1>2, <1>4, <1>5, <1>9 DEF TypeOK, Empty, Dry
<1> QED BY <1>6, <1>7, <1>8, <1>10, <1>11 DEF SchedInv

\* injectglist puts goroutines on the global queue, and starts a thread on an
\* idle P for each.
LEMMA InjectKeeps ==
  ASSUME SchedInv, (\E n \in 1 .. 2 : injectglist(n)) \/ startIdle
  PROVE  SchedInv'
<1>0. TypeOK /\ Control /\ Separate /\ Empty /\ nmspinning = Cardinality(Spinners)
  BY DEF SchedInv
<1>1. CASE \E n \in 1 .. 2 : injectglist(n)
  <2>1. /\ glob' \in Nat
        /\ UNCHANGED <<lq, pidle, nmspinning, mp, spinning, pc, ret, todo, pp>>
    BY <1>0, <1>1 DEF injectglist, TypeOK
  <2>2. Spinners' = Spinners
    BY <2>1 DEF Spinners, Spinner
  <2>3. TypeOK' /\ Control' /\ Empty'
    BY <1>0, <2>1 DEF TypeOK, Control, Empty, Dry
  <2> QED BY <1>0, <2>1, <2>2, <2>3, SeparateKept DEF SchedInv
<1>2. CASE startIdle /\ NoIdle
  <2>1. UNCHANGED <<lq, glob, pidle, nmspinning, mp, spinning, pc, ret, todo, pp>>
    BY <1>2 DEF startIdle
  <2>2. Spinners' = Spinners
    BY <2>1 DEF Spinners, Spinner
  <2>3. TypeOK' /\ Control' /\ Empty'
    BY <1>0, <2>1 DEF TypeOK, Control, Empty, Dry
  <2> QED BY <1>0, <2>1, <2>2, <2>3, SeparateKept DEF SchedInv
<1>3. CASE startIdle /\ ~NoIdle
  <2> DEFINE p == pidleget
  <2>1. p \in pidle /\ p \in P /\ p # Nil
    BY <1>0, <1>3, IdleP
  <2>2. /\ startm(p, FALSE) /\ pidle' = pidle \ {p} /\ pc' = Woken(pc)
        /\ UNCHANGED <<lq, glob, nmspinning, ret, todo, pp>>
    BY <1>3 DEF startIdle
  <2> HIDE DEF p
  <2>3. PICK x \in M : /\ pc[x] = "parked" /\ mp[x] = Nil /\ pp[x] = Nil /\ ~spinning[x]
                       /\ mp' = [mp EXCEPT ![x] = p]
                       /\ spinning' = [spinning EXCEPT ![x] = FALSE]
                       /\ \A y \in M : mp'[y] # mp[y] <=> y = x
    BY <1>0, <2>1, <2>2, StartmGives
  <2>4. pc' = [pc EXCEPT ![x] = "top"]
    <3>1. pc' = [y \in M |-> IF y = x THEN "top" ELSE pc[y]]
      BY <1>0, <2>2, <2>3 DEF Woken, TypeOK
    <3> QED BY <1>0, <3>1 DEF TypeOK
  <2>5. Spinners' = Spinners
    BY <1>0, <2>3, <2>4 DEF TypeOK, Spinners, Spinner
  <2>6. TypeOK' /\ Control'
    BY <1>0, <2>1, <2>2, <2>3, <2>4 DEF TypeOK, Control, WithP
  <2>7. \A y \in M : mp'[y] = IF y = x THEN p ELSE mp[y]
    BY <1>0, <2>3 DEF TypeOK
  <2>8. Separate'
    BY <1>0, <2>1, <2>2, <2>3, <2>7 DEF Separate
  <2>9. Empty'
    BY <1>0, <2>2, <2>4, <2>7 DEF TypeOK, Empty, Dry
  <2> QED BY <1>0, <2>2, <2>5, <2>6, <2>8, <2>9 DEF SchedInv
<1> QED BY <1>1, <1>2, <1>3

\* m takes the idle P p.
LEMMA TakeSeparate ==
  ASSUME TypeOK, Separate, NEW m \in M, NEW p \in pidle, p # Nil, mp[m] = Nil,
         mp' = [mp EXCEPT ![m] = p], pidle' = pidle \ {p}, pp' = pp
  PROVE  Separate' /\ \A x \in M : mp'[x] = IF x = m THEN p ELSE mp[x]
<1>1. \A x \in M : mp'[x] = IF x = m THEN p ELSE mp[x]
  BY DEF TypeOK
<1>2. \A x, y \in M : mp'[x] # Nil /\ mp'[x] = mp'[y] => x = y
  BY <1>1 DEF Separate
<1>3. \A x, y \in M : mp'[x] # Nil => mp'[x] # pp'[y]
  BY <1>1 DEF Separate
<1>4. \A x \in M : mp'[x] \notin pidle' /\ pp'[x] \notin pidle'
  BY <1>1 DEF Separate
<1>5. \A q \in P : q \in pidle' \/ \E x \in M : q \in {mp'[x], pp'[x]}
  <2> SUFFICES ASSUME NEW q \in P, q \notin pidle'
               PROVE  \E x \in M : q \in {mp'[x], pp'[x]}
    OBVIOUS
  <2>1. CASE q = p
    BY <1>1, <2>1
  <2>2. CASE q # p
    <3>1. PICK x \in M : q \in {mp[x], pp[x]}
      BY <2>2 DEF Separate
    <3>2. q = pp[x] \/ x # m
      BY <3>1, SchedAssumption
    <3> QED BY <1>1, <3>1, <3>2
  <2> QED BY <2>1, <2>2
<1>6. \A x, y \in M : pp'[x] # Nil /\ pp'[x] = pp'[y] => x = y
  BY DEF Separate
<1> QED BY <1>1, <1>2, <1>3, <1>4, <1>5, <1>6 DEF Separate

\* m gives its P back.
LEMMA GiveSeparate ==
  ASSUME TypeOK, Separate, NEW m \in M, mp[m] # Nil,
         mp' = [mp EXCEPT ![m] = Nil], pidle' = pidle \cup {mp[m]}, pp' = pp
  PROVE  Separate' /\ \A x \in M : mp'[x] = IF x = m THEN Nil ELSE mp[x]
<1>0. mp[m] \in P
  BY DEF TypeOK
<1>1. \A x \in M : mp'[x] = IF x = m THEN Nil ELSE mp[x]
  BY DEF TypeOK
<1>2. \A x, y \in M : mp'[x] # Nil /\ mp'[x] = mp'[y] => x = y
  BY <1>1 DEF Separate
<1>3. \A x, y \in M : mp'[x] # Nil => mp'[x] # pp'[y]
  BY <1>1 DEF Separate
<1>4. \A x \in M : mp'[x] \notin pidle' /\ pp'[x] \notin pidle'
  <2>1. Nil \notin pidle
    BY SchedAssumption DEF TypeOK
  <2> QED BY <1>1, <2>1 DEF Separate
<1>5. \A q \in P : q \in pidle' \/ \E x \in M : q \in {mp'[x], pp'[x]}
  BY <1>1 DEF Separate
<1>6. \A x, y \in M : pp'[x] # Nil /\ pp'[x] = pp'[y] => x = y
  BY DEF Separate
<1> QED BY <1>1, <1>2, <1>3, <1>4, <1>5, <1>6 DEF Separate

\* findRunnable returns the P, whose queue is empty, unless it finds work or is
\* needed as a spinning thread.
LEMMA FindDropKeeps ==
  ASSUME SchedInv, NEW m \in M, findDrop(m)
  PROVE  SchedInv'
<1>0. TypeOK /\ Control /\ Separate /\ Empty
  BY DEF SchedInv
<1>1. pc[m] = "drop" /\ UNCHANGED <<lq, ret, todo, pp>>
  BY DEF findDrop
<1>2. mp[m] \in P /\ mp[m] # Nil /\ lq[mp[m]] = 0
  BY <1>0, <1>1 DEF TypeOK, Control, Empty, Dry, WithP
<1>3. CASE glob > 0
  <2>1. /\ globrunqgetbatch(m) /\ pc' = [pc EXCEPT ![m] = "put"]
        /\ UNCHANGED <<pidle, nmspinning, mp, spinning>>
    <3>1. glob # 0
      BY <1>3
    <3> QED BY <1>3, <3>1 DEF findDrop, Goto
  <2>2. glob' \in Nat
    BY <1>0, <1>3, <2>1, BatchKeeps
  <2>3. nmspinning' \in Nat /\ nmspinning' = Cardinality(Spinners')
    BY <1>0, <1>1, <2>1, CountKept DEF TypeOK, Spinner
  <2>4. TypeOK' /\ Control'
    BY <1>0, <1>1, <2>1, <2>2, <2>3 DEF TypeOK, Control, WithP
  <2>5. Empty'
    BY <1>0, <1>1, <1>2, <2>1, <2>2 DEF TypeOK, Control, Separate, Empty, Dry, WithP
  <2> QED BY <1>0, <1>1, <2>1, <2>3, <2>4, <2>5, SeparateKept DEF SchedInv
<1>4. CASE glob = 0 /\ ~spinning[m] /\ needspinning
  <2>1. /\ spinning' = [spinning EXCEPT ![m] = TRUE] /\ nmspinning' = nmspinning + 1
        /\ pc' = [pc EXCEPT ![m] = "top"] /\ UNCHANGED <<glob, pidle, mp>>
    BY <1>4 DEF findDrop, Goto, Set
  <2>2. nmspinning' \in Nat /\ nmspinning' = Cardinality(Spinners')
    BY <1>0, <1>1, <1>4, <2>1, CountKept DEF TypeOK, Spinner
  <2>3. TypeOK' /\ Control' /\ Empty'
    BY <1>0, <1>1, <2>1, <2>2 DEF TypeOK, Control, Empty, Dry, WithP
  <2> QED BY <1>0, <1>1, <2>1, <2>2, <2>3, SeparateKept DEF SchedInv
<1>5. CASE ~(glob > 0) /\ ~(glob = 0 /\ ~spinning[m] /\ needspinning)
  <2> DEFINE l == IF spinning[m] THEN "dance" ELSE "parked"
  <2>1. /\ pidle' = pidle \cup {mp[m]} /\ mp' = [mp EXCEPT ![m] = Nil]
        /\ pc' = [pc EXCEPT ![m] = l] /\ UNCHANGED <<glob, nmspinning, spinning>>
    BY <1>5 DEF findDrop, Goto, Set
  <2>2. nmspinning' \in Nat /\ nmspinning' = Cardinality(Spinners')
    BY <1>0, <1>1, <2>1, CountKept DEF TypeOK, Spinner
  <2>3. Separate' /\ \A x \in M : mp'[x] = IF x = m THEN Nil ELSE mp[x]
    BY <1>0, <1>1, <1>2, <2>1, GiveSeparate
  <2>4. TypeOK'
    <3>1. l \in WithoutP
      BY DEF WithoutP
    <3> QED BY <1>0, <1>1, <1>2, <2>1, <2>2, <3>1 DEF TypeOK
  <2>5. Control'
    BY <1>0, <1>1, <2>1, <2>3 DEF TypeOK, Control, WithP
  <2>6. Empty'
    BY <1>0, <1>1, <1>2, <2>1, <2>3 DEF TypeOK, Empty, Dry
  <2> QED BY <2>2, <2>3, <2>4, <2>5, <2>6 DEF SchedInv
<1> QED BY <1>3, <1>4, <1>5

\* The second look at the global queue, with an idle P for what is there.
LEMMA RecheckGlobalKeeps ==
  ASSUME SchedInv, NEW m \in M, recheckGlobal(m)
  PROVE  SchedInv'
<1>0. TypeOK /\ Control /\ Separate /\ Empty
  BY DEF SchedInv
<1>1. pc[m] = "recheckGlobal" /\ UNCHANGED <<lq, nmspinning, spinning, ret, pp>>
  BY DEF recheckGlobal
<1>2. mp[m] = Nil /\ pp[m] = Nil /\ ~spinning[m]
  BY <1>0, <1>1 DEF Control, WithP
<1>3. CASE glob > 0 /\ ~NoIdle
  <2> DEFINE p == pidleget
  <2>1. p \in pidle /\ p \in P /\ p # Nil
    BY <1>0, <1>3, IdleP
  <2>2. /\ globrunqgetbatch(m) /\ pidle' = pidle \ {p} /\ mp' = [mp EXCEPT ![m] = p]
        /\ pc' = [pc EXCEPT ![m] = "putRecheck"] /\ UNCHANGED todo
    BY <1>3 DEF recheckGlobal, Goto, Set
  <2> HIDE DEF p
  <2>3. glob' \in Nat
    BY <1>0, <1>3, <2>2, BatchKeeps
  <2>4. nmspinning' \in Nat /\ nmspinning' = Cardinality(Spinners')
    BY <1>0, <1>1, <2>2, CountKept DEF TypeOK, Spinner
  <2>5. Separate' /\ \A x \in M : mp'[x] = IF x = m THEN p ELSE mp[x]
    BY <1>0, <1>1, <1>2, <2>1, <2>2, TakeSeparate
  <2>6. TypeOK'
    BY <1>0, <1>1, <2>1, <2>2, <2>3, <2>4 DEF TypeOK, WithP
  <2>7. Control'
    BY <1>0, <1>1, <1>2, <2>1, <2>2, <2>5 DEF TypeOK, Control, WithP
  <2>8. Empty'
    BY <1>0, <1>1, <2>1, <2>2, <2>3, <2>5 DEF TypeOK, Control, Separate, Empty, Dry, WithP
  <2> QED BY <2>4, <2>5, <2>6, <2>7, <2>8 DEF SchedInv
<1>4. CASE ~(glob > 0 /\ ~NoIdle)
  <2>1. /\ pc' = [pc EXCEPT ![m] = "recheck"] /\ todo' = [todo EXCEPT ![m] = P]
        /\ UNCHANGED <<glob, pidle, mp>>
    BY <1>4 DEF recheckGlobal, Goto, Set
  <2>2. nmspinning' \in Nat /\ nmspinning' = Cardinality(Spinners')
    BY <1>0, <1>1, <2>1, CountKept DEF TypeOK, Spinner
  <2>3. TypeOK' /\ Control' /\ Empty'
    BY <1>0, <1>1, <2>1, <2>2 DEF TypeOK, Control, Empty, Dry, WithP, WithoutP
  <2> QED BY <1>0, <1>1, <2>1, <2>2, <2>3, SeparateKept DEF SchedInv
<1> QED BY <1>3, <1>4

\* ... and at the local ones.
LEMMA CheckRunqsLockKeeps ==
  ASSUME SchedInv, NEW m \in M, checkRunqsLock(m)
  PROVE  SchedInv'
<1>0. TypeOK /\ Control /\ Separate /\ Empty
  BY DEF SchedInv
<1>1. pc[m] = "recheckLock" /\ UNCHANGED <<lq, glob, nmspinning, spinning, todo, pp>>
  BY DEF checkRunqsLock
<1>2. mp[m] = Nil /\ pp[m] = Nil /\ ~spinning[m]
  BY <1>0, <1>1 DEF Control, WithP
<1>3. CASE ~NoIdle
  <2> DEFINE p == pidleget
  <2>1. p \in pidle /\ p \in P /\ p # Nil
    BY <1>0, <1>3, IdleP
  <2>2. /\ pidle' = pidle \ {p} /\ mp' = [mp EXCEPT ![m] = p]
        /\ pc' = [pc EXCEPT ![m] = "become"] /\ ret' = [ret EXCEPT ![m] = "top"]
    BY <1>3 DEF checkRunqsLock, Call, Goto, Set
  <2> HIDE DEF p
  <2>3. nmspinning' \in Nat /\ nmspinning' = Cardinality(Spinners')
    BY <1>0, <1>1, <2>2, CountKept DEF TypeOK, Spinner
  <2>4. Separate' /\ \A x \in M : mp'[x] = IF x = m THEN p ELSE mp[x]
    BY <1>0, <1>1, <1>2, <2>1, <2>2, TakeSeparate
  <2>5. TypeOK'
    BY <1>0, <1>1, <2>1, <2>2, <2>3 DEF TypeOK, WithP
  <2>6. Control'
    BY <1>0, <1>1, <1>2, <2>1, <2>2, <2>4 DEF TypeOK, Control, WithP
  <2>7. Empty'
    BY <1>0, <1>1, <2>2, <2>4 DEF TypeOK, Empty, Dry
  <2> QED BY <2>3, <2>4, <2>5, <2>6, <2>7 DEF SchedInv
<1>4. CASE NoIdle
  <2>1. pc' = [pc EXCEPT ![m] = "parked"] /\ UNCHANGED <<pidle, mp, ret>>
    BY <1>4 DEF checkRunqsLock, Goto
  <2>2. nmspinning' \in Nat /\ nmspinning' = Cardinality(Spinners')
    BY <1>0, <1>1, <2>1, CountKept DEF TypeOK, Spinner
  <2>3. TypeOK' /\ Control' /\ Empty'
    BY <1>0, <1>1, <2>1, <2>2 DEF TypeOK, Control, Empty, Dry, WithP, WithoutP
  <2> QED BY <1>0, <1>1, <2>1, <2>2, <2>3, SeparateKept DEF SchedInv
<1> QED BY <1>3, <1>4

-----------------------------------------------------------------------------
(* What threads have in their hands.                                       *)

\* A goroutine readies another, yields or blocks.
LEMMA HandsGo ==
  ASSUME TypeOK, Control, Hands, NEW m \in M, Go(m)
  PROVE  Hands'
BY DEF TypeOK, Control, Hands, Carries, Go, ready, goschedImpl, park, Call, Goto, Set, schedVars

\* The steps of wakep and of becomeSpinning, and those that look for work.
LEMMA HandsKept ==
  ASSUME TypeOK, Control, Hands, NEW m \in M,
         \/ wakep(m) \/ wakepLock(m) \/ findSpin(m) \/ becomeSpinning(m) \/ becomeSpinning2(m)
         \/ dance(m) \/ checkRunqsNoP(m) \/ checkRunqsLock(m) \/ schedule(m)
  PROVE  Hands'
<1>1. CASE wakep(m) \/ wakepLock(m)
  BY <1>1 DEF TypeOK, Control, Hands, Carries, wakep, wakepLock, Return, Goto, Set
<1>2. CASE findSpin(m) \/ becomeSpinning(m) \/ becomeSpinning2(m)
  BY <1>2 DEF TypeOK, Control, Hands, Carries, findSpin, becomeSpinning, becomeSpinning2,
     Call, Return, Goto, Set
<1>3. CASE dance(m) \/ checkRunqsNoP(m) \/ checkRunqsLock(m)
  BY <1>3 DEF TypeOK, Control, Hands, Carries, dance, checkRunqsNoP, checkRunqsLock, Call, Goto, Set
<1>4. CASE schedule(m)
  BY <1>4 DEF TypeOK, Control, Hands, Carries, schedule, Call, Goto, Set
<1> QED BY <1>1, <1>2, <1>3, <1>4

\* A thread is started: it was parked, with nothing in its hand.
LEMMA HandsStart ==
  ASSUME TypeOK, Control, Hands
  PROVE  /\ \A m \in M : wakepStart(m) => Hands'
         /\ startIdle => Hands'
<1>1. ASSUME NEW m \in M, wakepStart(m)
      PROVE  Hands'
  <2>1. pp[m] \in P /\ startm(pp[m], TRUE) /\ pc[m] = "startm" /\ hand' = hand
    BY <1>1 DEF wakepStart, TypeOK, Control
  <2>2. PICK x \in M : pc[x] = "parked" /\ \A y \in M : mp'[y] # mp[y] <=> y = x
    BY <2>1, StartmGives
  <2>3. pc' = [y \in M |-> IF y = x THEN "top" ELSE IF y = m THEN ret[m] ELSE pc[y]]
    BY <1>1, <2>2 DEF wakepStart, Woken, Set, TypeOK
  <2>4. ret' = [ret EXCEPT ![m] = Nil] /\ ret[m] \in {"run", "top"}
    BY <1>1, <2>1 DEF wakepStart, Set, Control
  <2> QED BY <2>1, <2>2, <2>3, <2>4 DEF TypeOK, Hands, Carries
<1>2. ASSUME startIdle
      PROVE  Hands'
  <2>1. hand' = hand /\ ret' = ret
    BY <1>2 DEF startIdle
  <2>2. CASE NoIdle
    BY <1>2, <2>1, <2>2 DEF startIdle, Hands, Carries
  <2>3. CASE ~NoIdle
    <3>1. startm(pidleget, FALSE) /\ pidleget \in P /\ pc' = Woken(pc)
      BY <1>2, <2>3, IdleP DEF startIdle
    <3>2. PICK x \in M : pc[x] = "parked" /\ \A y \in M : mp'[y] # mp[y] <=> y = x
      BY <3>1, StartmGives
    <3>3. pc' = [y \in M |-> IF y = x THEN "top" ELSE pc[y]]
      BY <3>1, <3>2 DEF Woken
    <3> QED BY <2>1, <3>2, <3>3 DEF TypeOK, Hands, Carries
  <2> QED BY <2>2, <2>3
<1> QED BY <1>1, <1>2

\* A thread takes goroutines from a queue, or puts what it has taken on its own.
LEMMA HandsTaken ==
  ASSUME TypeOK, Control, Hands, NEW m \in M,
         \/ findTick(m) \/ findLocal(m) \/ findGlobal(m) \/ runqputbatch(m)
         \/ stealWork(m) \/ findDrop(m) \/ recheckGlobal(m)
  PROVE  Hands'
<1>1. CASE findTick(m) \/ findLocal(m) \/ runqputbatch(m)
  BY <1>1 DEF TypeOK, Control, Hands, Carries, findTick, findLocal, runqputbatch, Call, Goto, Set
<1>2. CASE stealWork(m)
  <2>1. pc[m] = "steal" /\ ret' = ret
    BY <1>2 DEF stealWork
  <2>2. CASE pc' = [pc EXCEPT ![m] = "drop"] /\ hand' = hand
    BY <2>1, <2>2 DEF TypeOK, Hands, Carries
  <2>3. ASSUME NEW q \in todo[m], NEW k, k = IF q \in pidle THEN 0 ELSE lq[q] - lq[q] \div 2,
               hand' = Set(hand, m, k), IF k > 0 THEN Goto(m, "put") ELSE UNCHANGED pc
        PROVE  Hands'
    <3>1. k \in Nat
      <4>1. lq[q] \in Nat
        BY DEF TypeOK
      <4> QED BY <2>3, <4>1
    <3> QED BY <2>1, <2>3, <3>1 DEF TypeOK, Hands, Carries, Goto, Set
  <2> QED BY <1>2, <2>2, <2>3 DEF stealWork, Goto
<1>3. CASE findGlobal(m) \/ findDrop(m) \/ recheckGlobal(m)
  <2>1. pc[m] \in {"global", "drop", "recheckGlobal"} /\ ret' = ret
    BY <1>3 DEF findGlobal, findDrop, recheckGlobal
  <2>2. ASSUME globrunqgetbatch(m), glob > 0,
               NEW l \in {"put", "putRecheck"}, pc' = [pc EXCEPT ![m] = l]
        PROVE  Hands'
    <3>1. PICK k \in Nat : k > 0 /\ hand' = [hand EXCEPT ![m] = k]
      BY <2>2, BatchKeeps
    <3> QED BY <2>1, <2>2, <3>1 DEF TypeOK, Hands, Carries
  <2>3. ASSUME hand' = hand,
               NEW l \in {"spin", "top", "dance", "parked", "recheck"}, pc' = [pc EXCEPT ![m] = l]
        PROVE  Hands'
    BY <2>1, <2>3 DEF TypeOK, Hands, Carries
  <2>4. CASE findGlobal(m)
    BY <2>2, <2>3, <2>4 DEF findGlobal, Goto
  <2>5. CASE recheckGlobal(m)
    BY <2>2, <2>3, <2>5 DEF recheckGlobal, Goto
  <2>6. CASE findDrop(m)
    <3>1. CASE glob > 0
      <4>1. glob # 0
        BY <3>1
      <4> QED BY <2>2, <2>6, <3>1, <4>1 DEF findDrop, Goto
    <3>2. CASE ~(glob > 0)
      BY <2>3, <2>6, <3>2 DEF findDrop, Goto
    <3> QED BY <3>1, <3>2
  <2> QED BY <1>3, <2>4, <2>5, <2>6
<1> QED BY <1>1, <1>2, <1>3

-----------------------------------------------------------------------------
(* The invariant, and the theorem.                                         *)

LEMMA InitInv == Init => SchedInv /\ Hands
<1> SUFFICES ASSUME Init
             PROVE  SchedInv /\ Hands
  OBVIOUS
<1> DEFINE p == CHOOSE x \in P : TRUE
           m == CHOOSE x \in M : TRUE
<1>1. p \in P /\ p # Nil /\ m \in M
  BY SchedAssumption
<1>2. /\ lq = [x \in P |-> 0] /\ glob = 0 /\ pidle = P \ {p} /\ nmspinning = 0
      /\ mp = [x \in M |-> IF x = m THEN p ELSE Nil]
      /\ pc = [x \in M |-> IF x = m THEN "run" ELSE "parked"]
      /\ ret = [x \in M |-> Nil] /\ spinning = [x \in M |-> FALSE]
      /\ todo = [x \in M |-> {}] /\ pp = [x \in M |-> Nil]
      /\ hand = [x \in M |-> IF x = m THEN 1 ELSE 0]
  BY DEF Init
<1> HIDE DEF p, m
<1>3. TypeOK
  BY <1>1, <1>2 DEF TypeOK, WithP, WithoutP
<1>4. Control
  BY <1>1, <1>2 DEF Control, WithP
<1>5. Separate
  BY <1>1, <1>2, SchedAssumption DEF Separate
<1>6. Empty
  BY <1>1, <1>2 DEF Empty, Dry
<1>7. Spinners = {}
  BY <1>2 DEF Spinners, Spinner
<1>8. Hands
  BY <1>1, <1>2 DEF Hands, Carries
<1> QED BY <1>2, <1>3, <1>4, <1>5, <1>6, <1>7, <1>8, FS_EmptySet DEF SchedInv

LEMMA NextInv == SchedInv /\ Hands /\ [Next]_vars => SchedInv' /\ Hands'
<1> SUFFICES ASSUME SchedInv, Hands, [Next]_vars
             PROVE  SchedInv' /\ Hands'
  OBVIOUS
<1>0. TypeOK /\ Control
  BY DEF SchedInv
<1>1. ASSUME NEW m \in M, Go(m)
      PROVE  SchedInv' /\ Hands'
  BY <1>0, <1>1, ReadyKeeps, HandsGo DEF Go
<1>2. ASSUME NEW m \in M, Schedule(m)
      PROVE  SchedInv' /\ Hands'
  <2>1. SchedInv'
    BY <1>2, WakepKeeps, WakepLockKeeps, WakepStartKeeps, FindKeeps, FindGlobalKeeps, PutbatchKeeps,
       SpinKeeps, BecomeKeeps, Become2Keeps, StealKeeps, FindDropKeeps, DanceKeeps,
       RecheckGlobalKeeps, CheckRunqsLockKeeps, ScheduleKeeps DEF Schedule
  <2>2. Hands'
    BY <1>0, <1>2, HandsKept, HandsStart, HandsTaken DEF Schedule
  <2> QED BY <2>1, <2>2
<1>3. CASE UNCHANGED vars
  BY <1>3 DEF vars, schedVars, SchedInv, TypeOK, Control, Separate, Empty, Dry, Spinners, Spinner,
     Hands, Carries
<1>4. CASE (\E n \in 1 .. 2 : injectglist(n)) \/ startIdle
  <2>1. Hands'
    BY <1>0, <1>4, HandsStart DEF injectglist, Hands, Carries
  <2> QED BY <1>4, <2>1, InjectKeeps
<1> QED BY <1>1, <1>2, <1>3, <1>4 DEF Next

\* The invariant of the scheduler: what a thread holds at each point of
\* findRunnable, that each P is in one place, that a P is given up only once its
\* queue is empty, and that a thread that has taken a batch keeps it in its hand
\* until runqputbatch and no longer: where it runs, it has one goroutine.
THEOREM SchedInvariant == Spec => [](SchedInv /\ Hands)
BY InitInv, NextInv, PTL DEF Spec

LEMMA InvOwned == SchedInv => Owned
<1> SUFFICES ASSUME SchedInv
             PROVE  Owned
  OBVIOUS
<1>0. TypeOK /\ Separate /\ Empty /\ nmspinning = Cardinality(Spinners)
  BY DEF SchedInv
<1>1. ASSUME NEW p \in P
      PROVE  Cardinality({m \in M : mp[m] = p}) + Cardinality({m \in M : pp[m] = p})
               + (IF p \in pidle THEN 1 ELSE 0) = 1
  <2> DEFINE A == {m \in M : mp[m] = p}
             B == {m \in M : pp[m] = p}
  <2>1. p # Nil
    BY SchedAssumption
  <2>2. CASE p \in pidle
    <3>1. A = {} /\ B = {}
      BY <1>0, <2>2 DEF Separate
    <3> QED BY <2>2, <3>1, FS_EmptySet
  <2>3. CASE \E m \in M : mp[m] = p
    <3>1. PICK m \in M : mp[m] = p
      BY <2>3
    <3>2. A = {m} /\ B = {} /\ p \notin pidle
      BY <1>0, <2>1, <3>1 DEF Separate
    <3>3. Cardinality(A) = 1 /\ Cardinality(B) = 0
      BY <3>2, FS_EmptySet, FS_Singleton
    <3> QED BY <3>2, <3>3
  <2>4. CASE \E m \in M : pp[m] = p
    <3>1. PICK m \in M : pp[m] = p
      BY <2>4
    <3>2. A = {} /\ B = {m} /\ p \notin pidle
      BY <1>0, <2>1, <3>1 DEF Separate
    <3>3. Cardinality(A) = 0 /\ Cardinality(B) = 1
      BY <3>2, FS_EmptySet, FS_Singleton
    <3> QED BY <3>2, <3>3
  <2> QED BY <1>0, <2>2, <2>3, <2>4 DEF Separate
<1>2. ASSUME NEW p \in P, p \in pidle \/ \E m \in M : pp[m] = p
      PROVE  lq[p] = 0
  BY <1>0, <1>2, SchedAssumption DEF Empty
<1>3. Spinners = {m \in M : spinning[m] \/ pc[m] \in {"wakepLock", "startm"}}
  BY DEF Spinners, Spinner
<1> QED BY <1>0, <1>1, <1>2, <1>3 DEF Owned

\* In every reachable state a P is idle, held by one thread, or on its way to
\* one, an idle P has no work, and sched.nmspinning counts what it says.
THEOREM SchedOwned == Spec => []Owned
BY SchedInvariant, InvOwned, PTL

=============================================================================
