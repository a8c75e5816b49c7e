------------------------------- MODULE Sched --------------------------------
(***************************************************************************)
(* How threads look for goroutines to run, go to sleep and are woken       *)
(* (runtime/proc.go): wakep, startm, findRunnable with its "delicate       *)
(* dance", resetspinning, and injectglist by a thread without a P.         *)
(*                                                                         *)
(* A step is one access to sched.nmspinning, to one queue, or a section    *)
(* under sched.lock.  A queue is a number of goroutines: module Runq shows *)
(* that none of them is lost or taken twice.  Goroutines that a thread has *)
(* taken from one queue and not yet put on its own are in no queue.        *)
(***************************************************************************)
EXTENDS Integers, FiniteSets, FiniteSetsExt

CONSTANTS
  P, M,        \* processors and threads
  Nil,
  MaxG         \* bound: goroutines that are runnable or run

ASSUME SchedAssumption ==
  /\ Nil \notin P \cup M
  /\ IsFiniteSet(P) /\ P # {} /\ IsFiniteSet(M) /\ M # {}

VARIABLES
  lq, glob,               \* goroutines in each local queue and in the global one
  pidle,                  \* sched.pidle
  nmspinning, needspinning,
  mp,                     \* the P of each thread
  spinning,               \* m.spinning
  pc, ret,                \* ret: where wakep and becomeSpinning return to
  todo,                   \* Ps a thread has yet to look at
  pp,                     \* the P that wakep has taken, for startm
  inj,                    \* threads that injectglist has yet to start
  hand                    \* goroutines a thread has taken from the queues

schedVars == <<lq, glob, pidle, nmspinning, needspinning>>
vars == <<schedVars, mp, spinning, pc, ret, todo, pp, inj, hand>>

Goto(m, l) == pc' = [pc EXCEPT ![m] = l]
Set(f, x, v) == [f EXCEPT ![x] = v]
Call(m, l, r) == Goto(m, l) /\ ret' = Set(ret, m, r)
Return(m) == Goto(m, ret[m]) /\ ret' = Set(ret, m, Nil)

\* The goroutines that are runnable or run.
Total == glob + MapThenSumSet(LAMBDA p : lq[p], P) + MapThenSumSet(LAMBDA m : hand[m], M)

\* The main goroutine runs, on one P; the other Ps are idle.
Init ==
  LET p == CHOOSE x \in P : TRUE
      m == CHOOSE x \in M : TRUE
  IN  /\ lq = [x \in P |-> 0] /\ glob = 0
      /\ pidle = P \ {p}
      /\ nmspinning = 0 /\ needspinning = FALSE
      /\ mp = [x \in M |-> IF x = m THEN p ELSE Nil]
      /\ pc = [x \in M |-> IF x = m THEN "run" ELSE "parked"]
      /\ ret = [x \in M |-> Nil]
      /\ spinning = [x \in M |-> FALSE] /\ todo = [x \in M |-> {}]
      /\ pp = [x \in M |-> Nil] /\ inj = 0
      /\ hand = [x \in M |-> IF x = m THEN 1 ELSE 0]

\* pidleget takes the P at the head of the list: they are alike.
pidleget == CHOOSE p \in pidle : TRUE
NoIdle   == pidle = {}

\* startm: a thread that is parked gets p and is woken.  (newm would make one
\* where none is: it waits for one here.)
startm(p, spin) ==
  LET m == CHOOSE x \in M : pc[x] = "parked"
  IN  /\ \E x \in M : pc[x] = "parked"
      /\ mp' = Set(mp, m, p) /\ spinning' = Set(spinning, m, spin)

\* Where the threads are once startm has woken one and its caller has gone on.
Woken(pcs) == [x \in M |-> IF mp'[x] # mp[x] THEN "top" ELSE pcs[x]]

\* globrunqgetbatch: one goroutine to run and more for the local queue.
globrunqgetbatch(m) ==
  LET k == Min({glob, glob \div Cardinality(P) + 1})
  IN  glob' = glob - k /\ hand' = Set(hand, m, k)

-----------------------------------------------------------------------------
(* Submitting work.                                                        *)

\* ready: runqput, then wakep.
ready(m) ==
  /\ pc[m] = "run" /\ Total < MaxG
  /\ lq' = [lq EXCEPT ![mp[m]] = @ + 1]
  /\ Call(m, "wakep", "run")
  /\ UNCHANGED <<glob, pidle, nmspinning, needspinning, mp, spinning, todo, pp, inj, hand>>

\* "only start one if none exist already"
wakep(m) ==
  /\ pc[m] = "wakep"
  /\ IF nmspinning = 0 THEN nmspinning' = 1 /\ Goto(m, "wakepLock") /\ UNCHANGED ret
                       ELSE Return(m) /\ UNCHANGED nmspinning
  /\ UNCHANGED <<lq, glob, pidle, needspinning, mp, spinning, todo, pp, inj, hand>>

\* Mutant: the count is not taken back.
wakepLockLeak(m) ==
  /\ pc[m] = "wakepLock"
  /\ IF NoIdle
       THEN /\ needspinning' = TRUE
            /\ Return(m) /\ UNCHANGED <<pidle, pp>>
       ELSE /\ pp' = Set(pp, m, pidleget) /\ pidle' = pidle \ {pidleget}
            /\ Goto(m, "startm") /\ UNCHANGED <<needspinning, ret>>
  /\ UNCHANGED <<lq, glob, nmspinning, mp, spinning, todo, inj, hand>>

\* Its section under sched.lock, with pidlegetSpinning.
wakepLock(m) ==
  /\ pc[m] = "wakepLock"
  /\ IF NoIdle
       THEN /\ needspinning' = TRUE /\ nmspinning' = nmspinning - 1
            /\ Return(m) /\ UNCHANGED <<pidle, pp>>
       ELSE /\ pp' = Set(pp, m, pidleget) /\ pidle' = pidle \ {pidleget}
            /\ Goto(m, "startm") /\ UNCHANGED <<nmspinning, needspinning, ret>>
  /\ UNCHANGED <<lq, glob, mp, spinning, todo, inj, hand>>

wakepStart(m) ==
  /\ pc[m] = "startm"
  /\ startm(pp[m], TRUE)
  /\ pc' = Woken(Set(pc, m, ret[m]))
  /\ pp' = Set(pp, m, Nil) /\ ret' = Set(ret, m, Nil)
  /\ UNCHANGED <<schedVars, todo, inj, hand>>

\* injectglist by a thread that has no P (sysmon, after netpoll).
injectglist(n) ==
  /\ inj = 0 /\ Total + n <= MaxG
  /\ glob' = glob + n
  /\ inj' = n
  /\ UNCHANGED <<lq, pidle, nmspinning, needspinning, mp, spinning, pc, ret, todo, pp, hand>>

\* Its startIdle, under sched.lock: one thread more, while there are idle Ps.
startIdle ==
  /\ inj > 0
  /\ IF NoIdle
       THEN needspinning' = TRUE /\ inj' = 0 /\ UNCHANGED <<pidle, mp, spinning, pc>>
       ELSE /\ startm(pidleget, FALSE) /\ pidle' = pidle \ {pidleget}
            /\ pc' = Woken(pc)
            /\ inj' = inj - 1 /\ UNCHANGED needspinning
  /\ UNCHANGED <<lq, glob, nmspinning, ret, todo, pp, hand>>

\* The goroutine yields or is preempted: it goes to the global queue.
goschedImpl(m) ==
  /\ pc[m] = "run"
  /\ glob' = glob + 1 /\ hand' = Set(hand, m, 0)
  /\ Call(m, "wakep", "top")
  /\ UNCHANGED <<lq, pidle, nmspinning, needspinning, mp, spinning, todo, pp, inj>>

\* The goroutine blocks or exits.
park(m) ==
  /\ pc[m] = "run"
  /\ Goto(m, "top") /\ hand' = Set(hand, m, 0)
  /\ UNCHANGED <<schedVars, mp, spinning, ret, todo, pp, inj>>

-----------------------------------------------------------------------------
(* findRunnable.                                                           *)

\* The global queue first, once in a while,
findTick(m) ==
  /\ pc[m] = "top" /\ glob > 0
  /\ glob' = glob - 1 /\ hand' = Set(hand, m, 1) /\ Goto(m, "found")
  /\ UNCHANGED <<lq, pidle, nmspinning, needspinning, mp, spinning, ret, todo, pp, inj>>

\* ... else the local queue
findLocal(m) ==
  /\ pc[m] = "top"
  /\ IF lq[mp[m]] > 0
       THEN lq' = [lq EXCEPT ![mp[m]] = @ - 1] /\ hand' = Set(hand, m, 1) /\ Goto(m, "found")
       ELSE Goto(m, "global") /\ UNCHANGED <<lq, hand>>
  /\ UNCHANGED <<glob, pidle, nmspinning, needspinning, mp, spinning, ret, todo, pp, inj>>

\* ... and the global one.
findGlobal(m) ==
  /\ pc[m] = "global"
  /\ IF glob > 0 THEN globrunqgetbatch(m) /\ Goto(m, "put")
                 ELSE Goto(m, "spin") /\ UNCHANGED <<glob, hand>>
  /\ UNCHANGED <<lq, pidle, nmspinning, needspinning, mp, spinning, ret, todo, pp, inj>>

\* runqputbatch, and the store of runqtail in runqsteal: after the unlock, or the
\* CAS, that took them, all but the one to run become visible in the local queue.
runqputbatch(m) ==
  /\ pc[m] \in {"put", "putRecheck"}
  /\ lq' = [lq EXCEPT ![mp[m]] = @ + hand[m] - 1]
  /\ hand' = Set(hand, m, 1)
  /\ IF pc[m] = "put" THEN Goto(m, "found") /\ UNCHANGED ret ELSE Call(m, "become", "found")
  /\ UNCHANGED <<glob, pidle, nmspinning, needspinning, mp, spinning, todo, pp, inj>>

\* Spinning already, allowed to spin, or off to give up the P.
findSpin(m) ==
  /\ pc[m] = "spin"
  /\ IF spinning[m]
       THEN /\ Goto(m, "steal") /\ todo' = Set(todo, m, P \ {mp[m]})
            /\ UNCHANGED ret
       ELSE /\ IF 2 * nmspinning < Cardinality(P) - Cardinality(pidle)
                 THEN Call(m, "become", "spin")
                 ELSE Goto(m, "drop") /\ UNCHANGED ret
            /\ UNCHANGED todo
  /\ UNCHANGED <<schedVars, mp, spinning, pp, inj, hand>>

\* m.becomeSpinning, two accesses,
becomeSpinning(m) ==
  /\ pc[m] = "become"
  /\ spinning' = Set(spinning, m, TRUE) /\ nmspinning' = nmspinning + 1
  /\ Goto(m, "become2")
  /\ UNCHANGED <<lq, glob, pidle, needspinning, mp, ret, todo, pp, inj, hand>>

becomeSpinning2(m) ==
  /\ pc[m] = "become2"
  /\ needspinning' = FALSE
  /\ Return(m)
  /\ UNCHANGED <<lq, glob, pidle, nmspinning, mp, spinning, todo, pp, inj, hand>>

\* stealWork: half of the queue of a P that is not idle.  A step is a P of the
\* last of its passes over the Ps, the one that takes runnext too.
stealWork(m) ==
  /\ pc[m] = "steal"
  /\ \/ \E q \in todo[m] :
          LET k == IF q \in pidle THEN 0 ELSE lq[q] - lq[q] \div 2
          IN  /\ todo' = Set(todo, m, IF k > 0 THEN {} ELSE todo[m] \ {q})
              /\ lq' = [lq EXCEPT ![q] = @ - k] /\ hand' = Set(hand, m, k)
              /\ IF k > 0 THEN Goto(m, "put") ELSE UNCHANGED pc
     \/ todo[m] = {} /\ Goto(m, "drop") /\ UNCHANGED <<lq, todo, hand>>
  /\ UNCHANGED <<glob, pidle, nmspinning, needspinning, mp, spinning, ret, pp, inj>>

\* "return P and block" (stopm puts it on the list of parked threads), under
\* sched.lock: unless there is global work, or somebody needs a spinning thread.
findDrop(m) ==
  /\ pc[m] = "drop"
  /\ CASE glob > 0 ->
            /\ globrunqgetbatch(m) /\ Goto(m, "put")
            /\ UNCHANGED <<pidle, nmspinning, needspinning, mp, spinning>>
       [] glob = 0 /\ ~spinning[m] /\ needspinning ->
            /\ spinning' = Set(spinning, m, TRUE)
            /\ nmspinning' = nmspinning + 1 /\ needspinning' = FALSE
            /\ Goto(m, "top")
            /\ UNCHANGED <<glob, pidle, mp, hand>>
       [] OTHER ->
            /\ pidle' = pidle \cup {mp[m]} /\ mp' = Set(mp, m, Nil)
            /\ Goto(m, IF spinning[m] THEN "dance" ELSE "parked")
            /\ UNCHANGED <<glob, nmspinning, needspinning, spinning, hand>>
  /\ UNCHANGED <<lq, ret, todo, pp, inj>>

\* Mutant: the sources of work are not looked at again.
danceBlind(m) ==
  /\ pc[m] = "dance"
  /\ spinning' = Set(spinning, m, FALSE) /\ nmspinning' = nmspinning - 1
  /\ Goto(m, "parked")
  /\ UNCHANGED <<lq, glob, pidle, needspinning, mp, ret, todo, pp, inj, hand>>

\* "We must drop nmspinning first and then check all sources again."
dance(m) ==
  /\ pc[m] = "dance"
  /\ spinning' = Set(spinning, m, FALSE) /\ nmspinning' = nmspinning - 1
  /\ Goto(m, "recheckGlobal")
  /\ UNCHANGED <<lq, glob, pidle, needspinning, mp, ret, todo, pp, inj, hand>>

\* The global queue again, with a P for it if there is one.
recheckGlobal(m) ==
  /\ pc[m] = "recheckGlobal"
  /\ IF glob > 0 /\ ~NoIdle
       THEN /\ globrunqgetbatch(m) /\ Goto(m, "putRecheck")
            /\ pidle' = pidle \ {pidleget} /\ mp' = Set(mp, m, pidleget)
            /\ UNCHANGED <<needspinning, todo>>
       ELSE /\ needspinning' = (needspinning \/ glob > 0)
            /\ Goto(m, "recheck") /\ todo' = Set(todo, m, P)
            /\ UNCHANGED <<glob, pidle, mp, hand>>
  /\ UNCHANGED <<lq, nmspinning, spinning, ret, pp, inj>>

\* checkRunqsNoP: is there a queue with work?
checkRunqsNoP(m) ==
  /\ pc[m] = "recheck"
  /\ \/ \E q \in todo[m] :
          IF q \notin pidle /\ lq[q] > 0
            THEN Goto(m, "recheckLock") /\ todo' = Set(todo, m, {})
            ELSE todo' = Set(todo, m, todo[m] \ {q}) /\ UNCHANGED pc
     \/ todo[m] = {} /\ Goto(m, "parked") /\ UNCHANGED todo
  /\ UNCHANGED <<schedVars, mp, spinning, ret, pp, inj, hand>>

\* ... then a P for it, or to sleep.
checkRunqsLock(m) ==
  /\ pc[m] = "recheckLock"
  /\ IF NoIdle
       THEN /\ needspinning' = TRUE /\ Goto(m, "parked")
            /\ UNCHANGED <<pidle, mp, ret>>
       ELSE /\ pidle' = pidle \ {pidleget} /\ mp' = Set(mp, m, pidleget)
            /\ Call(m, "become", "top")
            /\ UNCHANGED needspinning
  /\ UNCHANGED <<lq, glob, nmspinning, spinning, todo, pp, inj, hand>>

\* schedule, with a goroutine to run: resetspinning, which calls wakep.
schedule(m) ==
  /\ pc[m] = "found"
  /\ IF spinning[m]
       THEN /\ spinning' = Set(spinning, m, FALSE) /\ nmspinning' = nmspinning - 1
            /\ Call(m, "wakep", "run")
       ELSE Goto(m, "run") /\ UNCHANGED <<spinning, nmspinning, ret>>
  /\ UNCHANGED <<lq, glob, pidle, needspinning, mp, todo, pp, inj, hand>>

-----------------------------------------------------------------------------

\* What a goroutine does, and what the scheduler does.
Go(m) == ready(m) \/ goschedImpl(m) \/ park(m)

Schedule(m) ==
  \/ wakep(m) \/ wakepLock(m) \/ wakepStart(m)
  \/ findTick(m) \/ findLocal(m) \/ findGlobal(m) \/ runqputbatch(m) \/ findSpin(m)
  \/ becomeSpinning(m) \/ becomeSpinning2(m) \/ stealWork(m) \/ findDrop(m)
  \/ dance(m) \/ recheckGlobal(m) \/ checkRunqsNoP(m) \/ checkRunqsLock(m)
  \/ schedule(m)

Next == (\E m \in M : Go(m) \/ Schedule(m)) \/ (\E n \in 1 .. 2 : injectglist(n)) \/ startIdle

\* Threads make progress in the scheduler; a goroutine may run for ever.
Spec == /\ Init /\ [][Next]_vars
        /\ \A m \in M : WF_vars(Schedule(m))
        /\ WF_vars(startIdle)

-----------------------------------------------------------------------------
(* Properties.                                                             *)

\* A P belongs to one: the idle list, a thread, or a wakep on its way to startm;
\* where it is idle it has no work.  sched.nmspinning counts the threads that
\* spin and the calls of wakep that will start one.
Owned ==
  /\ \A p \in P : Cardinality({m \in M : mp[m] = p}) + Cardinality({m \in M : pp[m] = p})
                    + (IF p \in pidle THEN 1 ELSE 0) = 1
  /\ \A p \in P : p \in pidle \/ (\E m \in M : pp[m] = p) => lq[p] = 0
  /\ nmspinning = Cardinality({m \in M : spinning[m] \/ pc[m] \in {"wakepLock", "startm"}})

\* A goroutine waits in a queue.
Work == glob > 0 \/ \E p \in P : lq[p] > 0

\* The window of the batch: a thread that does not spin, and so will not call
\* wakep, has taken goroutines and not put them on its queue yet, while a thread
\* that has stopped spinning looks at the queues for the last time, this one too.
Unseen == \E m, n \in M : /\ pc[m] = "put" /\ ~spinning[m] /\ hand[m] > 1
                          /\ pc[n] = "recheck" /\ mp[m] \in todo[n]

\* Work conservation: a runnable goroutine and an idle P do not last, even if
\* the goroutines that run never give up their Ps, unless a batch goes Unseen.
WorkConserving == []~Unseen => ((Work /\ pidle # {}) ~> (~Work \/ pidle = {}))

\* What the comment at the top of proc.go says of all executions: "either one part
\* or another needs to unpark another worker thread".  A goroutine does not wait
\* beside an idle P with every thread running a goroutine or asleep.
SomebodyUnparks ==
  ~(Work /\ pidle # {} /\ inj = 0 /\ \A m \in M : pc[m] \in {"run", "parked"})

=============================================================================
