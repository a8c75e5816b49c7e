------------------------------ MODULE MutexInv ------------------------------
(***************************************************************************)
(* The inductive invariant behind mutual exclusion.  There is at most one  *)
(* wakeup on its way at any time: a unit in the semaphore, a goroutine     *)
(* that carries it there or from there, or a goroutine that owns the       *)
(* mutexWoken flag.  In normal mode it goes with that flag, in starvation  *)
(* mode it is the ownership of the mutex itself.                           *)
(***************************************************************************)
EXTENDS Mutex, SemaInv

AcquirePC == {"easy", "lock", "check", "undo", "queue", "park", "retry", "acquired"}
ReleasePC == {"xadd", "nwait", "dequeue", "handoff", "ready", "released"}

\* A goroutine is in the semaphore exactly while the mutex has called it.
Linked ==
  \A g \in G :
    /\ mpc[g] = "sema" => spc[g] \in AcquirePC
    /\ mpc[g] = "semrelease" => spc[g] \in ReleasePC
    /\ mpc[g] \notin {"sema", "semrelease"} => spc[g] = "idle"
    /\ spc[g] # "idle" => addr[g] = sema

OneWakeup ==
  /\ val[sema] \in {0, 1}
  /\ val[sema] = 1 => \A g \in G : ~Carries(g) /\ ~Flagged(g)
  /\ \A g, h \in G : (Carries(g) \/ Flagged(g)) /\ (Carries(h) \/ Flagged(h)) => g = h

\* A unit on its way is announced by mutexWoken, or is the mutex handed over.
Announced ==
  (val[sema] = 1 \/ \E g \in G : Carries(g)) =>
    \/ state.woken /\ ~state.starving
    \/ state.starving /\ ~state.locked /\ ~state.woken

FlagSet == \A g \in G : Flagged(g) => state.woken /\ ~state.starving

\* The hand-over is not disturbed while its receiver fixes the state: only more
\* waiters can arrive.
HandedOver ==
  \A g \in G : mpc[g] = "fix" =>
    state.starving /\ ~state.locked /\ old[g].waiters \in 1..state.waiters

\* What the locals of lockSlow and TryLock remember.
Locals ==
  \A g \in G :
    /\ mpc[g] \in {"load", "loop"} /\ starving[g] => awoke[g]
    /\ mpc[g] = "loop" /\ awoke[g] => old[g].woken
    /\ mpc[g] = "try" => ~old[g].locked /\ ~old[g].starving

HeldLocked == \A g \in G : mpc[g] = "held" => state.locked
ModeOK     == state.starving => ~state.woken /\ state.waiters > 0

IInv == /\ TypeOK /\ SemaInvariant /\ Linked /\ OneWakeup /\ Announced /\ FlagSet
        /\ HandedOver /\ Locals /\ HeldLocked /\ ModeOK /\ NoThrow
        /\ MutualExclusion

=============================================================================
