------------------------------- MODULE Mutex --------------------------------
(***************************************************************************)
(* sync.Mutex (internal/sync/mutex.go) on top of module Sema: Lock with    *)
(* its fast path, spinning and the two modes of lockSlow, TryLock, Unlock. *)
(*                                                                         *)
(* The state word is a record of its bits and its waiter count.  A step is *)
(* one atomic access to it; what a goroutine computes from its locals goes *)
(* with the access that follows.                                           *)
(***************************************************************************)
EXTENDS Sema, FiniteSets

CONSTANTS
  sema,      \* the address of m.sema
  MaxSpin,   \* how often runtime_canSpin lets a goroutine spin (active_spin)
  Patience,  \* bound: how often a waiter can be woken within 1ms of its first sleep
  MaxCalls   \* bound: Lock and TryLock calls in all

ASSUME MutexAssumption ==
  sema \in Addr /\ MaxSpin \in Nat /\ Patience \in Nat /\ MaxCalls \in Nat

ASSUME FiniteAssumption == IsFiniteSet(G)

VARIABLES
  state,     \* m.state
  mpc, calls,
  old,       \* the local old of lockSlow, TryLock or unlockSlow
  awoke, starving, iter,   \* locals of lockSlow
  slept      \* how often this Lock has slept: waitStartTime != 0 once it has

lockVars  == <<awoke, starving, iter, slept>>
mutexVars == <<state, mpc, calls, old, awoke, starving, iter, slept>>
vars == <<semaVars, mutexVars>>

State == [locked : BOOLEAN, woken : BOOLEAN, starving : BOOLEAN, waiters : Nat]
Free  == [locked |-> FALSE, woken |-> FALSE, starving |-> FALSE, waiters |-> 0]

MPC == {"out", "load", "loop", "sema", "fix", "held", "try", "unlockSlow",
        "unlockLoad", "semrelease", "throw"}

MGoto(g, l) == mpc' = [mpc EXCEPT ![g] = l]

\* The locals of lockSlow, which are gone when it has returned, and old, which is
\* gone when the access it was loaded for has been made.
Fresh(g) ==
  /\ awoke' = [awoke EXCEPT ![g] = FALSE]
  /\ starving' = [starving EXCEPT ![g] = FALSE]
  /\ iter' = [iter EXCEPT ![g] = 0]
  /\ slept' = [slept EXCEPT ![g] = 0]

ForgetOld(g) == old' = [old EXCEPT ![g] = Free]

-----------------------------------------------------------------------------
(* Lock.                                                                   *)

\* The fast path, a CAS from 0; if it fails, lockSlow starts afresh.
Lock(g) ==
  /\ mpc[g] = "out" /\ calls < MaxCalls
  /\ calls' = calls + 1
  /\ IF state = Free
       THEN state' = [state EXCEPT !.locked = TRUE] /\ MGoto(g, "held")
       ELSE UNCHANGED state /\ MGoto(g, "load")
  /\ Fresh(g)
  /\ UNCHANGED <<old, semaVars>>

\* `old = m.state`
lockLoad(g) ==
  /\ mpc[g] = "load"
  /\ old' = [old EXCEPT ![g] = state]
  /\ MGoto(g, "loop")
  /\ UNCHANGED <<state, calls, awoke, starving, iter, slept, semaVars>>

\* Mutant: takes itself to be flagged even if the CAS failed.
lockSpinBlind(g) ==
  /\ mpc[g] = "loop"
  /\ old[g].locked /\ ~old[g].starving /\ iter[g] < MaxSpin
  /\ IF ~awoke[g] /\ ~old[g].woken /\ old[g].waiters # 0
       THEN /\ state' = IF state = old[g] THEN [state EXCEPT !.woken = TRUE] ELSE state
            /\ awoke' = [awoke EXCEPT ![g] = TRUE]
       ELSE UNCHANGED <<state, awoke>>
  /\ iter' = [iter EXCEPT ![g] = @ + 1]
  /\ MGoto(g, "load")
  /\ UNCHANGED <<calls, old, starving, slept, semaVars>>

\* Spin, and try to tell Unlock not to wake anybody else.
lockSpin(g) ==
  /\ mpc[g] = "loop"
  /\ old[g].locked /\ ~old[g].starving /\ iter[g] < MaxSpin
  /\ IF ~awoke[g] /\ ~old[g].woken /\ old[g].waiters # 0 /\ state = old[g]
       THEN /\ state' = [state EXCEPT !.woken = TRUE]
            /\ awoke' = [awoke EXCEPT ![g] = TRUE]
       ELSE UNCHANGED <<state, awoke>>
  /\ iter' = [iter EXCEPT ![g] = @ + 1]
  /\ MGoto(g, "load")
  /\ UNCHANGED <<calls, old, starving, slept, semaVars>>

\* Mutant: starvation mode is entered even if the mutex is free.
NewStarve(g) ==
  LET o == old[g]
  IN  [locked   |-> o.locked \/ ~o.starving,
       woken    |-> o.woken /\ ~awoke[g],
       starving |-> o.starving \/ starving[g],
       waiters  |-> IF o.locked \/ o.starving THEN o.waiters + 1 ELSE o.waiters]

\* Mutant: mutexWoken is not reset.
NewWoken(g) ==
  LET o == old[g]
  IN  [locked   |-> o.locked \/ ~o.starving,
       woken    |-> o.woken,
       starving |-> o.starving \/ (starving[g] /\ o.locked),
       waiters  |-> IF o.locked \/ o.starving THEN o.waiters + 1 ELSE o.waiters]

\* The state lockSlow tries to install.
New(g) ==
  LET o == old[g]
  IN  [locked   |-> o.locked \/ ~o.starving,
       woken    |-> o.woken /\ ~awoke[g],
       starving |-> o.starving \/ (starving[g] /\ o.locked),
       waiters  |-> IF o.locked \/ o.starving THEN o.waiters + 1 ELSE o.waiters]

\* The CAS from old to new: the mutex is acquired, or this goroutine is
\* accounted as a waiter and sleeps, at the front if it has slept before.
\* (Also where lockSpin is possible: runtime_canSpin may say no.)
\* `throw("sync: inconsistent mutex state")` if its woken flag is gone.
lockCas(g) ==
  /\ mpc[g] = "loop"
  /\ IF awoke[g] /\ ~old[g].woken
       THEN MGoto(g, "throw") /\ UNCHANGED <<state, lockVars, semaVars>>
       ELSE IF state # old[g]
         THEN MGoto(g, "load") /\ UNCHANGED <<state, lockVars, semaVars>>
         ELSE /\ state' = New(g)
              /\ IF old[g].locked \/ old[g].starving
                   THEN /\ MGoto(g, "sema")
                        /\ semacquire1(g, sema, slept[g] # 0)
                        /\ slept' = [slept EXCEPT ![g] = IF @ <= Patience THEN @ + 1 ELSE @]
                        /\ UNCHANGED <<awoke, starving, iter>>
                   ELSE MGoto(g, "held") /\ Fresh(g) /\ UNCHANGED semaVars
  /\ ForgetOld(g)
  /\ UNCHANGED calls

\* Back from runtime_SemacquireMutex: has it waited for more than 1ms?  In
\* starvation mode the mutex was handed to this goroutine, otherwise it
\* competes again.
lockWoken(g) ==
  /\ mpc[g] = "sema" /\ SemReturn(g, "acquired")
  /\ \E late \in BOOLEAN :
       /\ slept[g] > Patience => late
       /\ starving' = [starving EXCEPT ![g] = @ \/ late]
  /\ old' = [old EXCEPT ![g] = state]
  /\ IF state.starving
       THEN /\ MGoto(g, IF state.locked \/ state.woken \/ state.waiters = 0
                          THEN "throw" ELSE "fix")
            /\ UNCHANGED <<awoke, iter>>
       ELSE /\ awoke' = [awoke EXCEPT ![g] = TRUE]
            /\ iter' = [iter EXCEPT ![g] = 0]
            /\ MGoto(g, "loop")
  /\ UNCHANGED <<state, calls, slept>>

\* Mutant: the goroutine stays accounted as a waiter.
lockFixKeep(g) ==
  /\ mpc[g] = "fix"
  /\ state' = [state EXCEPT !.locked = TRUE,
                            !.starving = @ /\ starving[g] /\ old[g].waiters # 1]
  /\ MGoto(g, "held") /\ Fresh(g) /\ ForgetOld(g)
  /\ UNCHANGED <<calls, semaVars>>

\* The atomic add of delta: set mutexLocked, stop being a waiter, and perhaps
\* leave starvation mode.
lockFix(g) ==
  /\ mpc[g] = "fix"
  /\ state' = [state EXCEPT !.locked = TRUE,
                            !.waiters = @ - 1,
                            !.starving = @ /\ starving[g] /\ old[g].waiters # 1]
  /\ MGoto(g, "held") /\ Fresh(g) /\ ForgetOld(g)
  /\ UNCHANGED <<calls, semaVars>>

-----------------------------------------------------------------------------
(* TryLock.                                                                *)

\* Mutant: a starving mutex that is not locked is taken to be free.
TryLockBarge(g) ==
  /\ mpc[g] = "out" /\ calls < MaxCalls
  /\ calls' = calls + 1
  /\ old' = [old EXCEPT ![g] = state]
  /\ IF state.locked THEN UNCHANGED mpc ELSE MGoto(g, "try")
  /\ UNCHANGED <<state, awoke, starving, iter, slept, semaVars>>

TryLock(g) ==
  /\ mpc[g] = "out" /\ calls < MaxCalls
  /\ calls' = calls + 1
  /\ old' = [old EXCEPT ![g] = state]
  /\ IF state.locked \/ state.starving THEN UNCHANGED mpc ELSE MGoto(g, "try")
  /\ UNCHANGED <<state, awoke, starving, iter, slept, semaVars>>

tryLockCas(g) ==
  /\ mpc[g] = "try"
  /\ IF state = old[g]
       THEN state' = [state EXCEPT !.locked = TRUE] /\ MGoto(g, "held")
       ELSE UNCHANGED state /\ MGoto(g, "out")
  /\ ForgetOld(g)
  /\ UNCHANGED <<calls, lockVars, semaVars>>

-----------------------------------------------------------------------------
(* Unlock, by the goroutine that holds the mutex.                          *)

\* The fast path drops the lock bit; unlockSlow takes the value it left.  A
\* starving mutex is handed to the next waiter.
Unlock(g) ==
  LET new == [state EXCEPT !.locked = FALSE]
  IN  /\ mpc[g] = "held"
      /\ state' = new
      /\ IF new = Free
           THEN MGoto(g, "out") /\ UNCHANGED <<old, semaVars>>
           ELSE IF new.starving
             THEN /\ MGoto(g, "semrelease")
                  /\ semrelease1(g, sema, TRUE)
                  /\ UNCHANGED old
             ELSE /\ MGoto(g, "unlockSlow")
                  /\ old' = [old EXCEPT ![g] = new]
                  /\ UNCHANGED semaVars
      /\ UNCHANGED <<calls, awoke, starving, iter, slept>>

\* Nobody to wake, or somebody is awake already; else grab the right to wake
\* someone.
unlockSlow(g) ==
  LET o == old[g]
  IN  /\ mpc[g] = "unlockSlow"
      /\ IF o.waiters = 0 \/ o.locked \/ o.woken \/ o.starving
           THEN MGoto(g, "out") /\ UNCHANGED <<state, semaVars>>
           ELSE IF state # o
             THEN MGoto(g, "unlockLoad") /\ UNCHANGED <<state, semaVars>>
             ELSE /\ state' = [o EXCEPT !.waiters = @ - 1, !.woken = TRUE]
                  /\ MGoto(g, "semrelease")
                  /\ semrelease1(g, sema, FALSE)
      /\ ForgetOld(g)
      /\ UNCHANGED <<calls, lockVars>>

unlockLoad(g) ==
  /\ mpc[g] = "unlockLoad"
  /\ old' = [old EXCEPT ![g] = state]
  /\ MGoto(g, "unlockSlow")
  /\ UNCHANGED <<state, calls, awoke, starving, iter, slept, semaVars>>

unlockDone(g) ==
  /\ mpc[g] = "semrelease" /\ SemReturn(g, "released")
  /\ MGoto(g, "out")
  /\ UNCHANGED <<state, calls, old, awoke, starving, iter, slept>>

-----------------------------------------------------------------------------

Init ==
  /\ SemaInit
  /\ state = Free
  /\ mpc = [g \in G |-> "out"]
  /\ calls = 0
  /\ old = [g \in G |-> Free]
  /\ awoke = [g \in G |-> FALSE]
  /\ starving = [g \in G |-> FALSE]
  /\ iter = [g \in G |-> 0]
  /\ slept = [g \in G |-> 0]

\* A step of the code g is in; Unlock included: a holder does release the mutex.
Run(g) ==
  \/ lockLoad(g) \/ lockSpin(g) \/ lockCas(g) \/ lockWoken(g) \/ lockFix(g)
  \/ tryLockCas(g) \/ Unlock(g) \/ unlockSlow(g) \/ unlockLoad(g) \/ unlockDone(g)
  \/ (SemaStep(g) /\ UNCHANGED mutexVars)

Next == \E g \in G : Lock(g) \/ TryLock(g) \/ Run(g)

Spec == Init /\ [][Next]_vars /\ \A g \in G : WF_vars(Run(g))

-----------------------------------------------------------------------------
(* Properties.                                                             *)

\* The types of the variables.
TypeOK ==
  /\ SemaTypeOK
  /\ state \in State /\ old \in [G -> State]
  /\ mpc \in [G -> MPC] /\ calls \in Nat
  /\ awoke \in [G -> BOOLEAN] /\ starving \in [G -> BOOLEAN]
  /\ iter \in [G -> Nat] /\ slept \in [G -> Nat]

\* At most one goroutine holds the mutex.
MutualExclusion ==
  \A g, h \in G : mpc[g] = "held" /\ mpc[h] = "held" => g = h

\* "Unlock expects that starving mutex has waiters": there is somebody to hand a
\* starving mutex to, although waiters leave and lockFix decides from an old load.
StarvingHasWaiters == state.starving => state.waiters > 0

\* The throws "sync: inconsistent mutex state" are unreachable.
NoThrow == \A g \in G : mpc[g] # "throw"

\* g carries a unit of the semaphore: to the word, from it, or as a ticket.
Carries(g) == \/ spc[g] \in {"xadd", "undo", "acquired"}
              \/ spc[g] \in {"park", "retry"} /\ ticket[g]
              \/ mpc[g] = "fix"

\* g is awake in lockSlow and owns the mutexWoken flag.
Flagged(g) == mpc[g] \in {"load", "loop"} /\ awoke[g]

\* The waiter count is exact.  It counts the goroutines that wait, less the one
\* that Unlock has decided to wake and that has not got there yet; in
\* starvation mode the goroutine the mutex is handed to is still counted.
WaitersCounted ==
  LET waiting == {g \in G : mpc[g] \in {"sema", "fix"}}
      leaving == IF state.woken /\ \A g \in G : ~Flagged(g) THEN 1 ELSE 0
  IN  state.waiters + leaving = Cardinality(waiting)

\* No waiter is forgotten: if the mutex is free and has waiters, a wakeup is on
\* its way, or a goroutine in Unlock will see that it has to send one.
NotForgotten ==
  ~state.locked /\ state.waiters > 0 =>
    \/ val[sema] > 0
    \/ \E g \in G : Carries(g) \/ Flagged(g)
    \/ \E g \in G : \/ mpc[g] = "unlockLoad"
                    \/ /\ mpc[g] = "unlockSlow" /\ old[g].waiters # 0
                       /\ ~old[g].locked /\ ~old[g].woken /\ ~old[g].starving

\* What the comment on mutex fairness says of starvation mode: "ownership of the
\* mutex is directly handed off from the unlocking goroutine to the waiter at
\* the front of the queue", and new goroutines "queue themselves at the tail".
\* So nobody takes the semaphore unit without sleeping while others sleep.
HandoffToFront ==
  [][\A g \in G : spc[g] = "easy" /\ spc'[g] = "acquired" /\ state.starving =>
       waitq[sema] = <<>>]_vars

\* Every Lock and every Unlock returns once the other goroutines stop calling
\* Lock: no wakeup is lost between the state word and the semaphore.
Returns == (\E g \in G : mpc[g] # "out") ~> (\A g \in G : mpc[g] = "out")

=============================================================================
