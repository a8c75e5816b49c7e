------------------------------ MODULE FdMutex -------------------------------
(***************************************************************************)
(* fdMutex (internal/poll/fd_mutex.go): the word that counts the           *)
(* references to a descriptor, serialises its reads and its writes, and    *)
(* tells the last user to destroy it.                                      *)
(*                                                                         *)
(* Every method is a loop around one compare-and-swap whose new value      *)
(* depends on the old one only, so it is one atomic step; waking a waiter  *)
(* goes with it.  The two semaphores are what module Sema promises of      *)
(* them: units that are neither lost nor created.                          *)
(***************************************************************************)
EXTENDS Integers

CONSTANT F    \* the descriptors (values of type poll.FD)

Mode == {"r", "w"}

VARIABLES
  fdmu,       \* the word of each descriptor
  fdsema      \* rsema and wsema

fdmuVars == <<fdmu, fdsema>>

Unused == [closed |-> FALSE, lock |-> [m \in Mode |-> FALSE], refs |-> 0,
           wait |-> [m \in Mode |-> 0]]

FdMutexInit == /\ fdmu = [f \in F |-> Unused]
               /\ fdsema = [f \in F |-> [m \in Mode |-> 0]]

\* Mutant: whoever drops a reference after Close destroys.
LastClosed(w) == w.closed

\* `new&(mutexClosed|mutexRefMask) == mutexClosed`: whoever sees it destroys.
Last(w) == w.closed /\ w.refs = 0

incref(f) ==
  /\ ~fdmu[f].closed
  /\ fdmu' = [fdmu EXCEPT ![f].refs = @ + 1]
  /\ UNCHANGED fdsema

\* Mutant: the waiters are forgotten.
increfAndCloseQuiet(f) ==
  /\ ~fdmu[f].closed
  /\ fdmu' = [fdmu EXCEPT ![f].closed = TRUE, ![f].refs = @ + 1,
                          ![f].wait = [m \in Mode |-> 0]]
  /\ UNCHANGED fdsema

\* Take a reference, forbid new ones, and wake all waiters.
increfAndClose(f) ==
  /\ ~fdmu[f].closed
  /\ fdmu' = [fdmu EXCEPT ![f].closed = TRUE, ![f].refs = @ + 1,
                          ![f].wait = [m \in Mode |-> 0]]
  /\ fdsema' = [fdsema EXCEPT ![f] = [m \in Mode |-> @[m] + fdmu[f].wait[m]]]

\* The "inconsistent poll.fdMutex" panics of decref and rwunlock.
decrefPanics(f)      == fdmu[f].refs = 0
rwunlockPanics(f, m) == ~fdmu[f].lock[m] \/ fdmu[f].refs = 0

decref(f) ==
  /\ fdmu' = [fdmu EXCEPT ![f].refs = @ - 1]
  /\ UNCHANGED fdsema

\* Mutant: the lock is shared.
rwlockShared(f, m) ==
  /\ ~fdmu[f].closed
  /\ fdmu' = [fdmu EXCEPT ![f].lock[m] = TRUE, ![f].refs = @ + 1]
  /\ UNCHANGED fdsema

\* The lock is free: take it, with a reference.
rwlock(f, m) ==
  /\ ~fdmu[f].closed /\ ~fdmu[f].lock[m]
  /\ fdmu' = [fdmu EXCEPT ![f].lock[m] = TRUE, ![f].refs = @ + 1]
  /\ UNCHANGED fdsema

\* The lock is taken: be counted as a waiter, without a reference.
rwlockWait(f, m) ==
  /\ ~fdmu[f].closed /\ fdmu[f].lock[m]
  /\ fdmu' = [fdmu EXCEPT ![f].wait[m] = @ + 1]
  /\ UNCHANGED fdsema

\* runtime_Semacquire returns; rwlock starts over.
rwlockWoken(f, m) ==
  /\ fdsema[f][m] > 0
  /\ fdsema' = [fdsema EXCEPT ![f][m] = @ - 1]
  /\ UNCHANGED fdmu

\* Drop the lock and the reference and wake one waiter.
rwunlock(f, m) ==
  LET n == IF fdmu[f].wait[m] > 0 THEN 1 ELSE 0
  IN  /\ fdmu' = [fdmu EXCEPT ![f].lock[m] = FALSE, ![f].refs = @ - 1,
                              ![f].wait[m] = @ - n]
      /\ fdsema' = [fdsema EXCEPT ![f][m] = @ + n]

=============================================================================
