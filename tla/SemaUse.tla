------------------------------ MODULE SemaUse -------------------------------
(***************************************************************************)
(* Goroutines that use the semaphores of one root in any way: what the     *)
(* semaphores promise to everything built on them.                         *)
(***************************************************************************)
EXTENDS SemaInv, FiniteSetsExt

CONSTANTS MaxAcquire, MaxRelease   \* bounds: calls of all goroutines together

ASSUME UseAssumption == IsFiniteSet(G)

VARIABLES acquired, released       \* the calls made on each address

Total(calls) == MapThenSumSet(LAMBDA a : calls[a], Addr)

useVars == <<semaVars, acquired, released>>

Acquire(g) ==
  /\ Total(acquired) < MaxAcquire
  /\ \E a \in Addr, lifo \in BOOLEAN :
       semacquire1(g, a, lifo) /\ acquired' = [acquired EXCEPT ![a] = @ + 1]
  /\ UNCHANGED released

Release(g) ==
  /\ Total(released) < MaxRelease
  /\ \E a \in Addr, handoff \in BOOLEAN :
       semrelease1(g, a, handoff) /\ released' = [released EXCEPT ![a] = @ + 1]
  /\ UNCHANGED acquired

Finish(g) ==
  /\ SemReturn(g, "acquired") \/ SemReturn(g, "released")
  /\ UNCHANGED <<acquired, released>>

Init == /\ SemaInit
        /\ acquired = [a \in Addr |-> 0] /\ released = [a \in Addr |-> 0]

Run(g) == (SemaStep(g) /\ UNCHANGED <<acquired, released>>) \/ Finish(g)
Next   == \E g \in G : Acquire(g) \/ Release(g) \/ Run(g)

\* The scheduler runs every runnable goroutine; root.lock is free infinitely
\* often and lock2 admits a waiter each time.
Spec == Init /\ [][Next]_useVars /\ \A g \in G : WF_useVars(Run(g))

-----------------------------------------------------------------------------

\* Who is in an acquire of a that has no unit yet, and who has not yet added
\* the unit it releases to a.
Waiting(g) == \/ spc[g] = "easy"
              \/ spc[g] \in {"lock", "check", "queue", "park", "retry"} /\ ~ticket[g]
Wanting(a) == {g \in G : addr[g] = a /\ Waiting(g)}
Adding(a)  == {g \in G : addr[g] = a /\ spc[g] = "xadd"}

\* Units are neither created nor lost nor moved to another word: those released
\* to an address are in its word, or with an acquire of that address that has
\* taken one (cansemacquire) or was given one (a ticket).
Conserved ==
  \A a \in Addr : released[a] - Cardinality(Adding(a)) =
                  (acquired[a] - Cardinality(Wanting(a))) + val[a]

\* No lost wakeup: while somebody sleeps on an address, each unit of its word
\* is matched by a release that has not handed its unit over and still looks
\* for a waiter, or by a woken waiter without a ticket about to try again.
Carriers(a) ==
  {g \in G : /\ addr[g] = a
             /\ \/ spc[g] \in {"nwait", "dequeue", "handoff"}
                \/ spc[g] = "ready" /\ ~ticket[found[g]]
                \/ spc[g] = "retry" /\ ~ticket[g]}

NoLostWakeup == \A a \in Addr : waitq[a] # <<>> => val[a] <= Cardinality(Carriers(a))

\* A sleeper and a unit on one address do not last.
UnitsMeetWaiters ==
  \A a \in Addr : (val[a] > 0 /\ waitq[a] # <<>>) ~> (val[a] = 0 \/ waitq[a] = <<>>)

=============================================================================
