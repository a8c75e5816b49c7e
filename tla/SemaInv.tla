------------------------------ MODULE SemaInv -------------------------------
(***************************************************************************)
(* What holds of the semaphores of a root whatever their users do: the     *)
(* part of an inductive invariant every module built on Sema shares.       *)
(***************************************************************************)
EXTENDS Sema

\* Who is in a wait list is asleep and has no ticket.
QueuedAsleep ==
  \A a \in Addr : \A i \in DOMAIN waitq[a] :
    spc[waitq[a][i]] = "park" /\ ~ticket[waitq[a][i]]

\* Nobody is in the wait lists twice.
QueuedOnce ==
  \A a, b \in Addr : \A i \in DOMAIN waitq[a], j \in DOMAIN waitq[b] :
    waitq[a][i] = waitq[b][j] => a = b /\ i = j

\* The waiter a release has dequeued is asleep until that release readies it,
\* and no other release has it.
Dequeued(g) == spc[g] \in {"handoff", "ready"}
FoundAsleep ==
  \A g \in G : Dequeued(g) =>
    /\ found[g] \in G /\ spc[found[g]] = "park"
    /\ spc[g] = "handoff" => ~ticket[found[g]]
    /\ \A a \in Addr : \A i \in DOMAIN waitq[a] : waitq[a][i] # found[g]
FoundOnce ==
  \A g, h \in G : Dequeued(g) /\ Dequeued(h) /\ found[g] = found[h] => g = h

\* A goroutine on its way to sleep has no ticket.
TicketFresh == \A g \in G : spc[g] \in {"lock", "check", "queue"} => ~ticket[g]

\* The section of semacquire1 under root.lock is exclusive and counted in nwait.
RootLocked ==
  \A g \in G : spc[g] \in {"check", "undo", "queue"} => rootlock = g /\ nwait > 0

SemaInvariant == /\ SemaTypeOK /\ QueuedAsleep /\ QueuedOnce /\ FoundAsleep
                 /\ FoundOnce /\ TicketFresh /\ RootLocked

=============================================================================
