------------------------------ MODULE ChanInv -------------------------------
(***************************************************************************)
(* The inductive invariant behind WaitqInvariant and WaitingListStable:    *)
(* who holds which lock, and what pass 1 of a select knows about the cases *)
(* it has looked at.                                                       *)
(***************************************************************************)
EXTENDS Chan

\* The program counters of an operation on one channel, before it blocks.
ChanPC == {"sendClosed", "sendFull", "sendFullFirst", "sendClosedLast",
           "recvEmpty", "recvClosed", "recvRecheck", "lock", "closing"}

\* The operation and its locals fit the program counter.
OpFits(g) ==
  /\ pc[g] \in ChanPC => ~IsSelect(g) /\ Ch(g) \in Channel
  /\ pc[g] \in {"sellock", "pass2", "relock", "pass3"} =>
       IsSelect(g) /\ pos[g] <= Len(lockorder[g])
  /\ IsSelect(g) => lockorder[g] \in LockOrders(op[g].cases)

\* closechan holds the lock of its channel, sellock those it has reached, and
\* pass 2 all of them.
Holds(g) ==
  /\ pc[g] = "closing" => lock[Ch(g)] = g
  /\ pc[g] = "sellock" => \A k \in 1..pos[g] : lock[LockChan(g, k)] = g
  /\ pc[g] = "pass2" => \A k \in 1..Len(lockorder[g]) : lock[LockChan(g, k)] = g

\* selparkcommit still holds the locks it has not reached, and a goroutine that
\* was woken meanwhile is stuck in sellock before the first of them.
Committing(g) ==
  commit[g] # 0 =>
    /\ IsSelect(g) /\ commit[g] <= Len(lockorder[g])
    /\ pc[g] \in {"park", "woken", "relock"}
    /\ \A l \in commit[g]..Len(lockorder[g]) : lock[LockChan(g, l)] = g
    /\ pc[g] = "relock" =>
         \A k \in 1..pos[g], l \in commit[g]..Len(lockorder[g]) :
           LockChan(g, k) # LockChan(g, l)

\* Every sudog in the queue s is one of g.
OnlyOf(g, s) == \A k \in DOMAIN s : s[k][1] = g

\* While g holds the locks, a case pass 1 has looked at cannot proceed, except
\* with g itself.
PolledCase(g, i) ==
  /\ i \in DOMAIN op[g].cases /\ CaseChan(g, i) # Nil
  /\ CaseDir(g, i) = "recv" => /\ qcount[CaseChan(g, i)] = 0
                               /\ OnlyOf(g, sendq[CaseChan(g, i)])
  /\ CaseDir(g, i) = "send" => /\ qcount[CaseChan(g, i)] >= dataqsiz[CaseChan(g, i)]
                               /\ OnlyOf(g, recvq[CaseChan(g, i)])

Polled(g) ==
  pc[g] \in {"sellock", "pass2"} =>
    /\ \A i \in polled[g] : PolledCase(g, i)
    /\ pc[g] = "sellock" /\ polled[g] # {} => AllLocked(g)
    /\ pc[g] = "pass2" =>
         \A i \in DOMAIN op[g].cases : CaseChan(g, i) # Nil => i \in polled[g]

OpInv     == \A g \in G : OpFits(g)
LockInv   == \A g \in G : Holds(g)
CommitInv == \A g \in G : Committing(g)
PolledInv == \A g \in G : Polled(g)

\* Inductive, and it implies WaitqInvariant and WaitingListStable.
IInv == TypeOK /\ OpInv /\ LockInv /\ CommitInv /\ PolledInv /\ WaitqInvariant

=============================================================================
