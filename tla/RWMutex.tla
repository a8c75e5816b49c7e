------------------------------ MODULE RWMutex -------------------------------
(***************************************************************************)
(* sync.RWMutex (sync/rwmutex.go): RLock, TryRLock, RUnlock, Lock, TryLock *)
(* and Unlock.                                                             *)
(*                                                                         *)
(* A step is one access to readerCount, readerWait, a semaphore or w.  The *)
(* semaphores are what module Sema promises of them (units that are        *)
(* neither lost nor created, for whoever takes one first), and w what      *)
(* module Mutex promises: one owner.                                       *)
(***************************************************************************)
EXTENDS Integers, FiniteSets

CONSTANTS
  G,                   \* goroutines
  None,                \* not a goroutine
  rwmutexMaxReaders

ASSUME RWAssumption ==
  /\ IsFiniteSet(G) /\ None \notin G
  /\ rwmutexMaxReaders \in Nat /\ Cardinality(G) < rwmutexMaxReaders

VARIABLES
  w,             \* the owner of rw.w
  writerSem, readerSem, readerCount, readerWait,
  r,             \* the local r of Lock or Unlock, of the owner of w
  pc

vars == <<w, writerSem, readerSem, readerCount, readerWait, r, pc>>

Goto(g, l) == pc' = [pc EXCEPT ![g] = l]

Init ==
  /\ w = None
  /\ writerSem = 0 /\ readerSem = 0 /\ readerCount = 0 /\ readerWait = 0 /\ r = 0
  /\ pc = [g \in G |-> "out"]

-----------------------------------------------------------------------------
(* Readers.                                                                *)

\* "A writer is pending, wait for it."
RLock(g) ==
  /\ pc[g] = "out"
  /\ readerCount' = readerCount + 1
  /\ Goto(g, IF readerCount' < 0 THEN "rwait" ELSE "reading")
  /\ UNCHANGED <<w, writerSem, readerSem, readerWait, r>>

\* runtime_SemacquireRWMutexR returns.
rLockWoken(g) ==
  /\ pc[g] = "rwait" /\ readerSem > 0
  /\ readerSem' = readerSem - 1
  /\ Goto(g, "reading")
  /\ UNCHANGED <<w, writerSem, readerCount, readerWait, r>>

\* Its loop around a compare-and-swap; where it fails it changes nothing.
TryRLock(g) ==
  /\ pc[g] = "out" /\ readerCount >= 0
  /\ readerCount' = readerCount + 1
  /\ Goto(g, "reading")
  /\ UNCHANGED <<w, writerSem, readerSem, readerWait, r>>

RUnlock(g) ==
  /\ pc[g] = "reading"
  /\ readerCount' = readerCount - 1
  /\ Goto(g, IF readerCount' >= 0 THEN "out"
             ELSE IF readerCount \in {0, -rwmutexMaxReaders} THEN "fatal"
             ELSE "departing")
  /\ UNCHANGED <<w, writerSem, readerSem, readerWait, r>>

\* Mutant: every departing reader wakes the writer.
rUnlockSlowEach(g) ==
  /\ pc[g] = "departing"
  /\ readerWait' = readerWait - 1
  /\ Goto(g, "wake")
  /\ UNCHANGED <<w, writerSem, readerSem, readerCount, r>>

\* "The last reader unblocks the writer."
rUnlockSlow(g) ==
  /\ pc[g] = "departing"
  /\ readerWait' = readerWait - 1
  /\ Goto(g, IF readerWait' = 0 THEN "wake" ELSE "out")
  /\ UNCHANGED <<w, writerSem, readerSem, readerCount, r>>

rUnlockWake(g) ==
  /\ pc[g] = "wake"
  /\ writerSem' = writerSem + 1
  /\ Goto(g, "out")
  /\ UNCHANGED <<w, readerSem, readerCount, readerWait, r>>

-----------------------------------------------------------------------------
(* Writers.                                                                *)

\* "First, resolve competition with other writers."
Lock(g) ==
  /\ pc[g] = "out"
  /\ Goto(g, "wlock")
  /\ UNCHANGED <<w, writerSem, readerSem, readerCount, readerWait, r>>

lockW(g) ==
  /\ pc[g] = "wlock" /\ w = None
  /\ w' = g
  /\ Goto(g, "announce")
  /\ UNCHANGED <<writerSem, readerSem, readerCount, readerWait, r>>

\* Mutant: the writer waits for a moment without readers instead.
lockAnnounceIdle(g) ==
  /\ pc[g] = "announce" /\ readerCount = 0
  /\ readerCount' = -rwmutexMaxReaders
  /\ Goto(g, "writing")
  /\ UNCHANGED <<w, writerSem, readerSem, readerWait, r>>

\* "Announce to readers there is a pending writer."
lockAnnounce(g) ==
  /\ pc[g] = "announce"
  /\ readerCount' = readerCount - rwmutexMaxReaders
  /\ r' = readerCount
  /\ Goto(g, IF r' = 0 THEN "writing" ELSE "drain")
  /\ UNCHANGED <<w, writerSem, readerSem, readerWait>>

\* "Wait for active readers."
lockDrain(g) ==
  /\ pc[g] = "drain"
  /\ readerWait' = readerWait + r
  /\ r' = 0
  /\ Goto(g, IF readerWait' = 0 THEN "writing" ELSE "wwait")
  /\ UNCHANGED <<w, writerSem, readerSem, readerCount>>

lockWoken(g) ==
  /\ pc[g] = "wwait" /\ writerSem > 0
  /\ writerSem' = writerSem - 1
  /\ Goto(g, "writing")
  /\ UNCHANGED <<w, readerSem, readerCount, readerWait, r>>

\* rw.w.TryLock; if it fails, TryLock changes nothing.
TryLock(g) ==
  /\ pc[g] = "out" /\ w = None
  /\ w' = g
  /\ Goto(g, "try")
  /\ UNCHANGED <<writerSem, readerSem, readerCount, readerWait, r>>

\* The compare-and-swap of readerCount from 0, or rw.w.Unlock.
tryLockAnnounce(g) ==
  /\ pc[g] = "try"
  /\ IF readerCount = 0
       THEN readerCount' = -rwmutexMaxReaders /\ Goto(g, "writing")
       ELSE Goto(g, "unlockW") /\ UNCHANGED readerCount
  /\ UNCHANGED <<w, writerSem, readerSem, readerWait, r>>

\* "Announce to readers there is no active writer."
Unlock(g) ==
  /\ pc[g] = "writing"
  /\ readerCount' = readerCount + rwmutexMaxReaders
  /\ r' = readerCount'
  /\ Goto(g, IF r' >= rwmutexMaxReaders THEN "fatal" ELSE "unlockW")
  /\ UNCHANGED <<w, writerSem, readerSem, readerWait>>

\* "Unblock blocked readers, if any."
unlockReader(g) ==
  /\ pc[g] = "unlockW" /\ r > 0
  /\ readerSem' = readerSem + 1
  /\ r' = r - 1
  /\ UNCHANGED <<w, writerSem, readerCount, readerWait, pc>>

\* "Allow other writers to proceed."
unlockW(g) ==
  /\ pc[g] = "unlockW" /\ r = 0
  /\ w' = None
  /\ Goto(g, "out")
  /\ UNCHANGED <<writerSem, readerSem, readerCount, readerWait, r>>

-----------------------------------------------------------------------------

Call(g) == RLock(g) \/ TryRLock(g) \/ Lock(g) \/ TryLock(g)

Run(g) ==
  \/ rLockWoken(g) \/ RUnlock(g) \/ rUnlockSlow(g) \/ rUnlockWake(g)
  \/ lockW(g) \/ lockAnnounce(g) \/ lockDrain(g) \/ lockWoken(g)
  \/ tryLockAnnounce(g) \/ Unlock(g) \/ unlockReader(g) \/ unlockW(g)

Next == \E g \in G : Call(g) \/ Run(g)

\* Goroutines run and release what they hold; none needs to call anything, and
\* none is sure to get rw.w while others keep coming for it.
Fairness == \A g \in G : WF_vars(Run(g))

Spec == Init /\ [][Next]_vars /\ Fairness

-----------------------------------------------------------------------------
(* Properties.                                                             *)

PC == {"out", "rwait", "reading", "departing", "wake", "wlock", "announce", "drain", "wwait",
       "writing", "try", "unlockW", "fatal"}

\* The types of the variables.
TypeOK ==
  /\ w \in G \cup {None} /\ pc \in [G -> PC]
  /\ writerSem \in Nat /\ readerSem \in Nat /\ r \in Nat
  /\ readerCount \in Int /\ readerWait \in Int

At(l) == {g \in G : pc[g] = l}

\* A writer that has passed Lock or TryLock excludes readers and other writers,
\* and the sanity checks of RUnlock and Unlock do not fail.
Exclusion ==
  /\ \A g \in At("writing") : At("reading") = {} /\ At("writing") = {g}
  /\ At("fatal") = {}

\* A Lock that has rw.w gets the lock, however many readers keep coming and
\* however many writers queue behind it: "a blocked Lock call excludes new
\* readers".  A reader that arrives later may take the unit of readerSem that
\* Unlock released for an earlier one, never an extra one.
LockReturns == \A g \in G : pc[g] = "announce" ~> pc[g] = "writing"

=============================================================================
