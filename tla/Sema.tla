-------------------------------- MODULE Sema --------------------------------
(***************************************************************************)
(* The sleeping semaphores of the Go runtime (runtime/sema.go), on which   *)
(* sync.Mutex, RWMutex and WaitGroup block: semacquire1 and semrelease1 on *)
(* the addresses of one semaRoot.                                          *)
(*                                                                         *)
(* A step is one access to what several goroutines share: the semaphore    *)
(* word, root.nwait (read without the lock), or a section under root.lock. *)
(* The treap of a root with the waiters of each address is a FIFO list for *)
(* each address.                                                           *)
(***************************************************************************)
EXTENDS Integers, Sequences

CONSTANTS G,     \* goroutines
          NoG,   \* not a goroutine
          Addr   \* the semaphore words of one root

ASSUME SemaAssumption == NoG \notin G /\ Addr # {}

VARIABLES
  val,       \* the semaphore words
  nwait,     \* root.nwait
  rootlock,  \* the owner of root.lock
  waitq,     \* the waiters of each address, first to be woken first
  spc,       \* where a goroutine is in semacquire1 or semrelease1
  addr,      \* the argument addr of its call
  flag,      \* the argument lifo or handoff of its call
  ticket,    \* sudog.ticket of its sudog once it is dequeued: the unit is its own
  found      \* the waiter a semrelease1 has dequeued

semaVars == <<val, nwait, rootlock, waitq, spc, addr, flag, ticket, found>>

SPC == {"idle", "easy", "lock", "check", "undo", "queue", "park", "retry", "acquired",
        "xadd", "nwait", "dequeue", "handoff", "ready", "released"}

SGoto(g, l) == spc' = [spc EXCEPT ![g] = l]
Take(g)     == val' = [val EXCEPT ![addr[g]] = @ - 1]

SemaInit ==
  /\ val = [a \in Addr |-> 0]
  /\ nwait = 0
  /\ rootlock = NoG
  /\ waitq = [a \in Addr |-> <<>>]
  /\ spc = [g \in G |-> "idle"]
  /\ addr = [g \in G |-> CHOOSE a \in Addr : TRUE]
  /\ flag = [g \in G |-> FALSE]
  /\ ticket = [g \in G |-> FALSE]
  /\ found = [g \in G |-> NoG]

SemaTypeOK ==
  /\ val \in [Addr -> Nat] /\ nwait \in Nat
  /\ rootlock \in G \cup {NoG} /\ waitq \in [Addr -> Seq(G)]
  /\ spc \in [G -> SPC] /\ addr \in [G -> Addr] /\ flag \in [G -> BOOLEAN]
  /\ ticket \in [G -> BOOLEAN] /\ found \in [G -> G \cup {NoG}]

-----------------------------------------------------------------------------
(* Calls and returns, for the modules that use semaphores.                 *)

SemCall(g, l, a, b) ==
  /\ spc[g] = "idle"
  /\ SGoto(g, l)
  /\ addr' = [addr EXCEPT ![g] = a]
  /\ flag' = [flag EXCEPT ![g] = b]
  /\ UNCHANGED <<val, nwait, rootlock, waitq, ticket, found>>

semacquire1(g, a, lifo)    == SemCall(g, "easy", a, lifo)
semrelease1(g, a, handoff) == SemCall(g, "xadd", a, handoff)

SemReturn(g, l) ==
  /\ spc[g] = l
  /\ SGoto(g, "idle")
  /\ UNCHANGED <<val, nwait, rootlock, waitq, addr, flag, ticket, found>>

-----------------------------------------------------------------------------
(* semacquire1.                                                            *)

\* The easy case.
semEasy(g) ==
  /\ spc[g] = "easy"
  /\ IF val[addr[g]] > 0
       THEN Take(g) /\ SGoto(g, "acquired") /\ UNCHANGED ticket
       ELSE /\ SGoto(g, "lock")
            /\ ticket' = [ticket EXCEPT ![g] = FALSE]
            /\ UNCHANGED val
  /\ UNCHANGED <<nwait, rootlock, waitq, addr, flag, found>>

\* "Add ourselves to nwait to disable easy case in semrelease."
semLock(g) ==
  /\ spc[g] = "lock" /\ rootlock = NoG
  /\ rootlock' = g
  /\ nwait' = nwait + 1
  /\ SGoto(g, "check")
  /\ UNCHANGED <<val, waitq, addr, flag, ticket, found>>

\* Mutant: goes to sleep without looking again.
semCheckSkip(g) ==
  /\ spc[g] = "check"
  /\ SGoto(g, "queue")
  /\ UNCHANGED <<val, nwait, rootlock, waitq, addr, flag, ticket, found>>

\* "Check cansemacquire to avoid missed wakeup."
semCheck(g) ==
  /\ spc[g] = "check"
  /\ IF val[addr[g]] > 0 THEN Take(g) /\ SGoto(g, "undo")
                         ELSE SGoto(g, "queue") /\ UNCHANGED val
  /\ UNCHANGED <<nwait, rootlock, waitq, addr, flag, ticket, found>>

semUndo(g) ==
  /\ spc[g] = "undo"
  /\ nwait' = nwait - 1
  /\ rootlock' = NoG
  /\ SGoto(g, "acquired")
  /\ UNCHANGED <<val, waitq, addr, flag, ticket, found>>

\* root.queue, and goparkunlock releases the lock.
semQueue(g) ==
  /\ spc[g] = "queue"
  /\ waitq' = [waitq EXCEPT ![addr[g]] = IF flag[g] THEN <<g>> \o @ ELSE Append(@, g)]
  /\ rootlock' = NoG
  /\ SGoto(g, "park")
  /\ UNCHANGED <<val, nwait, addr, flag, ticket, found>>

\* Woken: `s.ticket != 0 || cansemacquire(addr)`, or around the loop again.
semRetry(g) ==
  /\ spc[g] = "retry"
  /\ \/ ticket[g] /\ SGoto(g, "acquired") /\ UNCHANGED val
     \/ ~ticket[g] /\ val[addr[g]] > 0 /\ Take(g) /\ SGoto(g, "acquired")
     \/ ~ticket[g] /\ val[addr[g]] = 0 /\ SGoto(g, "lock") /\ UNCHANGED val
  /\ UNCHANGED <<nwait, rootlock, waitq, addr, flag, ticket, found>>

-----------------------------------------------------------------------------
(* semrelease1.                                                            *)

semXadd(g) ==
  /\ spc[g] = "xadd"
  /\ val' = [val EXCEPT ![addr[g]] = @ + 1]
  /\ SGoto(g, "nwait")
  /\ UNCHANGED <<nwait, rootlock, waitq, addr, flag, ticket, found>>

\* "Easy case: no waiters?"
semNwait(g) ==
  /\ spc[g] = "nwait"
  /\ SGoto(g, IF nwait = 0 THEN "released" ELSE "dequeue")
  /\ UNCHANGED <<val, nwait, rootlock, waitq, addr, flag, ticket, found>>

\* Mutant: the waiter is woken but stays in its list.
semDequeuePeek(g) ==
  LET q == waitq[addr[g]]
  IN  /\ spc[g] = "dequeue" /\ rootlock = NoG
      /\ IF nwait = 0 \/ q = <<>>
           THEN SGoto(g, "released") /\ UNCHANGED <<nwait, ticket, found>>
           ELSE /\ nwait' = nwait - 1
                /\ ticket' = [ticket EXCEPT ![Head(q)] = FALSE]
                /\ found' = [found EXCEPT ![g] = Head(q)]
                /\ SGoto(g, "handoff")
      /\ UNCHANGED <<val, rootlock, waitq, addr, flag>>

\* The section under root.lock: nobody waits any more, nobody waits on this
\* address, or its first waiter is dequeued.
semDequeue(g) ==
  LET q == waitq[addr[g]]
  IN  /\ spc[g] = "dequeue" /\ rootlock = NoG
      /\ IF nwait = 0 \/ q = <<>>
           THEN SGoto(g, "released") /\ UNCHANGED <<nwait, waitq, ticket, found>>
           ELSE /\ waitq' = [waitq EXCEPT ![addr[g]] = Tail(q)]
                /\ nwait' = nwait - 1
                /\ ticket' = [ticket EXCEPT ![Head(q)] = FALSE]
                /\ found' = [found EXCEPT ![g] = Head(q)]
                /\ SGoto(g, "handoff")
      /\ UNCHANGED <<val, rootlock, addr, flag>>

\* Mutant: the ticket is given without taking the unit.
semHandoffFree(g) ==
  /\ spc[g] = "handoff"
  /\ IF flag[g] THEN ticket' = [ticket EXCEPT ![found[g]] = TRUE]
                ELSE UNCHANGED ticket
  /\ SGoto(g, "ready")
  /\ UNCHANGED <<val, nwait, rootlock, waitq, addr, flag, found>>

\* `if handoff && cansemacquire(addr) { s.ticket = 1 }`
semHandoff(g) ==
  /\ spc[g] = "handoff"
  /\ IF flag[g] /\ val[addr[g]] > 0
       THEN Take(g) /\ ticket' = [ticket EXCEPT ![found[g]] = TRUE]
       ELSE UNCHANGED <<val, ticket>>
  /\ SGoto(g, "ready")
  /\ UNCHANGED <<nwait, rootlock, waitq, addr, flag, found>>

\* readyWithTime.  The goyield after a hand-off only affects scheduling.
semReady(g) ==
  /\ spc[g] = "ready"
  /\ spc' = [spc EXCEPT ![found[g]] = "retry", ![g] = "released"]
  /\ found' = [found EXCEPT ![g] = NoG]
  /\ UNCHANGED <<val, nwait, rootlock, waitq, addr, flag, ticket>>

SemaStep(g) ==
  \/ semEasy(g) \/ semLock(g) \/ semCheck(g) \/ semUndo(g) \/ semQueue(g)
  \/ semRetry(g) \/ semXadd(g) \/ semNwait(g) \/ semDequeue(g)
  \/ semHandoff(g) \/ semReady(g)

=============================================================================
