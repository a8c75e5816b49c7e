-------------------------------- MODULE Chan --------------------------------
(***************************************************************************)
(* The channels of the Go runtime: runtime/chan.go (makechan, chansend,    *)
(* chanrecv, closechan and the wait queues) and runtime/select.go          *)
(* (selectgo).                                                             *)
(*                                                                         *)
(* Goroutines call operations on channels.  A step is what a goroutine     *)
(* does between two points where another goroutine can see it: one load of *)
(* a lock-free fast path, one critical section under c.lock, one iteration *)
(* of a loop of selectgo (which holds several locks), one goready.         *)
(*                                                                         *)
(* A sudog is the pair <<g, i>>: case i of the operation goroutine g is    *)
(* in.  A send and a receive are operations with one case.                 *)
(***************************************************************************)
EXTENDS Integers, Sequences

CONSTANTS
  G,         \* goroutines
  NoG,       \* the owner of an unlocked c.lock
  Channel,   \* channels: their addresses, which are also their sort keys
  Nil,       \* the nil channel
  dataqsiz,  \* the buffer size of each channel, fixed by makechan
  Ops,       \* the operations the goroutines may call
  MaxCalls   \* bound: calls per goroutine

ASSUME ChannelAssumption == Channel \subseteq Nat /\ Nil \notin Channel
ASSUME SizeAssumption == dataqsiz \in [Channel -> Nat]
ASSUME GAssumption == NoG \notin G
ASSUME BoundAssumption == MaxCalls \in Nat

Dir  == {"send", "recv"}
Case == [c : Channel \cup {Nil}, dir : Dir]

\* "chan": chansend / chanrecv (block = FALSE for selectnbsend/selectnbrecv);
\* "select": selectgo; "close": closechan.
Operation == [kind : {"chan", "select", "close"}, block : BOOLEAN,
              cases : Seq(Case)]

ASSUME OpsAssumption ==
  /\ Ops \subseteq Operation
  /\ \A o \in Ops : o.kind # "select" => Len(o.cases) = 1

VARIABLES
  \* struct hchan
  closed, qcount, sendx, recvx, buf, recvq, sendq, lock,
  \* struct g, and the locals of the operation the goroutine is in
  pc, op, calls,
  selectDone,   \* g.selectDone
  param,        \* g.param: the case of the sudog that woke g, 0 for nil; in pass 3
                \* the local sg of selectgo, which takes its value
  success,      \* sudog.success of the sudog that woke g
  elem,         \* the element last written to the receiver's slot
  wake,         \* sudogs this goroutine has dequeued and has yet to goready
  lockorder, pos, polled,   \* locals of selectgo
  commit,       \* where selparkcommit is in its walk of g.waiting, 0 if it is not
  ret           \* what the last operation returned

bufVars   == <<qcount, sendx, recvx, buf>>
queueVars == <<recvq, sendq>>
chanVars  == <<closed, qcount, sendx, recvx, buf, recvq, sendq, lock>>
wakeVars  == <<selectDone, param, success, elem, wake>>
selVars   == <<lockorder, pos, polled, commit>>
vars == <<chanVars, pc, op, calls, wakeVars, selVars, ret>>

-----------------------------------------------------------------------------
(* Elements: each send operation carries a value of its own.               *)

Zero      == <<>>
Val(g, i) == <<g, calls[g], i>>
Elem      == (G \X Nat \X Nat) \cup {Zero}
Sudog     == G \X Nat

NoOp  == [kind |-> "none", block |-> FALSE, cases |-> <<>>]

\* A return of the operation: case i completed (ok is the second result of a
\* receive), the operation did not proceed, or it panicked.
Done(i, ok) == [st |-> "done", i |-> i, ok |-> ok]
NotDone     == [st |-> "default", i |-> 0, ok |-> FALSE]
Panic(i)    == [st |-> "panic", i |-> i, ok |-> FALSE]
NoRet       == [st |-> "none", i |-> 0, ok |-> FALSE]
Result      == [st : {"none", "done", "default", "panic"}, i : Nat, ok : BOOLEAN]

CaseChan(g, i) == op[g].cases[i].c
CaseDir(g, i)  == op[g].cases[i].dir
IsSelect(g)    == op[g].kind = "select"

PC == {"idle", "nil", "sendClosed", "sendFull", "sendFullFirst",
       "sendClosedLast", "recvEmpty", "recvClosed", "recvRecheck", "lock",
       "closing", "ready", "sellock", "pass2", "park", "woken", "relock",
       "pass3", "throw"}

Goto(g, l)   == pc' = [pc EXCEPT ![g] = l]
Return(g, r) == /\ Goto(g, "idle")
                /\ ret' = [ret EXCEPT ![g] = r]

-----------------------------------------------------------------------------
(* The wait queues (waitq).                                                *)

\* A sudog of a select that another case has already won: dequeue() loses the
\* race on selectDone and drops it.
Stale(sg) == IsSelect(sg[1]) /\ selectDone[sg[1]]

Live(q)  == {i \in DOMAIN q : ~Stale(q[i])}
First(q) == CHOOSE i \in Live(q) : \A j \in Live(q) : i <= j

\* Mutant: a queue of stale sudogs is left as it is.
RestKeep(q) == IF Live(q) = {} THEN q ELSE SubSeq(q, First(q) + 1, Len(q))

\* What dequeue() leaves in the queue: everything up to the sudog it returns,
\* or everything if it returns nil, is gone.
Rest(q) == IF Live(q) = {} THEN <<>> ELSE SubSeq(q, First(q) + 1, Len(q))

\* dequeue() wins the race for the sudog it returns.
WinSelect(sg) ==
  selectDone' = [selectDone EXCEPT ![sg[1]] = @ \/ IsSelect(sg[1])]

enqueue(q, c, sg) == [q EXCEPT ![c] = Append(@, sg)]
dequeue(q, c)     == [q EXCEPT ![c] = Rest(@)]

\* dequeueSudoG: unlink sg if it is still there.
dequeueSudoG(q, sg) ==
  IF \E i \in DOMAIN q : q[i] = sg
    THEN LET i == CHOOSE i \in DOMAIN q : q[i] = sg
         IN  SubSeq(q, 1, i - 1) \o SubSeq(q, i + 1, Len(q))
    ELSE q

-----------------------------------------------------------------------------
(* The circular buffer and the two ways an element changes hands.          *)

full(c)  == IF dataqsiz[c] = 0 THEN recvq[c] = <<>> ELSE qcount[c] = dataqsiz[c]
empty(c) == IF dataqsiz[c] = 0 THEN sendq[c] = <<>> ELSE qcount[c] = 0

\* Mutant: the index wraps one slot late.
IncrLate(c, x) == IF x = dataqsiz[c] THEN 0 ELSE x + 1
Incr(c, x) == IF x + 1 = dataqsiz[c] THEN 0 ELSE x + 1

\* Enqueue case i's element (chansend, bufsend).
bufsend(g, i, c) ==
  /\ buf' = [buf EXCEPT ![c][sendx[c]] = Val(g, i)]
  /\ sendx' = [sendx EXCEPT ![c] = Incr(c, @)]
  /\ qcount' = [qcount EXCEPT ![c] = @ + 1]
  /\ UNCHANGED <<recvx, selectDone, elem, wake>>

\* Take the element at the head of the buffer (chanrecv, bufrecv).
bufrecv(g, c) ==
  /\ elem' = [elem EXCEPT ![g] = buf[c][recvx[c]]]
  /\ buf' = [buf EXCEPT ![c][recvx[c]] = Zero]
  /\ recvx' = [recvx EXCEPT ![c] = Incr(c, @)]
  /\ qcount' = [qcount EXCEPT ![c] = @ - 1]
  /\ UNCHANGED <<sendx, selectDone, wake>>

\* Mutant: the element is not copied.
sendNoCopy(g, i, c) ==
  LET sg == recvq[c][First(recvq[c])]
  IN  /\ recvq' = dequeue(recvq, c)
      /\ WinSelect(sg)
      /\ wake' = [wake EXCEPT ![g] = {sg}]
      /\ UNCHANGED <<elem, sendq, bufVars>>

\* send: copy case i's element to the receiver sg waiting first on c.
send(g, i, c) ==
  LET sg == recvq[c][First(recvq[c])]
  IN  /\ recvq' = dequeue(recvq, c)
      /\ WinSelect(sg)
      /\ elem' = [elem EXCEPT ![sg[1]] = Val(g, i)]
      /\ wake' = [wake EXCEPT ![g] = {sg}]
      /\ UNCHANGED <<sendq, bufVars>>

\* recv: take the element of the sender sg waiting first on c, or, if c is
\* buffered (then it is full), the head of the buffer, whose slot sg refills.
recv(g, c) ==
  LET sg == sendq[c][First(sendq[c])]
      v  == Val(sg[1], sg[2])
      x  == Incr(c, recvx[c])
  IN  /\ sendq' = dequeue(sendq, c)
      /\ WinSelect(sg)
      /\ wake' = [wake EXCEPT ![g] = {sg}]
      /\ IF dataqsiz[c] = 0
           THEN /\ elem' = [elem EXCEPT ![g] = v]
                /\ UNCHANGED bufVars
           ELSE /\ elem' = [elem EXCEPT ![g] = buf[c][recvx[c]]]
                /\ buf' = [buf EXCEPT ![c][recvx[c]] = v]
                /\ recvx' = [recvx EXCEPT ![c] = x]
                /\ sendx' = [sendx EXCEPT ![c] = x]
                /\ UNCHANGED qcount
      /\ UNCHANGED recvq

\* goready, after the locks were dropped: send and recv publish g.param and
\* sudog.success only now, closechan did so when it dequeued.
goready(g) ==
  /\ pc[g] = "ready"
  /\ \E sg \in wake[g] :
       /\ wake' = [wake EXCEPT ![g] = @ \ {sg}]
       /\ pc' = [pc EXCEPT ![sg[1]] = "woken",
                           ![g] = IF wake[g] = {sg} THEN "idle" ELSE "ready"]
       /\ IF op[g].kind = "close"
            THEN UNCHANGED <<param, success>>
            ELSE /\ param' = [param EXCEPT ![sg[1]] = sg[2]]
                 /\ success' = [success EXCEPT ![sg[1]] = TRUE]
  /\ UNCHANGED <<chanVars, op, calls, selectDone, elem, selVars, ret>>

-----------------------------------------------------------------------------
(* Calls.                                                                  *)

Call(g, o) ==
  /\ pc[g] = "idle"
  /\ calls[g] < MaxCalls
  /\ calls' = [calls EXCEPT ![g] = @ + 1]
  /\ op' = [op EXCEPT ![g] = o]
  /\ UNCHANGED <<chanVars, wakeVars>>

\* A send, receive or close on a channel.  The non-blocking forms start on the
\* lock-free fast path; chansend's two plain loads may be reordered.
CallChan(g, o) ==
  /\ Call(g, o)
  /\ o.kind # "select" /\ o.cases[1].c # Nil
  /\ \/ (o.kind = "close" \/ o.block) /\ Goto(g, "lock")
     \/ /\ o.kind = "chan" /\ ~o.block /\ o.cases[1].dir = "send"
        /\ Goto(g, "sendClosed") \/ Goto(g, "sendFullFirst")
     \/ /\ o.kind = "chan" /\ ~o.block /\ o.cases[1].dir = "recv"
        /\ Goto(g, "recvEmpty")
  /\ ret' = [ret EXCEPT ![g] = NoRet]
  /\ UNCHANGED selVars

\* The same on the nil channel.
CallNil(g, o) ==
  /\ Call(g, o)
  /\ o.kind # "select" /\ o.cases[1].c = Nil
  /\ Goto(g, "nil")
  /\ ret' = [ret EXCEPT ![g] = NoRet]
  /\ UNCHANGED selVars

\* close panics, the non-blocking forms give up, the others block forever.
nilchan(g) ==
  /\ pc[g] = "nil"
  /\ \/ op[g].kind = "close" /\ Return(g, Panic(1))
     \/ op[g].kind = "chan" /\ ~op[g].block /\ Return(g, NotDone)
  /\ UNCHANGED <<chanVars, op, calls, wakeVars, selVars>>

\* Mutant: the lock order is not sorted by address.
LockOrdersAny(cases) ==
  LET D == {i \in DOMAIN cases : cases[i].c # Nil}
  IN  {s \in UNION {[1..n -> D] : n \in 0..Len(cases)} :
        /\ \A i \in D : \E k \in DOMAIN s : s[k] = i
        /\ \A k, l \in DOMAIN s : k < l => s[k] # s[l]}

\* The orders selectgo may lock the cases in: sorted by channel address, the
\* cases of one channel in any order, those of nil channels left out.
LockOrders(cases) ==
  LET D == {i \in DOMAIN cases : cases[i].c # Nil}
  IN  {s \in UNION {[1..n -> D] : n \in 0..Len(cases)} :
        /\ \A i \in D : \E k \in DOMAIN s : s[k] = i
        /\ \A k, l \in DOMAIN s : k < l =>
             s[k] # s[l] /\ cases[s[k]].c <= cases[s[l]].c}

CallSelect(g, o) ==
  /\ Call(g, o)
  /\ o.kind = "select"
  /\ lockorder' \in {[lockorder EXCEPT ![g] = s] : s \in LockOrders(o.cases)}
  /\ pos' = [pos EXCEPT ![g] = 0]
  /\ polled' = [polled EXCEPT ![g] = {}]
  /\ Goto(g, "sellock")
  /\ ret' = [ret EXCEPT ![g] = NoRet]
  /\ UNCHANGED commit

-----------------------------------------------------------------------------
(* The fast paths of chansend and chanrecv, without the lock.              *)

Ch(g) == CaseChan(g, 1)

\* `!block && c.closed == 0 && full(c)`
sendClosed(g) ==
  /\ pc[g] = "sendClosed"
  /\ Goto(g, IF closed[Ch(g)] THEN "lock" ELSE "sendFull")
  /\ UNCHANGED <<chanVars, op, calls, wakeVars, selVars, ret>>

sendFull(g) ==
  /\ pc[g] = "sendFull"
  /\ IF full(Ch(g)) THEN Return(g, NotDone) ELSE Goto(g, "lock") /\ UNCHANGED ret
  /\ UNCHANGED <<chanVars, op, calls, wakeVars, selVars>>

\* The same two loads in the other order.
sendFullFirst(g) ==
  /\ pc[g] = "sendFullFirst"
  /\ Goto(g, IF full(Ch(g)) THEN "sendClosedLast" ELSE "lock")
  /\ UNCHANGED <<chanVars, op, calls, wakeVars, selVars, ret>>

sendClosedLast(g) ==
  /\ pc[g] = "sendClosedLast"
  /\ IF closed[Ch(g)] THEN Goto(g, "lock") /\ UNCHANGED ret ELSE Return(g, NotDone)
  /\ UNCHANGED <<chanVars, op, calls, wakeVars, selVars>>

recvEmpty(g) ==
  /\ pc[g] = "recvEmpty"
  /\ Goto(g, IF empty(Ch(g)) THEN "recvClosed" ELSE "lock")
  /\ UNCHANGED <<chanVars, op, calls, wakeVars, selVars, ret>>

\* Mutant: an empty channel is not ready, closed or not.
recvClosedUnread(g) ==
  /\ pc[g] = "recvClosed"
  /\ Return(g, NotDone)
  /\ UNCHANGED <<chanVars, op, calls, wakeVars, selVars>>

recvClosed(g) ==
  /\ pc[g] = "recvClosed"
  /\ IF closed[Ch(g)] THEN Goto(g, "recvRecheck") /\ UNCHANGED ret
                      ELSE Return(g, NotDone)
  /\ UNCHANGED <<chanVars, op, calls, wakeVars, selVars>>

recvRecheck(g) ==
  /\ pc[g] = "recvRecheck"
  /\ IF empty(Ch(g))
       THEN /\ Return(g, Done(1, FALSE))
            /\ elem' = [elem EXCEPT ![g] = Zero]
       ELSE Goto(g, "lock") /\ UNCHANGED <<ret, elem>>
  /\ UNCHANGED <<chanVars, op, calls, selectDone, param, success, wake, selVars>>

-----------------------------------------------------------------------------
(* The critical sections of chansend and chanrecv: c.lock is free, the      *)
(* section runs to the unlock, to goready (after the unlock) or to gopark   *)
(* (chanparkcommit unlocks once g is parked).                               *)

Enter(g, dir) ==
  /\ pc[g] = "lock" /\ op[g].kind = "chan" /\ CaseDir(g, 1) = dir
  /\ lock[Ch(g)] = NoG
  /\ UNCHANGED <<closed, lock, op, calls, success, selVars>>

chansendClosed(g) ==
  /\ Enter(g, "send") /\ closed[Ch(g)]
  /\ Return(g, Panic(1))
  /\ UNCHANGED <<queueVars, bufVars, selectDone, param, elem, wake>>

chansendDirect(g) ==
  /\ Enter(g, "send") /\ ~closed[Ch(g)] /\ Live(recvq[Ch(g)]) # {}
  /\ send(g, 1, Ch(g))
  /\ Goto(g, "ready")
  /\ ret' = [ret EXCEPT ![g] = Done(1, TRUE)]
  /\ UNCHANGED param

\* Mutant: the stale sudogs stay in the queue.
NoReceiverKeep(c) == Live(recvq[c]) = {} /\ UNCHANGED queueVars

\* No receiver is waiting: recvq.dequeue() has dropped the stale sudogs.
NoReceiver(c) ==
  /\ Live(recvq[c]) = {}
  /\ recvq' = dequeue(recvq, c)
  /\ UNCHANGED sendq

chansendBuffer(g) ==
  /\ Enter(g, "send") /\ ~closed[Ch(g)] /\ qcount[Ch(g)] < dataqsiz[Ch(g)]
  /\ NoReceiver(Ch(g))
  /\ bufsend(g, 1, Ch(g))
  /\ Return(g, Done(1, TRUE))
  /\ UNCHANGED param

chansendFail(g) ==
  /\ Enter(g, "send") /\ ~closed[Ch(g)] /\ qcount[Ch(g)] >= dataqsiz[Ch(g)]
  /\ ~op[g].block
  /\ NoReceiver(Ch(g))
  /\ Return(g, NotDone)
  /\ UNCHANGED <<bufVars, selectDone, param, elem, wake>>

chansendBlock(g) ==
  /\ Enter(g, "send") /\ ~closed[Ch(g)] /\ qcount[Ch(g)] >= dataqsiz[Ch(g)]
  /\ op[g].block
  /\ Live(recvq[Ch(g)]) = {}
  /\ recvq' = dequeue(recvq, Ch(g))
  /\ sendq' = enqueue(sendq, Ch(g), <<g, 1>>)
  /\ param' = [param EXCEPT ![g] = 0]
  /\ Goto(g, "park")
  /\ UNCHANGED <<bufVars, selectDone, elem, wake, ret>>

\* Mutant: a closed channel is taken to be drained.
chanrecvClosedEarly(g) ==
  /\ Enter(g, "recv") /\ closed[Ch(g)]
  /\ elem' = [elem EXCEPT ![g] = Zero]
  /\ Return(g, Done(1, FALSE))
  /\ UNCHANGED <<queueVars, bufVars, selectDone, param, wake>>

chanrecvClosed(g) ==
  /\ Enter(g, "recv") /\ closed[Ch(g)] /\ qcount[Ch(g)] = 0
  /\ elem' = [elem EXCEPT ![g] = Zero]
  /\ Return(g, Done(1, FALSE))
  /\ UNCHANGED <<queueVars, bufVars, selectDone, param, wake>>

chanrecvDirect(g) ==
  /\ Enter(g, "recv") /\ ~closed[Ch(g)] /\ Live(sendq[Ch(g)]) # {}
  /\ recv(g, Ch(g))
  /\ Goto(g, "ready")
  /\ ret' = [ret EXCEPT ![g] = Done(1, TRUE)]
  /\ UNCHANGED param

NoSender(c) ==
  /\ Live(sendq[c]) = {}
  /\ sendq' = dequeue(sendq, c)
  /\ UNCHANGED recvq

chanrecvBuffer(g) ==
  /\ Enter(g, "recv") /\ qcount[Ch(g)] > 0
  /\ IF closed[Ch(g)] THEN UNCHANGED queueVars ELSE NoSender(Ch(g))
  /\ bufrecv(g, Ch(g))
  /\ Return(g, Done(1, TRUE))
  /\ UNCHANGED param

chanrecvFail(g) ==
  /\ Enter(g, "recv") /\ ~closed[Ch(g)] /\ qcount[Ch(g)] = 0 /\ ~op[g].block
  /\ NoSender(Ch(g))
  /\ Return(g, NotDone)
  /\ UNCHANGED <<bufVars, selectDone, param, elem, wake>>

chanrecvBlock(g) ==
  /\ Enter(g, "recv") /\ ~closed[Ch(g)] /\ qcount[Ch(g)] = 0 /\ op[g].block
  /\ Live(sendq[Ch(g)]) = {}
  /\ sendq' = dequeue(sendq, Ch(g))
  /\ recvq' = enqueue(recvq, Ch(g), <<g, 1>>)
  /\ param' = [param EXCEPT ![g] = 0]
  /\ Goto(g, "park")
  /\ UNCHANGED <<bufVars, selectDone, elem, wake, ret>>

\* "someone woke us up": the rest of a chansend or chanrecv that blocked.
\* `throw("chansend: spurious wakeup")` if closechan did not do it.
chansendWoken(g) ==
  /\ pc[g] = "woken" /\ op[g].kind = "chan" /\ CaseDir(g, 1) = "send"
  /\ IF success[g] \/ closed[Ch(g)]
       THEN Return(g, IF success[g] THEN Done(1, TRUE) ELSE Panic(1))
       ELSE Goto(g, "throw") /\ UNCHANGED ret
  /\ param' = [param EXCEPT ![g] = 0]
  /\ UNCHANGED <<chanVars, op, calls, selectDone, success, elem, wake, selVars>>

chanrecvWoken(g) ==
  /\ pc[g] = "woken" /\ op[g].kind = "chan" /\ CaseDir(g, 1) = "recv"
  /\ Return(g, Done(1, success[g]))
  /\ param' = [param EXCEPT ![g] = 0]
  /\ UNCHANGED <<chanVars, op, calls, selectDone, success, elem, wake, selVars>>

-----------------------------------------------------------------------------
(* closechan: c.closed is visible to the fast paths before the waiters are  *)
(* dequeued, one by one, and the goreadys come after the unlock.            *)

closechanClosed(g) ==
  /\ pc[g] = "lock" /\ op[g].kind = "close" /\ lock[Ch(g)] = NoG
  /\ closed[Ch(g)]
  /\ Return(g, Panic(1))
  /\ UNCHANGED <<chanVars, op, calls, wakeVars, selVars>>

closechan(g) ==
  /\ pc[g] = "lock" /\ op[g].kind = "close" /\ lock[Ch(g)] = NoG
  /\ ~closed[Ch(g)]
  /\ closed' = [closed EXCEPT ![Ch(g)] = TRUE]
  /\ lock' = [lock EXCEPT ![Ch(g)] = g]
  /\ Goto(g, "closing")
  /\ ret' = [ret EXCEPT ![g] = Done(1, TRUE)]
  /\ UNCHANGED <<bufVars, queueVars, op, calls, wakeVars, selVars>>

\* Mutant: g.param is left nil.
closeWaiterNil(g, sg) ==
  /\ WinSelect(sg)
  /\ param' = [param EXCEPT ![sg[1]] = 0]
  /\ success' = [success EXCEPT ![sg[1]] = FALSE]
  /\ wake' = [wake EXCEPT ![g] = @ \cup {sg}]

\* Release the waiter sg.
closeWaiter(g, sg) ==
  /\ WinSelect(sg)
  /\ param' = [param EXCEPT ![sg[1]] = sg[2]]
  /\ success' = [success EXCEPT ![sg[1]] = FALSE]
  /\ wake' = [wake EXCEPT ![g] = @ \cup {sg}]

closechanRecvq(g) ==
  LET q == recvq[Ch(g)]
  IN  /\ pc[g] = "closing" /\ Live(q) # {}
      /\ closeWaiter(g, q[First(q)])
      /\ elem' = [elem EXCEPT ![q[First(q)][1]] = Zero]
      /\ recvq' = dequeue(recvq, Ch(g))
      /\ UNCHANGED <<closed, lock, bufVars, sendq, pc, op, calls, selVars, ret>>

closechanSendq(g) ==
  LET q == sendq[Ch(g)]
  IN  /\ pc[g] = "closing" /\ Live(recvq[Ch(g)]) = {} /\ Live(q) # {}
      /\ closeWaiter(g, q[First(q)])
      /\ recvq' = dequeue(recvq, Ch(g))
      /\ sendq' = dequeue(sendq, Ch(g))
      /\ UNCHANGED <<closed, lock, bufVars, elem, pc, op, calls, selVars, ret>>

\* Mutant: only the receivers are released.
closechanUnlockEarly(g) ==
  /\ pc[g] = "closing" /\ Live(recvq[Ch(g)]) = {}
  /\ recvq' = dequeue(recvq, Ch(g))
  /\ UNCHANGED sendq
  /\ lock' = [lock EXCEPT ![Ch(g)] = NoG]
  /\ Goto(g, IF wake[g] = {} THEN "idle" ELSE "ready")
  /\ UNCHANGED <<closed, bufVars, op, calls, wakeVars, selVars, ret>>

closechanUnlock(g) ==
  /\ pc[g] = "closing" /\ Live(recvq[Ch(g)]) = {} /\ Live(sendq[Ch(g)]) = {}
  /\ recvq' = dequeue(recvq, Ch(g))
  /\ sendq' = dequeue(sendq, Ch(g))
  /\ lock' = [lock EXCEPT ![Ch(g)] = NoG]
  /\ Goto(g, IF wake[g] = {} THEN "idle" ELSE "ready")
  /\ UNCHANGED <<closed, bufVars, op, calls, wakeVars, selVars, ret>>

-----------------------------------------------------------------------------
(* selectgo.                                                               *)

LockChan(g, k) == CaseChan(g, lockorder[g][k])
AllLocked(g)   == pos[g] = Len(lockorder[g])

\* sellock: the channels in lock order, each once.
sellock(g) ==
  /\ pc[g] \in {"sellock", "relock"} /\ ~AllLocked(g)
  /\ LET c == LockChan(g, pos[g] + 1)
     IN  IF pos[g] > 0 /\ LockChan(g, pos[g]) = c
           THEN UNCHANGED lock
           ELSE /\ lock[c] = NoG
                /\ lock' = [lock EXCEPT ![c] = g]
  /\ pos' = [pos EXCEPT ![g] = @ + 1]
  /\ UNCHANGED <<closed, bufVars, queueVars, pc, op, calls, wakeVars, lockorder,
                 polled, commit, ret>>

\* selunlock.  Nothing the goroutine does while it releases the locks one by
\* one depends on the others, so the release is one step.
selunlock(g) == lock' = [c \in Channel |-> IF lock[c] = g THEN NoG ELSE lock[c]]

\* Pass 1, with every lock held: look at the cases in any order (pollorder is
\* random).  Poll(g, i, dir): the next case looked at is i.
Poll(g, i, dir) ==
  /\ pc[g] = "sellock" /\ AllLocked(g)
  /\ i \in DOMAIN op[g].cases \ polled[g]
  /\ CaseChan(g, i) # Nil /\ CaseDir(g, i) = dir
  /\ UNCHANGED <<closed, op, calls, param, success, lockorder, pos, commit>>

\* `goto recv`
selectRecv(g, i) ==
  LET c == CaseChan(g, i)
  IN  /\ Poll(g, i, "recv") /\ Live(sendq[c]) # {}
      /\ recv(g, c)
      /\ selunlock(g)
      /\ Goto(g, "ready")
      /\ ret' = [ret EXCEPT ![g] = Done(i, TRUE)]
      /\ UNCHANGED polled

\* `goto bufrecv`
selectBufrecv(g, i) ==
  LET c == CaseChan(g, i)
  IN  /\ Poll(g, i, "recv") /\ qcount[c] > 0
      /\ NoSender(c)
      /\ bufrecv(g, c)
      /\ selunlock(g)
      /\ Return(g, Done(i, TRUE))
      /\ UNCHANGED polled

\* `goto rclose`
selectRclose(g, i) ==
  LET c == CaseChan(g, i)
  IN  /\ Poll(g, i, "recv") /\ qcount[c] = 0 /\ closed[c]
      /\ NoSender(c)
      /\ elem' = [elem EXCEPT ![g] = Zero]
      /\ selunlock(g)
      /\ Return(g, Done(i, FALSE))
      /\ UNCHANGED <<bufVars, selectDone, wake, polled>>

\* `goto sclose`
selectSclose(g, i) ==
  /\ Poll(g, i, "send") /\ closed[CaseChan(g, i)]
  /\ selunlock(g)
  /\ Return(g, Panic(i))
  /\ UNCHANGED <<queueVars, bufVars, selectDone, elem, wake, polled>>

\* `goto send`
selectSend(g, i) ==
  LET c == CaseChan(g, i)
  IN  /\ Poll(g, i, "send") /\ ~closed[c] /\ Live(recvq[c]) # {}
      /\ send(g, i, c)
      /\ selunlock(g)
      /\ Goto(g, "ready")
      /\ ret' = [ret EXCEPT ![g] = Done(i, TRUE)]
      /\ UNCHANGED polled

\* `goto bufsend`
selectBufsend(g, i) ==
  LET c == CaseChan(g, i)
  IN  /\ Poll(g, i, "send") /\ ~closed[c] /\ qcount[c] < dataqsiz[c]
      /\ NoReceiver(c)
      /\ bufsend(g, i, c)
      /\ selunlock(g)
      /\ Return(g, Done(i, TRUE))
      /\ UNCHANGED polled

\* Case i cannot proceed: on to the next.
selectNext(g, i) ==
  LET c == CaseChan(g, i)
  IN  /\ \/ Poll(g, i, "recv") /\ NoSender(c) /\ qcount[c] = 0
         \/ Poll(g, i, "send") /\ NoReceiver(c) /\ qcount[c] >= dataqsiz[c]
      /\ ~closed[c]
      /\ polled' = [polled EXCEPT ![g] = @ \cup {i}]
      /\ UNCHANGED <<bufVars, lock, pc, selectDone, elem, wake, ret>>

\* No case can proceed.
NoCase(g) ==
  /\ pc[g] = "sellock" /\ AllLocked(g)
  /\ \A i \in DOMAIN op[g].cases : CaseChan(g, i) # Nil => i \in polled[g]

selectDefault(g) ==
  /\ NoCase(g) /\ ~op[g].block
  /\ selunlock(g)
  /\ Return(g, NotDone)
  /\ UNCHANGED <<closed, bufVars, queueVars, op, calls, wakeVars, selVars>>

selectBlock(g) ==
  /\ NoCase(g) /\ op[g].block
  /\ pos' = [pos EXCEPT ![g] = 0]
  /\ Goto(g, "pass2")
  /\ UNCHANGED <<chanVars, op, calls, wakeVars, lockorder, polled, commit, ret>>

\* Pass 2: enqueue a sudog for each case, in lock order, and park.
selectEnqueue(g) ==
  /\ pc[g] = "pass2" /\ pos[g] < Len(lockorder[g])
  /\ LET i == lockorder[g][pos[g] + 1]
         c == CaseChan(g, i)
     IN  \/ /\ CaseDir(g, i) = "send"
            /\ sendq' = enqueue(sendq, c, <<g, i>>)
            /\ UNCHANGED recvq
         \/ /\ CaseDir(g, i) = "recv"
            /\ recvq' = enqueue(recvq, c, <<g, i>>)
            /\ UNCHANGED sendq
  /\ pos' = [pos EXCEPT ![g] = @ + 1]
  /\ UNCHANGED <<closed, bufVars, lock, pc, op, calls, wakeVars, lockorder,
                 polled, commit, ret>>

selectPark(g) ==
  /\ pc[g] = "pass2" /\ pos[g] = Len(lockorder[g])
  /\ param' = [param EXCEPT ![g] = 0]
  /\ commit' = [commit EXCEPT ![g] = IF lockorder[g] = <<>> THEN 0 ELSE 1]
  /\ Goto(g, "park")
  /\ UNCHANGED <<chanVars, op, calls, selectDone, success, elem, wake,
                 lockorder, pos, polled, ret>>

\* Mutant: a channel is unlocked at its first sudog, not at its last.
selparkcommitFirst(g) ==
  LET k == commit[g]
  IN  /\ k # 0
      /\ lock' = [lock EXCEPT ![LockChan(g, k)] = NoG]
      /\ commit' = [commit EXCEPT ![g] = IF k < Len(lockorder[g]) THEN k + 1 ELSE 0]
      /\ UNCHANGED <<closed, bufVars, queueVars, pc, op, calls, wakeVars,
                     lockorder, pos, polled, ret>>

\* selparkcommit runs on the system stack once g is parked: it walks g.waiting
\* and unlocks a channel when it has seen its last sudog.  From the first
\* unlock on g can be woken, and run, on another thread.
selparkcommit(g) ==
  LET k == commit[g]
      n == Len(lockorder[g])
  IN  /\ k # 0
      /\ lock' = IF k < n /\ LockChan(g, k + 1) = LockChan(g, k) THEN lock
                   ELSE [lock EXCEPT ![LockChan(g, k)] = NoG]
      /\ commit' = [commit EXCEPT ![g] = IF k < n THEN k + 1 ELSE 0]
      /\ UNCHANGED <<closed, bufVars, queueVars, pc, op, calls, wakeVars,
                     lockorder, pos, polled, ret>>

\* Mutant: selectDone is reset before the locks are held.
selectWokenReset(g) ==
  /\ pc[g] = "woken" /\ IsSelect(g)
  /\ pos' = [pos EXCEPT ![g] = 0]
  /\ selectDone' = [selectDone EXCEPT ![g] = FALSE]
  /\ Goto(g, "relock")
  /\ UNCHANGED <<chanVars, op, calls, param, success, elem, wake, lockorder,
                 polled, commit, ret>>

\* Woken: lock everything again ...
selectWoken(g) ==
  /\ pc[g] = "woken" /\ IsSelect(g)
  /\ pos' = [pos EXCEPT ![g] = 0]
  /\ Goto(g, "relock")
  /\ UNCHANGED <<chanVars, op, calls, wakeVars, lockorder, polled, commit, ret>>

\* Mutant: selectDone is not reset.
selectRelockedKeep(g) ==
  /\ pc[g] = "relock" /\ AllLocked(g)
  /\ pos' = [pos EXCEPT ![g] = 0]
  /\ Goto(g, "pass3")
  /\ UNCHANGED <<chanVars, op, calls, wakeVars, lockorder, polled, commit, ret>>

\* ... and only then let the next select of g be won.
selectRelocked(g) ==
  /\ pc[g] = "relock" /\ AllLocked(g)
  /\ selectDone' = [selectDone EXCEPT ![g] = FALSE]
  /\ pos' = [pos EXCEPT ![g] = 0]
  /\ Goto(g, "pass3")
  /\ UNCHANGED <<chanVars, op, calls, param, success, elem, wake, lockorder,
                 polled, commit, ret>>

\* Mutant: pass 3 ends at the case that won.
selectDequeueStop(g) ==
  /\ pc[g] = "pass3" /\ pos[g] < Len(lockorder[g])
  /\ LET i == lockorder[g][pos[g] + 1]
         c == CaseChan(g, i)
     IN  IF i = param[g]
           THEN /\ pos' = [pos EXCEPT ![g] = Len(lockorder[g])]
                /\ UNCHANGED queueVars
           ELSE /\ pos' = [pos EXCEPT ![g] = @ + 1]
                /\ sendq' = [sendq EXCEPT ![c] = dequeueSudoG(@, <<g, i>>)]
                /\ recvq' = [recvq EXCEPT ![c] = dequeueSudoG(@, <<g, i>>)]
  /\ UNCHANGED <<closed, bufVars, lock, pc, op, calls, wakeVars, lockorder,
                 polled, commit, ret>>

\* Pass 3: unlink the sudogs of the cases that did not win.
selectDequeue(g) ==
  /\ pc[g] = "pass3" /\ pos[g] < Len(lockorder[g])
  /\ LET i == lockorder[g][pos[g] + 1]
         c == CaseChan(g, i)
     IN  IF i = param[g]
           THEN UNCHANGED queueVars
           ELSE \/ /\ CaseDir(g, i) = "send"
                   /\ sendq' = [sendq EXCEPT ![c] = dequeueSudoG(@, <<g, i>>)]
                   /\ UNCHANGED recvq
                \/ /\ CaseDir(g, i) = "recv"
                   /\ recvq' = [recvq EXCEPT ![c] = dequeueSudoG(@, <<g, i>>)]
                   /\ UNCHANGED sendq
  /\ pos' = [pos EXCEPT ![g] = @ + 1]
  /\ UNCHANGED <<closed, bufVars, lock, pc, op, calls, wakeVars, lockorder,
                 polled, commit, ret>>

\* Mutant: a send case woken by close is reported as done.
selectFinishQuiet(g) ==
  /\ pc[g] = "pass3" /\ pos[g] = Len(lockorder[g])
  /\ selunlock(g)
  /\ param' = [param EXCEPT ![g] = 0]
  /\ Return(g, Done(param[g], success[g]))
  /\ UNCHANGED <<closed, bufVars, queueVars, op, calls, selectDone, success, elem,
                 wake, selVars>>

\* `throw("selectgo: bad wakeup")` if no case won.
selectFinish(g) ==
  /\ pc[g] = "pass3" /\ pos[g] = Len(lockorder[g])
  /\ LET i == param[g]
     IN  IF i = 0
           THEN Goto(g, "throw") /\ UNCHANGED <<lock, param, ret>>
           ELSE /\ selunlock(g)
                /\ param' = [param EXCEPT ![g] = 0]
                /\ Return(g, IF CaseDir(g, i) = "send" /\ ~success[g]
                               THEN Panic(i) ELSE Done(i, success[g]))
  /\ UNCHANGED <<closed, bufVars, queueVars, op, calls, selectDone, success, elem,
                 wake, selVars>>

-----------------------------------------------------------------------------
(* The specification.                                                      *)

\* makechan, and goroutines that have called nothing.
Init ==
  /\ closed = [c \in Channel |-> FALSE]
  /\ qcount = [c \in Channel |-> 0]
  /\ sendx = [c \in Channel |-> 0]
  /\ recvx = [c \in Channel |-> 0]
  /\ buf = [c \in Channel |-> [x \in 0..(dataqsiz[c] - 1) |-> Zero]]
  /\ recvq = [c \in Channel |-> <<>>]
  /\ sendq = [c \in Channel |-> <<>>]
  /\ lock = [c \in Channel |-> NoG]
  /\ pc = [g \in G |-> "idle"]
  /\ op = [g \in G |-> NoOp]
  /\ calls = [g \in G |-> 0]
  /\ selectDone = [g \in G |-> FALSE]
  /\ param = [g \in G |-> 0]
  /\ success = [g \in G |-> FALSE]
  /\ elem = [g \in G |-> Zero]
  /\ wake = [g \in G |-> {}]
  /\ lockorder = [g \in G |-> <<>>]
  /\ pos = [g \in G |-> 0]
  /\ polled = [g \in G |-> {}]
  /\ commit = [g \in G |-> 0]
  /\ ret = [g \in G |-> NoRet]

Chansend(g) ==
  \/ sendClosed(g) \/ sendFull(g) \/ sendFullFirst(g) \/ sendClosedLast(g)
  \/ chansendClosed(g) \/ chansendDirect(g) \/ chansendBuffer(g)
  \/ chansendFail(g) \/ chansendBlock(g) \/ chansendWoken(g)

Chanrecv(g) ==
  \/ recvEmpty(g) \/ recvClosed(g) \/ recvRecheck(g)
  \/ chanrecvClosed(g) \/ chanrecvDirect(g) \/ chanrecvBuffer(g)
  \/ chanrecvFail(g) \/ chanrecvBlock(g) \/ chanrecvWoken(g)

Closechan(g) ==
  \/ closechanClosed(g) \/ closechan(g) \/ closechanRecvq(g)
  \/ closechanSendq(g) \/ closechanUnlock(g)

SelectPass1(g) ==
  \/ \E i \in DOMAIN op[g].cases :
       \/ selectRecv(g, i) \/ selectBufrecv(g, i) \/ selectRclose(g, i)
       \/ selectSend(g, i) \/ selectBufsend(g, i) \/ selectSclose(g, i)
       \/ selectNext(g, i)
  \/ selectDefault(g) \/ selectBlock(g)

Selectgo(g) ==
  \/ sellock(g) \/ SelectPass1(g) \/ selectEnqueue(g) \/ selectPark(g)
  \/ selparkcommit(g) \/ selectWoken(g) \/ selectRelocked(g)
  \/ selectDequeue(g) \/ selectFinish(g)

Run(g) == \/ Chansend(g) \/ Chanrecv(g) \/ Closechan(g) \/ Selectgo(g)
          \/ goready(g) \/ nilchan(g)

Next == \E g \in G :
          \/ \E o \in Ops : CallChan(g, o) \/ CallNil(g, o) \/ CallSelect(g, o)
          \/ Run(g)

\* The scheduler runs every runnable goroutine, and lock2 admits one waiter
\* whenever the lock is free.
Fairness == \A g \in G : WF_vars(Run(g))

Spec == Init /\ [][Next]_vars /\ Fairness

-----------------------------------------------------------------------------
(* Properties.                                                             *)

Index(c) == IF dataqsiz[c] = 0 THEN {0} ELSE 0..(dataqsiz[c] - 1)

\* The types of the variables.
BufOK ==
  /\ closed \in [Channel -> BOOLEAN]
  /\ qcount \in [Channel -> Nat] /\ DOMAIN buf = Channel
  /\ sendx \in [Channel -> Nat] /\ recvx \in [Channel -> Nat]
  /\ \A c \in Channel :
       /\ buf[c] \in [0..(dataqsiz[c] - 1) -> Elem]
       /\ qcount[c] <= dataqsiz[c]
       /\ sendx[c] \in Index(c) /\ recvx[c] \in Index(c)

QueueOK ==
  /\ recvq \in [Channel -> Seq(Sudog)] /\ sendq \in [Channel -> Seq(Sudog)]
  /\ lock \in [Channel -> G \cup {NoG}]

RunOK ==
  /\ pc \in [G -> PC] /\ op \in [G -> Ops \cup {NoOp}]
  /\ calls \in [G -> Nat] /\ ret \in [G -> Result]

WakeOK ==
  /\ selectDone \in [G -> BOOLEAN] /\ param \in [G -> Nat]
  /\ success \in [G -> BOOLEAN] /\ elem \in [G -> Elem]
  /\ wake \in [G -> SUBSET Sudog]

SelOK ==
  /\ lockorder \in [G -> Seq(Nat)] /\ pos \in [G -> Nat]
  /\ polled \in [G -> SUBSET Nat] /\ commit \in [G -> Nat]

\* Type correctness, with the indices of the circular buffer in range.
TypeOK == BufOK /\ QueueOK /\ RunOK /\ WakeOK /\ SelOK

\* The invariants chan.go opens with, for a channel that is not closed.  A
\* waiting sender and a waiting receiver never coexist, unless the channel is
\* unbuffered and one goroutine waits on it both ways in a select; a buffered
\* channel has waiting receivers only when it is empty and waiting senders only
\* when it is full.  Stale sudogs of selects won elsewhere are in the queues too
\* and do not break this.
WaitqOK(c) ==
  ~closed[c] =>
    /\ qcount[c] > 0 => recvq[c] = <<>>
    /\ qcount[c] < dataqsiz[c] => sendq[c] = <<>>
    /\ \A i \in DOMAIN recvq[c], j \in DOMAIN sendq[c] :
         recvq[c][i][1] = sendq[c][j][1]

WaitqInvariant == \A c \in Channel : WaitqOK(c)

\* Nobody is queued on a closed channel, once the closechan that closed it has
\* released the lock.
ClosedDrained ==
  \A c \in Channel : closed[c] =>
    \/ recvq[c] = <<>> /\ sendq[c] = <<>>
    \/ \E h \in G : pc[h] = "closing" /\ lock[c] = h

\* goready is called once per park, on a goroutine that is still parked (ready()
\* throws "bad g->status in ready" otherwise): although the sudogs of one select
\* sit in many queues, only one of them is ever taken to be woken.
ReadyOnce ==
  \A g, h \in G : \A s \in wake[g], t \in wake[h] :
    /\ pc[s[1]] = "park"
    /\ s[1] = t[1] => g = h /\ s = t

Chosen(g) == \E h \in G : \E s \in wake[h] : s[1] = g
Queue(c, dir) == IF dir = "send" THEN sendq[c] ELSE recvq[c]
Queued(g, i) == \E k \in DOMAIN Queue(CaseChan(g, i), CaseDir(g, i)) :
                  Queue(CaseChan(g, i), CaseDir(g, i))[k] = <<g, i>>

\* No lost waiter: a parked goroutine nobody has taken yet is still in the queue
\* of every channel it waits for, and it is not marked as won.
NoLostWaiter ==
  \A g \in G : pc[g] = "park" /\ ~Chosen(g) =>
    /\ ~selectDone[g]
    /\ \A i \in DOMAIN op[g].cases : CaseChan(g, i) # Nil => Queued(g, i)

\* No dangling sudog: everything in a queue is a case, on that channel and in
\* that direction, of the operation its goroutine is still in, and it is there
\* once.  selectgo releases its sudogs when it returns: one left behind would
\* be reused while still linked.
NoDanglingSudog ==
  \A c \in Channel, dir \in Dir : \A k \in DOMAIN Queue(c, dir) :
    LET g == Queue(c, dir)[k][1]
        i == Queue(c, dir)[k][2]
    IN  /\ pc[g] \in {"pass2", "park", "woken", "relock", "pass3"}
        /\ i \in DOMAIN op[g].cases /\ op[g].cases[i] = [c |-> c, dir |-> dir]
        /\ \A l \in DOMAIN Queue(c, dir) : Queue(c, dir)[l] = <<g, i>> => l = k

\* The throws of the slow paths ("chansend: spurious wakeup", "selectgo: bad
\* wakeup") are unreachable.
NoThrow == \A g \in G : pc[g] # "throw"

\* selparkcommit never reads the list g.waiting once g has gone on to take it
\* apart (pass 3) or return, although it runs concurrently with a woken g.
WaitingListStable ==
  \A g \in G : commit[g] # 0 =>
    /\ pc[g] \in {"park", "woken", "relock"}
    /\ pc[g] = "relock" => ~AllLocked(g)

\* Every operation that is not waiting for another goroutine to act finishes
\* or parks: selects that lock several channels do not deadlock.
OpProgress ==
  \A g \in G : pc[g] \notin {"idle", "park", "nil"} ~> pc[g] \in {"idle", "park", "nil"}

\* Whoever is parked on a channel that is being closed returns.
WaitsOn(g, c) == pc[g] = "park" /\ \E i \in DOMAIN op[g].cases : CaseChan(g, i) = c
CloseReleases ==
  \A g \in G, c \in Channel : closed[c] /\ WaitsOn(g, c) ~> pc[g] = "idle"

=============================================================================
