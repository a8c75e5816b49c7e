--------------------------- MODULE ChanRefinement ---------------------------
(***************************************************************************)
(* Module Chan implements module ChanSpec: chansend, chanrecv, closechan   *)
(* and selectgo are linearizable operations on bounded FIFO queues.        *)
(***************************************************************************)
EXTENDS Chan

\* The elements of the circular buffer of c, from recvx on.
Contents(c) ==
  [k \in 1..qcount[c] |-> buf[c][(recvx[c] + k - 1) % dataqsiz[c]]]

\* The operation of g took effect, in the critical section of the goroutine
\* that dequeued its sudog, when it was chosen; g itself only learns it later.
Taken(g)   == \E h \in G : \E s \in wake[h] : s[1] = g
Waker(g)   == CHOOSE h \in G : \E s \in wake[h] : s[1] = g
TakenAs(g) == CHOOSE s \in wake[Waker(g)] : s[1] = g

Outcome(g, i, ok) ==
  IF CaseDir(g, i) = "send" /\ ~ok THEN Panic(i) ELSE Done(i, ok)

Effective(g) == \/ pc[g] \in {"idle", "ready", "closing", "woken", "relock", "pass3"}
                \/ Taken(g)

AbstractRes(g) ==
  IF Taken(g)
    THEN Outcome(g, TakenAs(g)[2], op[Waker(g)].kind # "close")
    ELSE IF pc[g] \in {"woken", "relock", "pass3"}
           THEN Outcome(g, param[g], success[g])
           ELSE ret[g]

A == INSTANCE ChanSpec WITH
       q    <- [c \in Channel |-> Contents(c)],
       shut <- closed,
       cur  <- [g \in G |-> IF Effective(g) THEN NoOp ELSE op[g]],
       res  <- [g \in G |-> AbstractRes(g)],
       got  <- elem

\* The implementation theorem: every behaviour of the runtime's channels is one
\* of atomic bounded FIFO queues.  No element is lost, duplicated or reordered,
\* a receive reports "closed" only when the channel is closed and drained, a
\* send never succeeds on a closed channel and at most one case of a select
\* takes effect.
Linearizable == A!ASpec

=============================================================================
