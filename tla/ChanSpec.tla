------------------------------ MODULE ChanSpec ------------------------------
(***************************************************************************)
(* What channels promise: a channel is a bounded FIFO queue that can be    *)
(* closed, and an operation on it takes effect in one atomic step between  *)
(* its call and its return.  A value sent while no buffer slot is free is  *)
(* handed over in the step in which a receive completes.                   *)
(*                                                                         *)
(* A non-blocking operation may give up at any time: when chansend's and   *)
(* chanrecv's fast paths do so is the subject of module ChanNonblock.      *)
(***************************************************************************)
EXTENDS Integers, Sequences

CONSTANTS G, Channel, Nil, dataqsiz, Ops, MaxCalls

VARIABLES
  q,      \* the elements in each channel, oldest first
  shut,   \* closed channels
  cur,    \* the operation each goroutine is in, NoOp once it took effect
  calls,  \* the calls it has made
  res,    \* the result of the last operation that took effect
  got     \* the element it last received

avars == <<q, shut, cur, calls, res, got>>

Zero      == <<>>
Val(g, i) == <<g, calls[g], i>>
NoOp      == [kind |-> "none", block |-> FALSE, cases |-> <<>>]

Done(i, ok) == [st |-> "done", i |-> i, ok |-> ok]
NotDone     == [st |-> "default", i |-> 0, ok |-> FALSE]
Panic(i)    == [st |-> "panic", i |-> i, ok |-> FALSE]
NoRet       == [st |-> "none", i |-> 0, ok |-> FALSE]

\* Case i of g's operation is dir on c.
At(g, i, c, dir) ==
  /\ cur[g].kind \in {"chan", "select"}
  /\ i \in DOMAIN cur[g].cases
  /\ cur[g].cases[i] = [c |-> c, dir |-> dir]

Finish(g, r) == /\ cur' = [cur EXCEPT ![g] = NoOp]
                /\ res' = [res EXCEPT ![g] = r]

AInit ==
  /\ q = [c \in Channel |-> <<>>]
  /\ shut = [c \in Channel |-> FALSE]
  /\ cur = [g \in G |-> NoOp]
  /\ calls = [g \in G |-> 0]
  /\ res = [g \in G |-> NoRet]
  /\ got = [g \in G |-> Zero]

Call(g, o) ==
  /\ cur[g] = NoOp /\ calls[g] < MaxCalls
  /\ cur' = [cur EXCEPT ![g] = o]
  /\ calls' = [calls EXCEPT ![g] = @ + 1]
  /\ res' = [res EXCEPT ![g] = NoRet]
  /\ UNCHANGED <<q, shut, got>>

Send(g, i, c) ==
  /\ At(g, i, c, "send") /\ ~shut[c] /\ Len(q[c]) < dataqsiz[c]
  /\ q' = [q EXCEPT ![c] = Append(@, Val(g, i))]
  /\ Finish(g, Done(i, TRUE))
  /\ UNCHANGED <<shut, calls, got>>

SendClosed(g, i, c) ==
  /\ At(g, i, c, "send") /\ shut[c]
  /\ Finish(g, Panic(i))
  /\ UNCHANGED <<q, shut, calls, got>>

Recv(g, i, c) ==
  /\ At(g, i, c, "recv") /\ q[c] # <<>>
  /\ got' = [got EXCEPT ![g] = Head(q[c])]
  /\ q' = [q EXCEPT ![c] = Tail(@)]
  /\ Finish(g, Done(i, TRUE))
  /\ UNCHANGED <<shut, calls>>

RecvClosed(g, i, c) ==
  /\ At(g, i, c, "recv") /\ shut[c] /\ q[c] = <<>>
  /\ got' = [got EXCEPT ![g] = Zero]
  /\ Finish(g, Done(i, FALSE))
  /\ UNCHANGED <<q, shut, calls>>

\* Sender s and receiver r meet: r takes the oldest element, counting s's.
Meet(s, i, r, j, c) ==
  LET all == Append(q[c], Val(s, i))
  IN  /\ s # r /\ At(s, i, c, "send") /\ At(r, j, c, "recv") /\ ~shut[c]
      /\ got' = [got EXCEPT ![r] = Head(all)]
      /\ q' = [q EXCEPT ![c] = Tail(all)]
      /\ cur' = [cur EXCEPT ![s] = NoOp, ![r] = NoOp]
      /\ res' = [res EXCEPT ![s] = Done(i, TRUE), ![r] = Done(j, TRUE)]
      /\ UNCHANGED <<shut, calls>>

\* A close succeeds once; closing again, or closing nil, panics.
Close(g, c) ==
  /\ cur[g].kind = "close" /\ cur[g].cases[1].c = c
  /\ IF c = Nil \/ shut[c] THEN Finish(g, Panic(1)) /\ UNCHANGED shut
                           ELSE /\ Finish(g, Done(1, TRUE))
                                /\ shut' = [shut EXCEPT ![c] = TRUE]
  /\ UNCHANGED <<q, calls, got>>

Default(g) ==
  /\ cur[g].kind \in {"chan", "select"} /\ ~cur[g].block
  /\ Finish(g, NotDone)
  /\ UNCHANGED <<q, shut, calls, got>>

ANext ==
  \E g \in G :
    \/ \E o \in Ops : Call(g, o)
    \/ \E i \in DOMAIN cur[g].cases, c \in Channel :
         \/ Send(g, i, c) \/ SendClosed(g, i, c)
         \/ Recv(g, i, c) \/ RecvClosed(g, i, c)
         \/ \E r \in G : \E j \in DOMAIN cur[r].cases : Meet(g, i, r, j, c)
    \/ \E c \in Channel \cup {Nil} : Close(g, c)
    \/ Default(g)

ASpec == AInit /\ [][ANext]_avars

=============================================================================
