----------------------------- MODULE ChanProofs -----------------------------
(***************************************************************************)
(* Theorems about module Chan, for any number of goroutines, channels,     *)
(* cases and calls.                                                        *)
(*                                                                         *)
(* IInv (module ChanInv) is an inductive invariant, so TypeOK,             *)
(* WaitqInvariant and WaitingListStable hold.  Lemmas on the wait queues   *)
(* and on the circular buffer come first, and with them TypeOK.  For the   *)
(* rest, a step of g is split into what it does to the other goroutines    *)
(* (the frame: it touches no channel they have locked, except that pass 3  *)
(* takes sudogs out), what it does to g, and what it does to the wait      *)
(* queues.                                                                 *)
(*                                                                         *)
(* SInv, in the second part, ties each sudog in a queue to what its        *)
(* goroutine is doing: goready finds its goroutine parked and once, no     *)
(* waiter is lost, no sudog is left behind, the throws are unreachable and *)
(* a closed channel is drained.  A step of g is split into its effect on   *)
(* the other goroutines' sudogs (it drops stale ones at most, unless it    *)
(* takes one to be woken) and on g itself.                                 *)
(*                                                                         *)
(* LInv, in the last part, adds what the refinement needs to know of the   *)
(* circular buffer, of the fast paths and of whoever has been woken.  Seen *)
(* from outside, a step of g is one of three kinds: g acts alone (Solo),   *)
(* it takes a waiter (Takes), or it readies one (goready).  So Chan        *)
(* implements ChanSpec, and a non-blocking operation gives up only after a *)
(* moment when it could not proceed.                                       *)
(***************************************************************************)
EXTENDS ChanInv, ChanNonblock, ChanRefinement, SequenceTheorems, WellFoundedInduction, TLAPS

-----------------------------------------------------------------------------
(* Lemmas on the wait queues.                                              *)

\* Every sudog of t is one of s: t results from taking sudogs out of s.
Within(t, s) == \A i \in DOMAIN t : \E j \in DOMAIN s : t[i] = s[j]

\* dequeue() returns a sudog of the queue: First is the least live position.
LEMMA FirstLive ==
  ASSUME NEW q \in Seq(Sudog), Live(q) # {}
  PROVE  /\ First(q) \in Live(q)
         /\ First(q) \in 1..Len(q)
         /\ q[First(q)] \in Sudog
<1>1. Live(q) \subseteq Nat
  BY DEF Live
<1>2. PICK x \in Live(q) : \A y \in Live(q) : ~(<<y, x>> \in OpToRel(<, Nat))
  BY <1>1, WFMin, NatLessThanWellFounded, Zenon
<1>3. \A y \in Live(q) : ~(y < x)
  BY <1>1, <1>2, Zenon DEF OpToRel
<1>4. \A y \in Live(q) : x <= y
  BY <1>1, <1>3
<1>5. First(q) \in Live(q)
  BY <1>4 DEF First
<1>. QED
  BY <1>5 DEF Live

\* What dequeue() leaves behind was in the queue before.
LEMMA RestWithin ==
  ASSUME NEW q \in Seq(Sudog)
  PROVE  /\ Rest(q) \in Seq(Sudog)
         /\ Within(Rest(q), q)
         /\ Live(q) = {} => Rest(q) = <<>>
         /\ q = <<>> => Rest(q) = <<>>
<1>1. CASE Live(q) = {}
  BY <1>1 DEF Rest, Within
<1>2. CASE Live(q) # {}
  <2>. DEFINE n == First(q)
  <2>1. n \in 1..Len(q)
    BY <1>2, FirstLive
  <2>2. Rest(q) = SubSeq(q, n + 1, Len(q))
    BY <1>2 DEF Rest
  <2>3. q # <<>>
    BY <2>1
  <2>. HIDE DEF n
  <2>. QED
    BY <1>2, <2>1, <2>2, <2>3 DEF Within
<1>. QED
  BY <1>1, <1>2

\* dequeueSudoG only takes sudogs out.
LEMMA UnlinkWithin ==
  ASSUME NEW q \in Seq(Sudog), NEW sg \in Sudog
  PROVE  /\ dequeueSudoG(q, sg) \in Seq(Sudog)
         /\ Within(dequeueSudoG(q, sg), q)
         /\ q = <<>> => dequeueSudoG(q, sg) = <<>>
<1>1. CASE ~ \E i \in DOMAIN q : q[i] = sg
  BY <1>1 DEF dequeueSudoG, Within
<1>2. CASE \E i \in DOMAIN q : q[i] = sg
  <2>. DEFINE n == CHOOSE i \in DOMAIN q : q[i] = sg
              a == SubSeq(q, 1, n - 1)
              b == SubSeq(q, n + 1, Len(q))
  <2>1. n \in 1..Len(q)
    BY <1>2
  <2>2. dequeueSudoG(q, sg) = a \o b
    BY <1>2 DEF dequeueSudoG
  <2>3. q # <<>>
    BY <2>1
  <2>. HIDE DEF n
  <2>4. /\ a \in Seq(Sudog) /\ Len(a) = n - 1
        /\ \A i \in 1..(n - 1) : a[i] = q[i]
    BY <2>1
  <2>5. /\ b \in Seq(Sudog) /\ Len(b) = Len(q) - n
        /\ \A i \in 1..(Len(q) - n) : b[i] = q[n + i]
    BY <2>1
  <2>. HIDE DEF a, b
  <2>6. /\ a \o b \in Seq(Sudog)
        /\ Len(a \o b) = Len(a) + Len(b)
        /\ \A i \in 1..(Len(a) + Len(b)) :
             (a \o b)[i] = IF i <= Len(a) THEN a[i] ELSE b[i - Len(a)]
    BY <2>4, <2>5, ConcatProperties
  <2>7. ASSUME NEW i \in DOMAIN (a \o b)
        PROVE  \E j \in DOMAIN q : (a \o b)[i] = q[j]
    <3>1. i \in 1..(Len(q) - 1)
      BY <2>1, <2>4, <2>5, <2>6
    <3>2. CASE i <= n - 1
      <4>1. (a \o b)[i] = a[i] /\ i \in 1..(n - 1)
        BY <3>1, <3>2, <2>1, <2>4, <2>5, <2>6
      <4>2. a[i] = q[i] /\ i \in DOMAIN q
        BY <4>1, <2>1, <2>4
      <4>. QED
        BY <4>1, <4>2
    <3>3. CASE i > n - 1
      <4>1. (a \o b)[i] = b[i - (n - 1)] /\ i - (n - 1) \in 1..(Len(q) - n)
        BY <3>1, <3>3, <2>1, <2>4, <2>5, <2>6
      <4>2. b[i - (n - 1)] = q[n + (i - (n - 1))]
        BY <4>1, <2>5
      <4>. QED
        BY <4>1, <4>2, <3>1, <3>3, <2>1
    <3>. QED
      BY <3>1, <3>2, <3>3, <2>1
  <2>. QED
    BY <2>2, <2>3, <2>6, <2>7 DEF Within
<1>. QED
  BY <1>1, <1>2

-----------------------------------------------------------------------------
(* Type correctness.                                                       *)

LEMMA OpType ==
  ASSUME TypeOK, NEW g \in G
  PROVE  /\ op[g].kind \in {"none", "chan", "select", "close"}
         /\ op[g].cases \in Seq(Case)
         /\ \A i \in DOMAIN op[g].cases :
              /\ CaseChan(g, i) \in Channel \cup {Nil}
              /\ CaseDir(g, i) \in Dir
<1>1. op[g] \in Operation \/ op[g] = NoOp
  BY OpsAssumption DEF TypeOK, RunOK
<1>2. CASE op[g] \in Operation
  <2>1. /\ op[g].kind \in {"none", "chan", "select", "close"}
        /\ op[g].cases \in Seq(Case)
    BY <1>2 DEF Operation
  <2>2. \A i \in DOMAIN op[g].cases : op[g].cases[i] \in Case
    BY <2>1
  <2>. QED
    BY <2>1, <2>2 DEF CaseChan, CaseDir, Case
<1>3. CASE op[g] = NoOp
  BY <1>3 DEF NoOp, CaseChan, CaseDir
<1>. QED
  BY <1>1, <1>2, <1>3

LEMMA ResultType ==
  /\ NotDone \in Result /\ NoRet \in Result
  /\ \A i \in Nat : Panic(i) \in Result /\ \A b \in BOOLEAN : Done(i, b) \in Result
BY DEF NotDone, NoRet, Panic, Done, Result

LEMMA ValType ==
  ASSUME TypeOK, NEW g \in G, NEW i \in Nat
  PROVE  Val(g, i) \in Elem
BY DEF Val, Elem, TypeOK, RunOK

LEMMA TypeInit == Init => TypeOK
<1>. SUFFICES ASSUME Init PROVE TypeOK
  OBVIOUS
<1>1. \A c \in Channel : dataqsiz[c] \in Nat
  BY SizeAssumption
<1>2. \A c \in Channel : 0 \in Index(c)
  BY <1>1 DEF Index
<1>3. BufOK
  BY <1>1, <1>2 DEF Init, Elem, BufOK
<1>. QED
  BY <1>3, ResultType
     DEF Init, TypeOK, QueueOK, RunOK, WakeOK, SelOK, PC, Elem, NoOp

\* Storing an element at sendx, or taking the one at recvx, leaves the buffer
\* well formed: the index wraps and qcount stays within dataqsiz.
LEMMA BufsendType ==
  ASSUME TypeOK, NEW g \in G, NEW i \in Nat, NEW c \in Channel,
         qcount[c] < dataqsiz[c], bufsend(g, i, c), UNCHANGED closed
  PROVE  BufOK'
<1>1. dataqsiz[c] \in Nat /\ dataqsiz[c] > 0 /\ qcount[c] \in Nat /\ sendx[c] \in 0..(dataqsiz[c] - 1)
  BY SizeAssumption DEF TypeOK, BufOK, Index
<1>2. Incr(c, sendx[c]) \in 0..(dataqsiz[c] - 1)
  BY <1>1 DEF Incr
<1>3. buf'[c] \in [0..(dataqsiz[c] - 1) -> Elem] /\ DOMAIN buf' = Channel
  BY <1>1, ValType DEF bufsend, TypeOK, BufOK
<1>4. \A d \in Channel \ {c} : buf'[d] = buf[d]
  BY DEF bufsend, TypeOK, BufOK
<1>5. /\ \A d \in Channel \ {c} : UNCHANGED <<qcount[d], sendx[d], recvx[d]>>
      /\ qcount'[c] = qcount[c] + 1 /\ sendx'[c] = Incr(c, sendx[c])
      /\ recvx'[c] = recvx[c]
      /\ qcount' \in [Channel -> Nat] /\ sendx' \in [Channel -> Nat]
      /\ recvx' \in [Channel -> Nat]
  BY <1>1, <1>2 DEF bufsend, TypeOK, BufOK
<1>6. qcount'[c] <= dataqsiz[c]
  BY <1>1, <1>5
<1>7. sendx'[c] \in Index(c) /\ recvx'[c] \in Index(c)
  BY <1>1, <1>2, <1>5 DEF TypeOK, BufOK, Index
<1>8. \A d \in Channel \ {c} :
        /\ buf'[d] \in [0..(dataqsiz[d] - 1) -> Elem]
        /\ qcount'[d] <= dataqsiz[d]
        /\ sendx'[d] \in Index(d) /\ recvx'[d] \in Index(d)
  BY <1>4, <1>5 DEF TypeOK, BufOK
<1>9. closed' \in [Channel -> BOOLEAN]
  BY DEF TypeOK, BufOK
<1>. QED
  BY <1>3, <1>5, <1>6, <1>7, <1>8, <1>9 DEF BufOK, Index

LEMMA BufrecvType ==
  ASSUME TypeOK, NEW g \in G, NEW c \in Channel,
         qcount[c] > 0, bufrecv(g, c), UNCHANGED closed
  PROVE  BufOK' /\ elem' \in [G -> Elem]
<1>1. dataqsiz[c] \in Nat /\ dataqsiz[c] > 0 /\ qcount[c] \in Nat /\ recvx[c] \in 0..(dataqsiz[c] - 1)
  BY SizeAssumption DEF TypeOK, BufOK, Index
<1>2. Incr(c, recvx[c]) \in 0..(dataqsiz[c] - 1)
  BY <1>1 DEF Incr
<1>3. buf'[c] \in [0..(dataqsiz[c] - 1) -> Elem] /\ DOMAIN buf' = Channel
  BY <1>1 DEF bufrecv, TypeOK, BufOK, Elem
<1>4. \A d \in Channel \ {c} : buf'[d] = buf[d]
  BY DEF bufrecv, TypeOK, BufOK
<1>5. buf[c][recvx[c]] \in Elem
  BY <1>1 DEF TypeOK, BufOK
<1>6. /\ \A d \in Channel \ {c} : UNCHANGED <<qcount[d], sendx[d], recvx[d]>>
      /\ qcount'[c] = qcount[c] - 1 /\ recvx'[c] = Incr(c, recvx[c])
      /\ sendx'[c] = sendx[c]
      /\ qcount' \in [Channel -> Nat] /\ sendx' \in [Channel -> Nat]
      /\ recvx' \in [Channel -> Nat]
  BY <1>1, <1>2 DEF bufrecv, TypeOK, BufOK
<1>7. elem' \in [G -> Elem]
  BY <1>5 DEF bufrecv, TypeOK, WakeOK
<1>8. /\ sendx'[c] \in Index(c) /\ recvx'[c] \in Index(c)
      /\ qcount'[c] <= dataqsiz[c]
  BY <1>1, <1>2, <1>6 DEF TypeOK, BufOK, Index
<1>9. \A d \in Channel \ {c} :
        /\ buf'[d] \in [0..(dataqsiz[d] - 1) -> Elem]
        /\ qcount'[d] <= dataqsiz[d]
        /\ sendx'[d] \in Index(d) /\ recvx'[d] \in Index(d)
  BY <1>4, <1>6 DEF TypeOK, BufOK
<1>10. closed' \in [Channel -> BOOLEAN]
  BY DEF TypeOK, BufOK
<1>. QED
  BY <1>3, <1>6, <1>7, <1>8, <1>9, <1>10 DEF BufOK, Index

LEMMA SendType ==
  ASSUME TypeOK, NEW g \in G, NEW i \in Nat, NEW c \in Channel,
         Live(recvq[c]) # {}, send(g, i, c), UNCHANGED closed
  PROVE  /\ BufOK'
         /\ recvq' \in [Channel -> Seq(Sudog)] /\ sendq' \in [Channel -> Seq(Sudog)]
         /\ selectDone' \in [G -> BOOLEAN] /\ elem' \in [G -> Elem]
         /\ wake' \in [G -> SUBSET Sudog]
<1>. DEFINE sg == recvq[c][First(recvq[c])]
<1>1. sg \in Sudog /\ Rest(recvq[c]) \in Seq(Sudog)
  BY FirstLive, RestWithin DEF TypeOK, QueueOK
<1>2. sg[1] \in G /\ Val(g, i) \in Elem
  BY <1>1, ValType DEF Sudog
<1>3. BufOK'
  BY DEF send, TypeOK, BufOK, bufVars, Index
<1>4. /\ recvq' = [recvq EXCEPT ![c] = Rest(@)] /\ sendq' = sendq
      /\ selectDone' = [selectDone EXCEPT ![sg[1]] = @ \/ IsSelect(sg[1])]
      /\ elem' = [elem EXCEPT ![sg[1]] = Val(g, i)]
      /\ wake' = [wake EXCEPT ![g] = {sg}]
  BY DEF send, dequeue, WinSelect
<1>. HIDE DEF sg
<1>5. selectDone' \in [G -> BOOLEAN]
  BY <1>2, <1>4 DEF TypeOK, WakeOK, IsSelect
<1>. QED
  BY <1>1, <1>2, <1>3, <1>4, <1>5 DEF TypeOK, QueueOK, WakeOK

LEMMA RecvType ==
  ASSUME TypeOK, NEW g \in G, NEW c \in Channel,
         Live(sendq[c]) # {}, recv(g, c), UNCHANGED closed
  PROVE  /\ BufOK'
         /\ recvq' \in [Channel -> Seq(Sudog)] /\ sendq' \in [Channel -> Seq(Sudog)]
         /\ selectDone' \in [G -> BOOLEAN] /\ elem' \in [G -> Elem]
         /\ wake' \in [G -> SUBSET Sudog]
<1>. DEFINE sg == sendq[c][First(sendq[c])]
            v  == Val(sg[1], sg[2])
            x  == Incr(c, recvx[c])
<1>1. sg \in Sudog /\ Rest(sendq[c]) \in Seq(Sudog)
  BY FirstLive, RestWithin DEF TypeOK, QueueOK
<1>2. sg[1] \in G /\ sg[2] \in Nat
  BY <1>1 DEF Sudog
<1>3. v \in Elem
  BY <1>2, ValType
<1>4. /\ sendq' = [sendq EXCEPT ![c] = Rest(@)] /\ recvq' = recvq
      /\ selectDone' = [selectDone EXCEPT ![sg[1]] = @ \/ IsSelect(sg[1])]
      /\ wake' = [wake EXCEPT ![g] = {sg}]
  BY DEF recv, dequeue, WinSelect
<1>5. ASSUME dataqsiz[c] = 0 PROVE BufOK' /\ elem' \in [G -> Elem]
  <2>1. elem' = [elem EXCEPT ![g] = v] /\ UNCHANGED bufVars
    BY <1>5 DEF recv
  <2>. HIDE DEF v
  <2>. QED
    BY <1>3, <2>1 DEF TypeOK, BufOK, bufVars, WakeOK, Index
<1>6. ASSUME dataqsiz[c] # 0 PROVE BufOK' /\ elem' \in [G -> Elem]
  <2>1. /\ elem' = [elem EXCEPT ![g] = buf[c][recvx[c]]]
        /\ buf' = [buf EXCEPT ![c][recvx[c]] = v]
        /\ recvx' = [recvx EXCEPT ![c] = x] /\ sendx' = [sendx EXCEPT ![c] = x]
        /\ UNCHANGED qcount
    BY <1>6 DEF recv
  <2>2. dataqsiz[c] \in Nat /\ dataqsiz[c] > 0 /\ recvx[c] \in 0..(dataqsiz[c] - 1)
    BY <1>6, SizeAssumption DEF TypeOK, BufOK, Index
  <2>3. x \in 0..(dataqsiz[c] - 1) /\ x \in Nat
    BY <2>2 DEF Incr
  <2>4. buf[c][recvx[c]] \in Elem
    BY <2>2 DEF TypeOK, BufOK
  <2>. HIDE DEF v, x
  <2>5. buf'[c] \in [0..(dataqsiz[c] - 1) -> Elem] /\ DOMAIN buf' = Channel
    BY <2>1, <2>2, <1>3 DEF TypeOK, BufOK
  <2>6. \A d \in Channel \ {c} : buf'[d] = buf[d]
    BY <2>1 DEF TypeOK, BufOK
  <2>7. /\ \A d \in Channel \ {c} : UNCHANGED <<qcount[d], sendx[d], recvx[d]>>
        /\ qcount' = qcount /\ recvx'[c] = x /\ sendx'[c] = x
        /\ sendx' \in [Channel -> Nat] /\ recvx' \in [Channel -> Nat]
    BY <2>1, <2>3 DEF TypeOK, BufOK
  <2>8. elem' \in [G -> Elem]
    BY <2>1, <2>4 DEF TypeOK, WakeOK
  <2>. QED
    BY <2>2, <2>3, <2>5, <2>6, <2>7, <2>8 DEF TypeOK, BufOK, Index
<1>. HIDE DEF sg
<1>7. selectDone' \in [G -> BOOLEAN]
  BY <1>2, <1>4 DEF TypeOK, WakeOK, IsSelect
<1>. QED
  BY <1>1, <1>2, <1>4, <1>5, <1>6, <1>7 DEF TypeOK, QueueOK, WakeOK

LEMMA RestType ==
  ASSUME TypeOK, NEW c \in Channel
  PROVE  Rest(recvq[c]) \in Seq(Sudog) /\ Rest(sendq[c]) \in Seq(Sudog)
BY RestWithin DEF TypeOK, QueueOK

LEMMA TypeChansend ==
  ASSUME TypeOK, OpInv, NEW g \in G, Chansend(g)
  PROVE  TypeOK'
<1>1. CASE sendClosed(g)
  BY <1>1, ResultType
     DEF sendClosed, Return, Goto, PC, TypeOK, BufOK, QueueOK, RunOK, WakeOK, SelOK, Index, chanVars, bufVars, queueVars, wakeVars, selVars
<1>2. CASE sendFull(g)
  BY <1>2, ResultType
     DEF sendFull, Return, Goto, PC, TypeOK, BufOK, QueueOK, RunOK, WakeOK, SelOK, Index, chanVars, bufVars, queueVars, wakeVars, selVars
<1>3. CASE sendFullFirst(g)
  BY <1>3, ResultType
     DEF sendFullFirst, Return, Goto, PC, TypeOK, BufOK, QueueOK, RunOK, WakeOK, SelOK, Index, chanVars, bufVars, queueVars, wakeVars, selVars
<1>4. CASE sendClosedLast(g)
  BY <1>4, ResultType
     DEF sendClosedLast, Return, Goto, PC, TypeOK, BufOK, QueueOK, RunOK, WakeOK, SelOK, Index, chanVars, bufVars, queueVars, wakeVars, selVars
<1>5. CASE chansendClosed(g)
  BY <1>5, ResultType, RestWithin
     DEF chansendClosed, Return, Goto, PC, Enter, NoReceiver, NoSender, dequeue, enqueue, Elem, TypeOK, BufOK, QueueOK, RunOK, WakeOK, SelOK, Index, chanVars, bufVars, queueVars, wakeVars, selVars
<1>6. CASE chansendDirect(g)
  <2>1. Ch(g) \in Channel
    BY <1>6 DEF chansendDirect, Enter, OpInv, OpFits, ChanPC
  <2>2. /\ BufOK'
        /\ recvq' \in [Channel -> Seq(Sudog)] /\ sendq' \in [Channel -> Seq(Sudog)]
        /\ selectDone' \in [G -> BOOLEAN] /\ elem' \in [G -> Elem]
        /\ wake' \in [G -> SUBSET Sudog]
    BY <1>6, <2>1, SendType DEF chansendDirect, Enter
  <2>3. RunOK' /\ UNCHANGED <<lock, param, success, selVars>>
    BY <1>6, ResultType DEF chansendDirect, Enter, Return, Goto, PC, TypeOK, RunOK
  <2>. QED
    BY <1>6, <2>1, <2>2, <2>3 DEF chansendDirect, TypeOK, QueueOK, WakeOK, SelOK, selVars
<1>7. CASE chansendBuffer(g)
  <2>1. Ch(g) \in Channel
    BY <1>7 DEF chansendBuffer, Enter, OpInv, OpFits, ChanPC
  <2>2. BufOK'
    BY <1>7, <2>1, BufsendType DEF chansendBuffer, Enter
  <2>3. RunOK' /\ UNCHANGED <<lock, param, success, selVars>>
    BY <1>7, ResultType DEF chansendBuffer, Enter, Return, Goto, PC, TypeOK, RunOK
  <2>. QED
    BY <1>7, <2>1, <2>2, <2>3, RestType DEF NoReceiver, NoSender, dequeue, bufsend, bufrecv, queueVars, chansendBuffer, TypeOK, QueueOK, WakeOK, SelOK, selVars
<1>8. CASE chansendFail(g)
  BY <1>8, ResultType, RestWithin
     DEF chansendFail, Return, Goto, PC, Enter, NoReceiver, NoSender, dequeue, enqueue, Elem, TypeOK, BufOK, QueueOK, RunOK, WakeOK, SelOK, Index, chanVars, bufVars, queueVars, wakeVars, selVars
<1>9. CASE chansendBlock(g)
  <2>1. Ch(g) \in Channel /\ <<g, 1>> \in Sudog
    BY <1>9 DEF chansendBlock, Enter, OpInv, OpFits, ChanPC, Sudog
  <2>2. recvq' = [recvq EXCEPT ![Ch(g)] = Rest(@)] /\ sendq' = [sendq EXCEPT ![Ch(g)] = Append(@, <<g, 1>>)]
    BY <1>9 DEF chansendBlock, dequeue, enqueue
  <2>3. Rest(recvq[Ch(g)]) \in Seq(Sudog) /\ Append(sendq[Ch(g)], <<g, 1>>) \in Seq(Sudog)
    BY <2>1, RestType DEF TypeOK, QueueOK
  <2>4. QueueOK'
    BY <1>9, <2>2, <2>3 DEF chansendBlock, Enter, TypeOK, QueueOK
  <2>. QED
    BY <1>9, <2>4 DEF chansendBlock, Enter, Goto, PC, TypeOK, BufOK, RunOK, WakeOK, SelOK, Index, bufVars, selVars
<1>10. CASE chansendWoken(g)
  <2>1. Done(1, TRUE) \in Result /\ Done(1, FALSE) \in Result /\ Panic(1) \in Result
    BY ResultType
  <2>2. ret' \in [G -> Result]
    BY <1>10, <2>1 DEF chansendWoken, Return, TypeOK, RunOK, WakeOK
  <2>3. pc' \in [G -> PC]
    BY <1>10 DEF chansendWoken, Return, Goto, PC, TypeOK, RunOK
  <2>. QED
    BY <1>10, <2>2, <2>3 DEF RunOK, chansendWoken, Elem, TypeOK, BufOK, QueueOK, WakeOK, SelOK, Index, chanVars, bufVars, queueVars, wakeVars, selVars
<1>. QED
  BY <1>1, <1>2, <1>3, <1>4, <1>5, <1>6, <1>7, <1>8, <1>9, <1>10 DEF Chansend

LEMMA TypeChanrecv ==
  ASSUME TypeOK, OpInv, NEW g \in G, Chanrecv(g)
  PROVE  TypeOK'
<1>1. CASE recvEmpty(g)
  BY <1>1, ResultType
     DEF recvEmpty, Return, Goto, PC, TypeOK, BufOK, QueueOK, RunOK, WakeOK, SelOK, Index, chanVars, bufVars, queueVars, wakeVars, selVars
<1>2. CASE recvClosed(g)
  BY <1>2, ResultType
     DEF recvClosed, Return, Goto, PC, TypeOK, BufOK, QueueOK, RunOK, WakeOK, SelOK, Index, chanVars, bufVars, queueVars, wakeVars, selVars
<1>3. CASE recvRecheck(g)
  <2>1. Done(1, TRUE) \in Result /\ Done(1, FALSE) \in Result /\ Panic(1) \in Result
    BY ResultType
  <2>2. ret' \in [G -> Result]
    BY <1>3, <2>1 DEF recvRecheck, Return, TypeOK, RunOK, WakeOK
  <2>3. pc' \in [G -> PC]
    BY <1>3 DEF recvRecheck, Return, Goto, PC, TypeOK, RunOK
  <2>. QED
    BY <1>3, <2>2, <2>3 DEF RunOK, recvRecheck, Elem, TypeOK, BufOK, QueueOK, WakeOK, SelOK, Index, chanVars, bufVars, queueVars, wakeVars, selVars
<1>4. CASE chanrecvClosed(g)
  BY <1>4, ResultType, RestWithin
     DEF chanrecvClosed, Return, Goto, PC, Enter, NoReceiver, NoSender, dequeue, enqueue, Elem, TypeOK, BufOK, QueueOK, RunOK, WakeOK, SelOK, Index, chanVars, bufVars, queueVars, wakeVars, selVars
<1>5. CASE chanrecvDirect(g)
  <2>1. Ch(g) \in Channel
    BY <1>5 DEF chanrecvDirect, Enter, OpInv, OpFits, ChanPC
  <2>2. /\ BufOK'
        /\ recvq' \in [Channel -> Seq(Sudog)] /\ sendq' \in [Channel -> Seq(Sudog)]
        /\ selectDone' \in [G -> BOOLEAN] /\ elem' \in [G -> Elem]
        /\ wake' \in [G -> SUBSET Sudog]
    BY <1>5, <2>1, RecvType DEF chanrecvDirect, Enter
  <2>3. RunOK' /\ UNCHANGED <<lock, param, success, selVars>>
    BY <1>5, ResultType DEF chanrecvDirect, Enter, Return, Goto, PC, TypeOK, RunOK
  <2>. QED
    BY <1>5, <2>1, <2>2, <2>3 DEF chanrecvDirect, TypeOK, QueueOK, WakeOK, SelOK, selVars
<1>6. CASE chanrecvBuffer(g)
  <2>1. Ch(g) \in Channel
    BY <1>6 DEF chanrecvBuffer, Enter, OpInv, OpFits, ChanPC
  <2>2. BufOK' /\ elem' \in [G -> Elem]
    BY <1>6, <2>1, BufrecvType DEF chanrecvBuffer, Enter
  <2>3. RunOK' /\ UNCHANGED <<lock, param, success, selVars>>
    BY <1>6, ResultType DEF chanrecvBuffer, Enter, Return, Goto, PC, TypeOK, RunOK
  <2>. QED
    BY <1>6, <2>1, <2>2, <2>3, RestType DEF NoReceiver, NoSender, dequeue, bufsend, bufrecv, queueVars, chanrecvBuffer, TypeOK, QueueOK, WakeOK, SelOK, selVars
<1>7. CASE chanrecvFail(g)
  BY <1>7, ResultType, RestWithin
     DEF chanrecvFail, Return, Goto, PC, Enter, NoReceiver, NoSender, dequeue, enqueue, Elem, TypeOK, BufOK, QueueOK, RunOK, WakeOK, SelOK, Index, chanVars, bufVars, queueVars, wakeVars, selVars
<1>8. CASE chanrecvBlock(g)
  <2>1. Ch(g) \in Channel /\ <<g, 1>> \in Sudog
    BY <1>8 DEF chanrecvBlock, Enter, OpInv, OpFits, ChanPC, Sudog
  <2>2. sendq' = [sendq EXCEPT ![Ch(g)] = Rest(@)] /\ recvq' = [recvq EXCEPT ![Ch(g)] = Append(@, <<g, 1>>)]
    BY <1>8 DEF chanrecvBlock, dequeue, enqueue
  <2>3. Rest(sendq[Ch(g)]) \in Seq(Sudog) /\ Append(recvq[Ch(g)], <<g, 1>>) \in Seq(Sudog)
    BY <2>1, RestType DEF TypeOK, QueueOK
  <2>4. QueueOK'
    BY <1>8, <2>2, <2>3 DEF chanrecvBlock, Enter, TypeOK, QueueOK
  <2>. QED
    BY <1>8, <2>4 DEF chanrecvBlock, Enter, Goto, PC, TypeOK, BufOK, RunOK, WakeOK, SelOK, Index, bufVars, selVars
<1>9. CASE chanrecvWoken(g)
  <2>1. Done(1, TRUE) \in Result /\ Done(1, FALSE) \in Result /\ Panic(1) \in Result
    BY ResultType
  <2>2. ret' \in [G -> Result]
    BY <1>9, <2>1 DEF chanrecvWoken, Return, TypeOK, RunOK, WakeOK
  <2>3. pc' \in [G -> PC]
    BY <1>9 DEF chanrecvWoken, Return, Goto, PC, TypeOK, RunOK
  <2>. QED
    BY <1>9, <2>2, <2>3 DEF RunOK, chanrecvWoken, Elem, TypeOK, BufOK, QueueOK, WakeOK, SelOK, Index, chanVars, bufVars, queueVars, wakeVars, selVars
<1>. QED
  BY <1>1, <1>2, <1>3, <1>4, <1>5, <1>6, <1>7, <1>8, <1>9 DEF Chanrecv

LEMMA CloseWaiterType ==
  ASSUME TypeOK, NEW g \in G, NEW sg \in Sudog, closeWaiter(g, sg)
  PROVE  /\ selectDone' \in [G -> BOOLEAN] /\ param' \in [G -> Nat]
         /\ success' \in [G -> BOOLEAN] /\ wake' \in [G -> SUBSET Sudog]
<1>1. sg[1] \in G /\ sg[2] \in Nat
  BY DEF Sudog
<1>2. selectDone' \in [G -> BOOLEAN]
  BY <1>1 DEF closeWaiter, WinSelect, IsSelect, TypeOK, WakeOK
<1>. QED
  BY <1>1, <1>2 DEF closeWaiter, TypeOK, WakeOK

LEMMA TypeClosechan ==
  ASSUME TypeOK, OpInv, NEW g \in G, Closechan(g)
  PROVE  TypeOK'
<1>0. ASSUME pc[g] \in {"lock", "closing"} PROVE Ch(g) \in Channel
  BY <1>0 DEF OpInv, OpFits, ChanPC
<1>1. CASE closechanClosed(g)
  BY <1>1, ResultType
     DEF closechanClosed, Return, Goto, PC, TypeOK, BufOK, QueueOK, RunOK, WakeOK,
         SelOK, Index, chanVars, wakeVars, selVars
<1>2. CASE closechan(g)
  BY <1>2, ResultType
     DEF closechan, Goto, PC, TypeOK, BufOK, QueueOK, RunOK, WakeOK,
         SelOK, Index, bufVars, queueVars, wakeVars, selVars
<1>3. CASE closechanRecvq(g)
  <2>. DEFINE q  == recvq[Ch(g)]
              sg == q[First(q)]
  <2>1. Ch(g) \in Channel
    BY <1>0, <1>3 DEF closechanRecvq
  <2>2. q \in Seq(Sudog) /\ Live(q) # {}
    BY <1>3, <2>1 DEF closechanRecvq, TypeOK, QueueOK
  <2>3. sg \in Sudog /\ sg[1] \in G
    BY <2>2, FirstLive DEF Sudog
  <2>4. closeWaiter(g, sg) /\ elem' = [elem EXCEPT ![sg[1]] = Zero]
    BY <1>3 DEF closechanRecvq
  <2>. HIDE DEF sg
  <2>5. WakeOK'
    BY <2>3, <2>4, CloseWaiterType DEF TypeOK, WakeOK, Elem
  <2>6. QueueOK'
    BY <1>3, <2>1, RestType DEF closechanRecvq, dequeue, TypeOK, QueueOK
  <2>. QED
    BY <1>3, <2>5, <2>6
       DEF closechanRecvq, TypeOK, BufOK, RunOK, SelOK, Index, bufVars, selVars
<1>4. CASE closechanSendq(g)
  <2>. DEFINE q  == sendq[Ch(g)]
              sg == q[First(q)]
  <2>1. Ch(g) \in Channel
    BY <1>0, <1>4 DEF closechanSendq
  <2>2. q \in Seq(Sudog) /\ Live(q) # {}
    BY <1>4, <2>1 DEF closechanSendq, TypeOK, QueueOK
  <2>3. sg \in Sudog
    BY <2>2, FirstLive
  <2>4. closeWaiter(g, sg) /\ elem' = elem
    BY <1>4 DEF closechanSendq
  <2>. HIDE DEF sg
  <2>5. WakeOK'
    BY <2>3, <2>4, CloseWaiterType DEF TypeOK, WakeOK
  <2>6. QueueOK'
    BY <1>4, <2>1, RestType DEF closechanSendq, dequeue, TypeOK, QueueOK
  <2>. QED
    BY <1>4, <2>5, <2>6
       DEF closechanSendq, TypeOK, BufOK, RunOK, SelOK, Index, bufVars, selVars
<1>5. CASE closechanUnlock(g)
  <2>1. Ch(g) \in Channel
    BY <1>0, <1>5 DEF closechanUnlock
  <2>2. QueueOK'
    BY <1>5, <2>1, RestType DEF closechanUnlock, dequeue, TypeOK, QueueOK
  <2>. QED
    BY <1>5, <2>2 DEF closechanUnlock, Goto, PC, TypeOK, BufOK, RunOK, WakeOK, SelOK,
                      Index, bufVars, wakeVars, selVars
<1>. QED
  BY <1>1, <1>2, <1>3, <1>4, <1>5 DEF Closechan

LEMMA UnlockType ==
  ASSUME TypeOK, NEW g \in G, selunlock(g)
  PROVE  lock' \in [Channel -> G \cup {NoG}]
BY DEF selunlock, TypeOK, QueueOK

\* A case selectgo polls is a case of a channel.
LEMMA PollCase ==
  ASSUME TypeOK, OpInv, NEW g \in G, NEW i \in DOMAIN op[g].cases,
         CaseChan(g, i) # Nil
  PROVE  i \in Nat /\ CaseChan(g, i) \in Channel
<1>1. op[g].cases \in Seq(Case) /\ CaseChan(g, i) \in Channel \cup {Nil}
  BY OpType
<1>. QED
  BY <1>1

LEMMA TypePass1 ==
  ASSUME TypeOK, OpInv, NEW g \in G, SelectPass1(g)
  PROVE  TypeOK'
<1>1. ASSUME NEW i \in DOMAIN op[g].cases,
             \/ selectRecv(g, i) \/ selectBufrecv(g, i) \/ selectRclose(g, i)
             \/ selectSend(g, i) \/ selectBufsend(g, i) \/ selectSclose(g, i)
             \/ selectNext(g, i)
      PROVE  TypeOK'
  <2>. DEFINE c == CaseChan(g, i)
  <2>1. c # Nil /\ UNCHANGED <<closed, op, calls, param, success, lockorder, pos, commit>>
    BY <1>1 DEF selectRecv, selectBufrecv, selectRclose, selectSend, selectBufsend,
                selectSclose, selectNext, Poll
  <2>2. i \in Nat /\ c \in Channel
    BY <2>1, PollCase
  <2>3. Done(i, TRUE) \in Result /\ Done(i, FALSE) \in Result /\ Panic(i) \in Result
    BY <2>2, ResultType
  <2>4. CASE selectRecv(g, i)
    <3>1. Live(sendq[c]) # {} /\ recv(g, c) /\ selunlock(g) /\ UNCHANGED polled
      BY <2>4 DEF selectRecv
    <3>2. RunOK'
      BY <2>1, <2>3, <2>4 DEF selectRecv, Goto, PC, TypeOK, RunOK
    <3>. HIDE DEF c
    <3>. QED
      BY <2>1, <2>2, <3>1, <3>2, RecvType, UnlockType DEF TypeOK, QueueOK, WakeOK, SelOK
  <2>5. CASE selectBufrecv(g, i)
    <3>1. /\ qcount[c] > 0 /\ bufrecv(g, c) /\ selunlock(g) /\ UNCHANGED polled
          /\ sendq' = [sendq EXCEPT ![c] = Rest(@)] /\ recvq' = recvq
      BY <2>5 DEF selectBufrecv, NoSender, dequeue
    <3>2. RunOK'
      BY <2>1, <2>3, <2>5 DEF selectBufrecv, Return, Goto, PC, TypeOK, RunOK
    <3>. HIDE DEF c
    <3>3. QueueOK'
      BY <2>2, <3>1, RestType, UnlockType DEF TypeOK, QueueOK
    <3>4. BufOK' /\ elem' \in [G -> Elem]
      BY <2>1, <2>2, <3>1, BufrecvType
    <3>. QED
      BY <2>1, <3>1, <3>2, <3>3, <3>4 DEF bufrecv, TypeOK, WakeOK, SelOK
  <2>6. CASE selectRclose(g, i)
    <3>1. /\ selunlock(g) /\ UNCHANGED <<bufVars, selectDone, wake, polled>>
          /\ sendq' = [sendq EXCEPT ![c] = Rest(@)] /\ recvq' = recvq
          /\ elem' = [elem EXCEPT ![g] = Zero]
      BY <2>6 DEF selectRclose, NoSender, dequeue
    <3>2. RunOK'
      BY <2>1, <2>3, <2>6 DEF selectRclose, Return, Goto, PC, TypeOK, RunOK
    <3>. HIDE DEF c
    <3>3. QueueOK'
      BY <2>2, <3>1, RestType, UnlockType DEF TypeOK, QueueOK
    <3>. QED
      BY <2>1, <3>1, <3>2, <3>3 DEF bufVars, Elem, TypeOK, BufOK, Index, WakeOK, SelOK
  <2>7. CASE selectSend(g, i)
    <3>1. Live(recvq[c]) # {} /\ send(g, i, c) /\ selunlock(g) /\ UNCHANGED polled
      BY <2>7 DEF selectSend
    <3>2. RunOK'
      BY <2>1, <2>3, <2>7 DEF selectSend, Goto, PC, TypeOK, RunOK
    <3>. HIDE DEF c
    <3>. QED
      BY <2>1, <2>2, <3>1, <3>2, SendType, UnlockType DEF TypeOK, QueueOK, WakeOK, SelOK
  <2>8. CASE selectBufsend(g, i)
    <3>1. /\ qcount[c] < dataqsiz[c] /\ bufsend(g, i, c) /\ selunlock(g)
          /\ recvq' = [recvq EXCEPT ![c] = Rest(@)] /\ sendq' = sendq
          /\ UNCHANGED polled
      BY <2>8 DEF selectBufsend, NoReceiver, dequeue
    <3>2. RunOK'
      BY <2>1, <2>3, <2>8 DEF selectBufsend, Return, Goto, PC, TypeOK, RunOK
    <3>. HIDE DEF c
    <3>3. QueueOK'
      BY <2>2, <3>1, RestType, UnlockType DEF TypeOK, QueueOK
    <3>4. BufOK'
      BY <2>1, <2>2, <3>1, BufsendType
    <3>. QED
      BY <2>1, <3>1, <3>2, <3>3, <3>4 DEF bufsend, TypeOK, WakeOK, SelOK
  <2>9. CASE selectSclose(g, i)
    <3>1. RunOK'
      BY <2>1, <2>3, <2>9 DEF selectSclose, Return, Goto, PC, TypeOK, RunOK
    <3>. QED
      BY <2>1, <2>9, <3>1, UnlockType
         DEF selectSclose, queueVars, bufVars, TypeOK, BufOK, Index, QueueOK, WakeOK, SelOK
  <2>10. CASE selectNext(g, i)
    <3>1. /\ UNCHANGED <<bufVars, lock, pc, selectDone, elem, wake, ret>>
          /\ polled' = [polled EXCEPT ![g] = @ \cup {i}]
          /\ \/ sendq' = [sendq EXCEPT ![c] = Rest(@)] /\ recvq' = recvq
             \/ recvq' = [recvq EXCEPT ![c] = Rest(@)] /\ sendq' = sendq
      BY <2>10 DEF selectNext, NoReceiver, NoSender, dequeue
    <3>. HIDE DEF c
    <3>2. QueueOK'
      BY <2>2, <3>1, RestType DEF TypeOK, QueueOK
    <3>. QED
      BY <2>1, <2>2, <3>1, <3>2
         DEF bufVars, TypeOK, BufOK, Index, RunOK, WakeOK, SelOK
  <2>. QED
    BY <1>1, <2>4, <2>5, <2>6, <2>7, <2>8, <2>9, <2>10
<1>2. CASE selectDefault(g)
  <2>1. RunOK'
    BY <1>2, ResultType DEF selectDefault, Return, Goto, PC, TypeOK, RunOK
  <2>. QED
    BY <1>2, <2>1, UnlockType
       DEF selectDefault, bufVars, queueVars, wakeVars, selVars, TypeOK, BufOK, Index,
           QueueOK, WakeOK, SelOK
<1>3. CASE selectBlock(g)
  BY <1>3 DEF selectBlock, Goto, PC, chanVars, wakeVars, TypeOK, BufOK, Index, QueueOK,
              RunOK, WakeOK, SelOK
<1>. QED
  BY <1>1, <1>2, <1>3 DEF SelectPass1

\* selectgo's lock order: every case with a channel, sorted by channel.
LEMMA LockOrderCases ==
  ASSUME NEW cases \in Seq(Case), NEW s \in LockOrders(cases)
  PROVE  /\ s \in Seq(Nat)
         /\ \A k \in 1..Len(s) : s[k] \in DOMAIN cases /\ cases[s[k]].c # Nil
         /\ \A i \in DOMAIN cases : cases[i].c # Nil => \E k \in 1..Len(s) : s[k] = i
         /\ \A k, l \in 1..Len(s) : k < l => cases[s[k]].c <= cases[s[l]].c
<1>. DEFINE D == {i \in DOMAIN cases : cases[i].c # Nil}
<1>1. PICK n \in 0..Len(cases) : s \in [1..n -> D]
  BY DEF LockOrders
<1>2. /\ \A i \in D : \E k \in DOMAIN s : s[k] = i
      /\ \A k, l \in DOMAIN s : k < l => s[k] # s[l] /\ cases[s[k]].c <= cases[s[l]].c
  BY DEF LockOrders
<1>3. D \subseteq Nat
  OBVIOUS
<1>4. s \in Seq(Nat) /\ Len(s) = n /\ DOMAIN s = 1..n
  BY <1>1, <1>3
<1>. QED
  BY <1>1, <1>2, <1>4

LEMMA LockOrderFacts ==
  ASSUME TypeOK, OpInv, NEW g \in G, IsSelect(g)
  PROVE  /\ lockorder[g] \in Seq(Nat)
         /\ \A k \in 1..Len(lockorder[g]) :
              /\ lockorder[g][k] \in DOMAIN op[g].cases
              /\ lockorder[g][k] \in Nat
              /\ LockChan(g, k) \in Channel
         /\ \A i \in DOMAIN op[g].cases : CaseChan(g, i) # Nil =>
              \E k \in 1..Len(lockorder[g]) : LockChan(g, k) = CaseChan(g, i)
         /\ \A k, l \in 1..Len(lockorder[g]) : k < l => LockChan(g, k) <= LockChan(g, l)
<1>1. lockorder[g] \in LockOrders(op[g].cases)
  BY DEF OpInv, OpFits
<1>2. /\ op[g].cases \in Seq(Case)
      /\ \A i \in DOMAIN op[g].cases : CaseChan(g, i) \in Channel \cup {Nil}
  BY OpType
<1>. DEFINE s == lockorder[g]
            cases == op[g].cases
<1>3. /\ s \in Seq(Nat)
      /\ \A k \in 1..Len(s) : s[k] \in DOMAIN cases /\ cases[s[k]].c # Nil
      /\ \A i \in DOMAIN cases : cases[i].c # Nil => \E k \in 1..Len(s) : s[k] = i
      /\ \A k, l \in 1..Len(s) : k < l => cases[s[k]].c <= cases[s[l]].c
  BY <1>1, <1>2, LockOrderCases
<1>4. \A i : CaseChan(g, i) = cases[i].c
  BY DEF CaseChan
<1>5. \A k : LockChan(g, k) = cases[s[k]].c
  BY DEF LockChan, CaseChan
<1>9. \A i \in DOMAIN cases : cases[i].c \in Channel \cup {Nil}
  BY <1>2, <1>4
<1>. HIDE DEF s, cases
<1>6. \A k \in 1..Len(s) : s[k] \in Nat
  BY <1>3
<1>7. \A k \in 1..Len(s) : LockChan(g, k) \in Channel
  BY <1>3, <1>5, <1>9
<1>8. \A i \in DOMAIN cases : CaseChan(g, i) # Nil =>
        \E k \in 1..Len(s) : LockChan(g, k) = CaseChan(g, i)
  BY <1>3, <1>4, <1>5
<1>. QED
  BY <1>3, <1>5, <1>6, <1>7, <1>8 DEF s, cases

LEMMA TypeSelectgo ==
  ASSUME TypeOK, OpInv, NEW g \in G, Selectgo(g)
  PROVE  TypeOK'
<1>1. CASE sellock(g)
  <2>1. QueueOK'
    BY <1>1 DEF sellock, queueVars, TypeOK, QueueOK
  <2>. QED
    BY <1>1, <2>1
       DEF sellock, bufVars, wakeVars, TypeOK, BufOK, Index, RunOK, WakeOK, SelOK
<1>2. CASE SelectPass1(g)
  BY <1>2, TypePass1
<1>3. CASE selectEnqueue(g)
  <2>. DEFINE i == lockorder[g][pos[g] + 1]
              c == CaseChan(g, i)
  <2>1. IsSelect(g) /\ pos[g] + 1 \in 1..Len(lockorder[g])
    BY <1>3 DEF selectEnqueue, OpInv, OpFits, TypeOK, SelOK
  <2>2. i \in Nat /\ c \in Channel
    BY <2>1, LockOrderFacts DEF LockChan
  <2>3. <<g, i>> \in Sudog
    BY <2>2 DEF Sudog
  <2>4. /\ UNCHANGED lock
        /\ \/ sendq' = [sendq EXCEPT ![c] = Append(@, <<g, i>>)] /\ recvq' = recvq
           \/ recvq' = [recvq EXCEPT ![c] = Append(@, <<g, i>>)] /\ sendq' = sendq
    BY <1>3 DEF selectEnqueue, enqueue
  <2>. HIDE DEF i, c
  <2>5. Append(sendq[c], <<g, i>>) \in Seq(Sudog) /\ Append(recvq[c], <<g, i>>) \in Seq(Sudog)
    BY <2>2, <2>3 DEF TypeOK, QueueOK
  <2>6. QueueOK'
    BY <2>2, <2>4, <2>5 DEF TypeOK, QueueOK
  <2>7. /\ UNCHANGED <<closed, bufVars, pc, op, calls, wakeVars, lockorder, polled, commit, ret>>
        /\ pos' = [pos EXCEPT ![g] = @ + 1]
    BY <1>3 DEF selectEnqueue
  <2>. QED
    BY <2>6, <2>7 DEF bufVars, wakeVars, TypeOK, BufOK, Index, RunOK, WakeOK, SelOK
<1>4. CASE selectPark(g)
  BY <1>4 DEF selectPark, Goto, PC, chanVars, TypeOK, BufOK, Index, QueueOK, RunOK,
              WakeOK, SelOK
<1>5. CASE selparkcommit(g)
  <2>1. QueueOK'
    BY <1>5 DEF selparkcommit, queueVars, TypeOK, QueueOK
  <2>2. SelOK'
    BY <1>5 DEF selparkcommit, TypeOK, SelOK
  <2>. QED
    BY <1>5, <2>1, <2>2
       DEF selparkcommit, bufVars, wakeVars, TypeOK, BufOK, Index, RunOK, WakeOK
<1>6. CASE selectWoken(g)
  BY <1>6 DEF selectWoken, Goto, PC, chanVars, wakeVars, TypeOK, BufOK, Index, QueueOK,
              RunOK, WakeOK, SelOK
<1>7. CASE selectRelocked(g)
  BY <1>7 DEF selectRelocked, Goto, PC, chanVars, TypeOK, BufOK, Index, QueueOK,
              RunOK, WakeOK, SelOK
<1>8. CASE selectDequeue(g)
  <2>. DEFINE i == lockorder[g][pos[g] + 1]
              c == CaseChan(g, i)
  <2>1. IsSelect(g) /\ pos[g] + 1 \in 1..Len(lockorder[g])
    BY <1>8 DEF selectDequeue, OpInv, OpFits, TypeOK, SelOK
  <2>2. i \in Nat /\ c \in Channel
    BY <2>1, LockOrderFacts DEF LockChan
  <2>3. <<g, i>> \in Sudog
    BY <2>2 DEF Sudog
  <2>4. /\ UNCHANGED lock
        /\ \/ UNCHANGED <<recvq, sendq>>
           \/ sendq' = [sendq EXCEPT ![c] = dequeueSudoG(@, <<g, i>>)] /\ recvq' = recvq
           \/ recvq' = [recvq EXCEPT ![c] = dequeueSudoG(@, <<g, i>>)] /\ sendq' = sendq
    BY <1>8 DEF selectDequeue, queueVars
  <2>. HIDE DEF i, c
  <2>5. /\ dequeueSudoG(sendq[c], <<g, i>>) \in Seq(Sudog)
        /\ dequeueSudoG(recvq[c], <<g, i>>) \in Seq(Sudog)
    BY <2>2, <2>3, UnlinkWithin DEF TypeOK, QueueOK
  <2>6. QueueOK'
    BY <2>2, <2>4, <2>5 DEF TypeOK, QueueOK
  <2>. QED
    BY <1>8, <2>6
       DEF selectDequeue, bufVars, wakeVars, TypeOK, BufOK, Index, RunOK, WakeOK, SelOK
<1>9. CASE selectFinish(g)
  <2>1. param[g] \in Nat /\ success[g] \in BOOLEAN
    BY DEF TypeOK, WakeOK
  <2>2. Panic(param[g]) \in Result /\ Done(param[g], success[g]) \in Result
    BY <2>1, ResultType
  <2>3. RunOK'
    BY <1>9, <2>2 DEF selectFinish, Return, Goto, PC, TypeOK, RunOK
  <2>4. QueueOK'
    BY <1>9, UnlockType DEF selectFinish, queueVars, TypeOK, QueueOK
  <2>5. WakeOK'
    <3>1. \/ param' = param
          \/ param' = [param EXCEPT ![g] = 0]
      BY <1>9 DEF selectFinish
    <3>2. UNCHANGED <<selectDone, success, elem, wake>>
      BY <1>9 DEF selectFinish
    <3>. QED
      BY <3>1, <3>2 DEF TypeOK, WakeOK
  <2>. QED
    BY <1>9, <2>3, <2>4, <2>5
       DEF selectFinish, bufVars, selVars, TypeOK, BufOK, Index, SelOK
<1>. QED
  BY <1>1, <1>2, <1>3, <1>4, <1>5, <1>6, <1>7, <1>8, <1>9 DEF Selectgo

LEMMA TypeCall ==
  ASSUME TypeOK, NEW g \in G, NEW o \in Ops,
         CallChan(g, o) \/ CallNil(g, o) \/ CallSelect(g, o)
  PROVE  TypeOK'
<1>1. UNCHANGED <<chanVars, wakeVars>> /\ RunOK'
  <2>1. Call(g, o) /\ ret' = [ret EXCEPT ![g] = NoRet]
    BY DEF CallChan, CallNil, CallSelect
  <2>2. \E l \in PC : pc' = [pc EXCEPT ![g] = l]
    BY DEF CallChan, CallNil, CallSelect, Goto, PC
  <2>. QED
    BY <2>1, <2>2, ResultType DEF Call, TypeOK, RunOK
<1>2. CASE UNCHANGED selVars
  BY <1>1, <1>2
     DEF chanVars, wakeVars, selVars, TypeOK, BufOK, Index, QueueOK, WakeOK, SelOK
<1>3. CASE CallSelect(g, o)
  <2>1. o.cases \in Seq(Case)
    BY OpsAssumption DEF Operation
  <2>2. \A s \in LockOrders(o.cases) : s \in Seq(Nat)
    BY <2>1, LockOrderCases
  <2>3. SelOK'
    BY <1>3, <2>2 DEF CallSelect, TypeOK, SelOK
  <2>. QED
    BY <1>1, <2>3 DEF chanVars, wakeVars, TypeOK, BufOK, Index, QueueOK, WakeOK
<1>. QED
  BY <1>2, <1>3 DEF CallChan, CallNil

LEMMA TypeGoready ==
  ASSUME TypeOK, NEW g \in G, goready(g)
  PROVE  TypeOK'
<1>1. PICK sg \in wake[g] :
        /\ wake' = [wake EXCEPT ![g] = @ \ {sg}]
        /\ pc' = [pc EXCEPT ![sg[1]] = "woken",
                            ![g] = IF wake[g] = {sg} THEN "idle" ELSE "ready"]
        /\ IF op[g].kind = "close"
             THEN UNCHANGED <<param, success>>
             ELSE /\ param' = [param EXCEPT ![sg[1]] = sg[2]]
                  /\ success' = [success EXCEPT ![sg[1]] = TRUE]
  BY DEF goready
<1>2. sg \in Sudog /\ sg[1] \in G /\ sg[2] \in Nat
  BY <1>1 DEF TypeOK, WakeOK, Sudog
<1>3. WakeOK'
  <2>1. param' \in [G -> Nat] /\ success' \in [G -> BOOLEAN]
    BY <1>1, <1>2 DEF TypeOK, WakeOK
  <2>. QED
    BY <1>1, <2>1 DEF goready, TypeOK, WakeOK
<1>4. RunOK'
  BY <1>1, <1>2 DEF goready, PC, TypeOK, RunOK
<1>. QED
  BY <1>3, <1>4 DEF goready, chanVars, selVars, TypeOK, BufOK, Index, QueueOK, SelOK

\* Every step preserves the types.
LEMMA TypeNext ==
  ASSUME TypeOK, OpInv, [Next]_vars
  PROVE  TypeOK'
<1>1. ASSUME NEW g \in G, NEW o \in Ops,
             CallChan(g, o) \/ CallNil(g, o) \/ CallSelect(g, o)
      PROVE  TypeOK'
  BY <1>1, TypeCall
<1>2. ASSUME NEW g \in G, Run(g) PROVE TypeOK'
  <2>1. CASE nilchan(g)
    <3>1. RunOK'
      <4>1. Panic(1) \in Result /\ NotDone \in Result
        BY ResultType
      <4>. QED
        BY <2>1, <4>1 DEF nilchan, Return, Goto, PC, TypeOK, RunOK
    <3>. QED
      BY <2>1, <3>1 DEF nilchan, chanVars, wakeVars, selVars, TypeOK, BufOK, Index,
                        QueueOK, WakeOK, SelOK
  <2>. QED
    BY <1>2, <2>1, TypeChansend, TypeChanrecv, TypeClosechan, TypeSelectgo, TypeGoready
       DEF Run
<1>3. CASE UNCHANGED vars
  BY <1>3 DEF vars, chanVars, wakeVars, selVars, TypeOK, BufOK, Index, QueueOK, RunOK,
              WakeOK, SelOK
<1>. QED
  BY <1>1, <1>2, <1>3 DEF Next

-----------------------------------------------------------------------------
(* The frame of a step.                                                    *)


Own(g) == OpFits(g) /\ Holds(g) /\ Committing(g) /\ Polled(g)

\* What a step of g leaves alone in the other goroutines ...
GoFrame(g) ==
  \A h \in G \ {g} :
    /\ UNCHANGED <<op[h], lockorder[h], pos[h], polled[h], commit[h]>>
    /\ pc'[h] \in {pc[h], "woken"}

\* ... and in the channels they have locked.
ChanFrame(g) ==
  \A c \in Channel : lock[c] \notin {NoG, g} =>
    /\ UNCHANGED <<lock[c], qcount[c]>>
    /\ Within(recvq'[c], recvq[c]) /\ Within(sendq'[c], sendq[c])

LEMMA WithinSame == \A s : Within(s, s)
BY DEF Within

\* The invariants of another goroutine only depend on the frame.
LEMMA OwnOther ==
  ASSUME IInv, TypeOK', NEW g \in G, GoFrame(g), ChanFrame(g), NEW h \in G \ {g}
  PROVE  Own(h)'
<1>0. /\ UNCHANGED <<op[h], lockorder[h], pos[h], polled[h], commit[h]>>
      /\ pc'[h] = pc[h] \/ pc'[h] = "woken"
      /\ OpFits(h) /\ Holds(h) /\ Committing(h) /\ Polled(h)
  BY DEF GoFrame, IInv, OpInv, LockInv, CommitInv, PolledInv
<1>1. \A i : CaseChan(h, i)' = CaseChan(h, i) /\ CaseDir(h, i)' = CaseDir(h, i)
  BY <1>0 DEF CaseChan, CaseDir
<1>2. \A k : LockChan(h, k)' = LockChan(h, k)
  BY <1>0, <1>1 DEF LockChan, CaseChan
<1>3. IsSelect(h)' = IsSelect(h) /\ Ch(h)' = Ch(h) /\ AllLocked(h)' = AllLocked(h)
  BY <1>0, <1>1 DEF IsSelect, Ch, AllLocked, CaseChan
<1>4. \A c \in Channel : lock[c] = h =>
        /\ lock'[c] = h /\ qcount'[c] = qcount[c]
        /\ Within(recvq'[c], recvq[c]) /\ Within(sendq'[c], sendq[c])
  BY GAssumption DEF ChanFrame
<1>5. IsSelect(h) => \A k \in 1..Len(lockorder[h]) : LockChan(h, k) \in Channel
  BY LockOrderFacts DEF IInv
<1>6. pos[h] \in Nat /\ commit[h] \in Nat /\ Len(lockorder[h]) \in Nat
  BY DEF IInv, TypeOK, SelOK
<1>7. OpFits(h)'
  BY <1>0, <1>3 DEF OpFits, ChanPC
<1>8. Holds(h)'
  <2>1. CASE pc[h] = "closing"
    BY <1>0, <1>3, <1>4, <2>1 DEF Holds, OpFits, ChanPC
  <2>2. CASE pc[h] \in {"sellock", "pass2"}
    BY <1>0, <1>2, <1>4, <1>5, <1>6, <2>2 DEF Holds, OpFits
  <2>3. CASE pc[h] \notin {"closing", "sellock", "pass2"}
    BY <1>0, <2>3 DEF Holds
  <2>. QED
    BY <2>1, <2>2, <2>3
<1>9. Committing(h)'
  BY <1>0, <1>2, <1>3, <1>4, <1>5, <1>6 DEF Committing
<1>10. Polled(h)'
  <2>. SUFFICES ASSUME pc'[h] \in {"sellock", "pass2"}
                PROVE  Polled(h)'
    BY DEF Polled
  <2>1. pc'[h] = pc[h] /\ pc[h] \in {"sellock", "pass2"} /\ IsSelect(h)
    BY <1>0 DEF OpFits
  <2>2. ASSUME NEW i \in polled[h] PROVE PolledCase(h, i)'
    <3>. DEFINE c == CaseChan(h, i)
    <3>1. PolledCase(h, i)
      BY <1>0, <2>1 DEF Polled
    <3>2. PICK k \in 1..Len(lockorder[h]) : LockChan(h, k) = c
      BY <2>1, <3>1, LockOrderFacts DEF PolledCase, IInv
    <3>3. lock[c] = h /\ c \in Channel
      BY <1>0, <1>5, <1>6, <2>1, <3>2 DEF Holds, Polled, AllLocked
    <3>4. /\ qcount'[c] = qcount[c]
          /\ Within(recvq'[c], recvq[c]) /\ Within(sendq'[c], sendq[c])
      BY <1>4, <3>3
    <3>5. /\ OnlyOf(h, recvq[c]) => OnlyOf(h, recvq'[c])
          /\ OnlyOf(h, sendq[c]) => OnlyOf(h, sendq'[c])
      BY <3>4 DEF Within, OnlyOf
    <3>6. c' = c /\ CaseDir(h, i)' = CaseDir(h, i) /\ op'[h] = op[h]
      BY <1>0, <1>1
    <3>7. /\ OnlyOf(h, recvq[c])' <=> OnlyOf(h, recvq'[c])
          /\ OnlyOf(h, sendq[c])' <=> OnlyOf(h, sendq'[c])
      BY <3>6 DEF OnlyOf
    <3>. QED
      BY <3>1, <3>4, <3>5, <3>6, <3>7 DEF PolledCase
  <2>. QED
    BY <1>0, <1>1, <1>3, <2>1, <2>2 DEF Polled
<1>. QED
  BY <1>7, <1>8, <1>9, <1>10 DEF Own

\* The goroutine returns, parks as a plain send or receive, or goes on to ready
\* a waiter.
LEMMA OwnRest ==
  ASSUME NEW g \in G, Own(g),
         UNCHANGED <<op[g], lockorder[g], commit[g]>>,
         pc[g] \notin {"park", "woken", "relock"} \/ ~IsSelect(g),
         pc'[g] \in {"idle", "ready", "park", "throw"}
  PROVE  Own(g)'
<1>1. commit[g] = 0
  BY DEF Own, Committing
<1>2. IsSelect(g)' = IsSelect(g)
  BY DEF IsSelect
<1>. QED
  BY <1>1, <1>2 DEF Own, OpFits, Holds, Committing, Polled, ChanPC

\* It goes on along the fast path, to the lock or back.
LEMMA OwnFast ==
  ASSUME NEW g \in G, Own(g),
         UNCHANGED <<op[g], lockorder[g], commit[g]>>,
         pc[g] \in ChanPC, pc'[g] \in (ChanPC \cup {"idle"}) \ {"closing"}
  PROVE  Own(g)'
<1>1. commit[g] = 0
  BY DEF Own, Committing, ChanPC
<1>2. IsSelect(g)' = IsSelect(g) /\ Ch(g)' = Ch(g)
  BY DEF IsSelect, Ch, CaseChan
<1>. QED
  BY <1>1, <1>2 DEF Own, OpFits, Holds, Committing, Polled, ChanPC

\* A step that leaves the channels alone.
LEMMA QuietFrame ==
  ASSUME NEW g \in G, UNCHANGED chanVars
  PROVE  ChanFrame(g)
BY WithinSame DEF ChanFrame, chanVars

\* A step under the lock of c, which was free or held by g.
LEMMA LockedFrame ==
  ASSUME TypeOK, NEW g \in G, NEW c \in Channel, lock[c] \in {NoG, g},
         \A d \in Channel \ {c} :
           /\ UNCHANGED <<qcount[d], recvq[d], sendq[d]>>
           /\ lock[d] \notin {NoG, g} => lock'[d] = lock[d]
  PROVE  ChanFrame(g)
BY WithinSame DEF ChanFrame

LEMMA OwnNow ==
  ASSUME IInv, NEW g \in G
  PROVE  Own(g)
BY DEF IInv, Own, OpInv, LockInv, CommitInv, PolledInv

LEMMA StepChansend ==
  ASSUME IInv, NEW g \in G, Chansend(g)
  PROVE  GoFrame(g) /\ ChanFrame(g) /\ Own(g)'
<1>0. pc \in [G -> PC] /\ Own(g)
  BY OwnNow DEF IInv, TypeOK, RunOK
<1>1. CASE sendClosed(g) \/ sendFull(g) \/ sendFullFirst(g) \/ sendClosedLast(g)
  <2>1. /\ UNCHANGED <<chanVars, op, selVars>>
        /\ pc[g] \in ChanPC
        /\ \E l \in (ChanPC \cup {"idle"}) \ {"closing"} : pc' = [pc EXCEPT ![g] = l]
    BY <1>1 DEF sendClosed, sendFull, sendFullFirst, sendClosedLast, Goto, Return, ChanPC
  <2>2. GoFrame(g)
    BY <1>0, <2>1 DEF GoFrame, selVars
  <2>3. Own(g)'
    BY <1>0, <2>1, OwnFast DEF selVars
  <2>. QED
    BY <2>1, <2>2, <2>3, QuietFrame
<1>2. CASE chansendWoken(g)
  <2>1. /\ UNCHANGED <<chanVars, op, selVars>> /\ ~IsSelect(g)
        /\ \E l \in {"idle", "throw"} : pc' = [pc EXCEPT ![g] = l]
    BY <1>2 DEF chansendWoken, Goto, Return, IsSelect
  <2>2. GoFrame(g)
    BY <1>0, <2>1 DEF GoFrame, selVars
  <2>3. Own(g)'
    BY <1>0, <2>1, OwnRest DEF selVars
  <2>. QED
    BY <2>1, <2>2, <2>3, QuietFrame
<1>3. CASE \/ chansendClosed(g) \/ chansendDirect(g) \/ chansendBuffer(g)
           \/ chansendFail(g) \/ chansendBlock(g)
  <2>1. /\ pc[g] = "lock" /\ lock[Ch(g)] = NoG
        /\ UNCHANGED <<lock, op, selVars>>
        /\ \E l \in {"idle", "ready", "park"} : pc' = [pc EXCEPT ![g] = l]
    BY <1>3 DEF chansendClosed, chansendDirect, chansendBuffer, chansendFail,
                chansendBlock, Enter, Return, Goto
  <2>2. Ch(g) \in Channel
    BY <1>0, <2>1 DEF Own, OpFits, ChanPC
  <2>3. GoFrame(g)
    BY <1>0, <2>1 DEF GoFrame, selVars
  <2>4. Own(g)'
    BY <1>0, <2>1, OwnRest DEF selVars
  <2>5. \A d \in Channel \ {Ch(g)} : UNCHANGED <<qcount[d], recvq[d], sendq[d]>>
    <3>0. DOMAIN qcount = Channel /\ DOMAIN recvq = Channel /\ DOMAIN sendq = Channel
      BY DEF IInv, TypeOK, BufOK, QueueOK
    <3>1. CASE chansendClosed(g)
      BY <3>1 DEF chansendClosed, queueVars, bufVars
    <3>2. CASE chansendDirect(g)
      BY <3>0, <3>2 DEF chansendDirect, send, dequeue, bufVars
    <3>3. CASE chansendBuffer(g)
      BY <3>0, <3>3 DEF chansendBuffer, NoReceiver, dequeue, bufsend
    <3>4. CASE chansendFail(g)
      BY <3>0, <3>4 DEF chansendFail, NoReceiver, dequeue, bufVars
    <3>5. CASE chansendBlock(g)
      BY <3>0, <3>5 DEF chansendBlock, dequeue, enqueue, bufVars
    <3>. QED
      BY <1>3, <3>1, <3>2, <3>3, <3>4, <3>5
  <2>6. ChanFrame(g)
    BY <2>1, <2>2, <2>5, LockedFrame DEF IInv
  <2>. QED
    BY <2>3, <2>4, <2>6
<1>. QED
  BY <1>1, <1>2, <1>3 DEF Chansend

LEMMA StepChanrecv ==
  ASSUME IInv, NEW g \in G, Chanrecv(g)
  PROVE  GoFrame(g) /\ ChanFrame(g) /\ Own(g)'
<1>0. pc \in [G -> PC] /\ Own(g)
  BY OwnNow DEF IInv, TypeOK, RunOK
<1>1. CASE recvEmpty(g) \/ recvClosed(g) \/ recvRecheck(g)
  <2>1. /\ UNCHANGED <<chanVars, op, selVars>>
        /\ pc[g] \in ChanPC
        /\ \E l \in (ChanPC \cup {"idle"}) \ {"closing"} : pc' = [pc EXCEPT ![g] = l]
    BY <1>1 DEF recvEmpty, recvClosed, recvRecheck, Goto, Return, ChanPC
  <2>2. GoFrame(g)
    BY <1>0, <2>1 DEF GoFrame, selVars
  <2>3. Own(g)'
    BY <1>0, <2>1, OwnFast DEF selVars
  <2>. QED
    BY <2>1, <2>2, <2>3, QuietFrame
<1>2. CASE chanrecvWoken(g)
  <2>1. /\ UNCHANGED <<chanVars, op, selVars>> /\ ~IsSelect(g)
        /\ pc' = [pc EXCEPT ![g] = "idle"]
    BY <1>2 DEF chanrecvWoken, Goto, Return, IsSelect
  <2>2. GoFrame(g)
    BY <1>0, <2>1 DEF GoFrame, selVars
  <2>3. Own(g)'
    BY <1>0, <2>1, OwnRest DEF selVars
  <2>. QED
    BY <2>1, <2>2, <2>3, QuietFrame
<1>3. CASE \/ chanrecvClosed(g) \/ chanrecvDirect(g) \/ chanrecvBuffer(g)
           \/ chanrecvFail(g) \/ chanrecvBlock(g)
  <2>1. /\ pc[g] = "lock" /\ lock[Ch(g)] = NoG
        /\ UNCHANGED <<lock, op, selVars>>
        /\ \E l \in {"idle", "ready", "park"} : pc' = [pc EXCEPT ![g] = l]
    BY <1>3 DEF chanrecvClosed, chanrecvDirect, chanrecvBuffer, chanrecvFail,
                chanrecvBlock, Enter, Return, Goto
  <2>2. Ch(g) \in Channel
    BY <1>0, <2>1 DEF Own, OpFits, ChanPC
  <2>3. GoFrame(g)
    BY <1>0, <2>1 DEF GoFrame, selVars
  <2>4. Own(g)'
    BY <1>0, <2>1, OwnRest DEF selVars
  <2>5. \A d \in Channel \ {Ch(g)} : UNCHANGED <<qcount[d], recvq[d], sendq[d]>>
    <3>0. DOMAIN qcount = Channel /\ DOMAIN recvq = Channel /\ DOMAIN sendq = Channel
      BY DEF IInv, TypeOK, BufOK, QueueOK
    <3>1. CASE chanrecvClosed(g)
      BY <3>1 DEF chanrecvClosed, queueVars, bufVars
    <3>2. CASE chanrecvDirect(g)
      BY <3>0, <3>2 DEF chanrecvDirect, recv, dequeue, bufVars
    <3>3. CASE chanrecvBuffer(g)
      BY <3>0, <3>3 DEF chanrecvBuffer, NoSender, dequeue, bufrecv, queueVars
    <3>4. CASE chanrecvFail(g)
      BY <3>0, <3>4 DEF chanrecvFail, NoSender, dequeue, bufVars
    <3>5. CASE chanrecvBlock(g)
      BY <3>0, <3>5 DEF chanrecvBlock, dequeue, enqueue, bufVars
    <3>. QED
      BY <1>3, <3>1, <3>2, <3>3, <3>4, <3>5
  <2>6. ChanFrame(g)
    BY <2>1, <2>2, <2>5, LockedFrame DEF IInv
  <2>. QED
    BY <2>3, <2>4, <2>6
<1>. QED
  BY <1>1, <1>2, <1>3 DEF Chanrecv

LEMMA StepClosechan ==
  ASSUME IInv, NEW g \in G, Closechan(g)
  PROVE  GoFrame(g) /\ ChanFrame(g) /\ Own(g)'
<1>0. pc \in [G -> PC] /\ Own(g)
  BY OwnNow DEF IInv, TypeOK, RunOK
<1>00. DOMAIN recvq = Channel /\ DOMAIN sendq = Channel /\ lock \in [Channel -> G \cup {NoG}]
  BY DEF IInv, TypeOK, QueueOK
<1>1. ASSUME pc[g] \in {"lock", "closing"}
      PROVE  Ch(g) \in Channel /\ ~IsSelect(g) /\ commit[g] = 0
  BY <1>0, <1>1 DEF Own, OpFits, Committing, ChanPC
<1>2. CASE closechanClosed(g)
  <2>1. /\ UNCHANGED <<chanVars, op, selVars>> /\ pc[g] = "lock"
        /\ pc' = [pc EXCEPT ![g] = "idle"]
    BY <1>2 DEF closechanClosed, Goto, Return
  <2>. QED
    BY <1>0, <2>1, QuietFrame, OwnRest DEF GoFrame, selVars
<1>3. CASE closechan(g)
  <2>1. /\ UNCHANGED <<qcount, recvq, sendq, op, selVars>> /\ pc[g] = "lock"
        /\ pc' = [pc EXCEPT ![g] = "closing"]
        /\ lock[Ch(g)] = NoG /\ lock' = [lock EXCEPT ![Ch(g)] = g]
    BY <1>3 DEF closechan, Goto, bufVars, queueVars
  <2>2. Ch(g)' = Ch(g) /\ IsSelect(g)' = IsSelect(g)
    BY <2>1 DEF Ch, CaseChan, IsSelect
  <2>3. Own(g)'
    BY <1>0, <1>00, <1>1, <2>1, <2>2
       DEF selVars, Own, OpFits, Holds, Committing, Polled, ChanPC
  <2>4. ChanFrame(g)
    BY <1>00, <1>1, <2>1, LockedFrame DEF IInv
  <2>. QED
    BY <1>0, <2>1, <2>3, <2>4 DEF GoFrame, selVars
<1>4. CASE closechanRecvq(g) \/ closechanSendq(g)
  <2>1. /\ UNCHANGED <<qcount, op, selVars, pc, lock>> /\ pc[g] = "closing"
        /\ \A d \in Channel \ {Ch(g)} : UNCHANGED <<recvq[d], sendq[d]>>
    BY <1>00, <1>4 DEF closechanRecvq, closechanSendq, dequeue, bufVars
  <2>2. Ch(g)' = Ch(g) /\ IsSelect(g)' = IsSelect(g)
    BY <2>1 DEF Ch, CaseChan, IsSelect
  <2>3. Own(g)'
    BY <1>0, <1>1, <2>1, <2>2
       DEF selVars, Own, OpFits, Holds, Committing, Polled, ChanPC
  <2>4. ChanFrame(g)
    BY <1>0, <1>1, <2>1, LockedFrame DEF IInv, Own, Holds
  <2>. QED
    BY <1>0, <2>1, <2>3, <2>4 DEF GoFrame, selVars
<1>5. CASE closechanUnlock(g)
  <2>1. /\ UNCHANGED <<qcount, op, selVars>> /\ pc[g] = "closing"
        /\ \A d \in Channel \ {Ch(g)} : UNCHANGED <<recvq[d], sendq[d], lock[d]>>
        /\ \E l \in {"idle", "ready"} : pc' = [pc EXCEPT ![g] = l]
    BY <1>00, <1>5 DEF closechanUnlock, dequeue, bufVars, Goto
  <2>2. ChanFrame(g)
    BY <1>0, <1>1, <2>1, LockedFrame DEF IInv, Own, Holds
  <2>. QED
    BY <1>0, <2>1, <2>2, OwnRest DEF GoFrame, selVars
<1>. QED
  BY <1>2, <1>3, <1>4, <1>5 DEF Closechan

\* In pass 1 the goroutine holds the lock of every case.
LEMMA PollLocked ==
  ASSUME IInv, NEW g \in G, NEW i \in DOMAIN op[g].cases, NEW dir \in Dir,
         Poll(g, i, dir)
  PROVE  /\ CaseChan(g, i) \in Channel /\ lock[CaseChan(g, i)] = g
         /\ pc[g] = "sellock" /\ IsSelect(g)
<1>1. pc[g] = "sellock" /\ AllLocked(g) /\ CaseChan(g, i) # Nil
  BY DEF Poll
<1>2. IsSelect(g) /\ Holds(g)
  BY <1>1 DEF IInv, OpInv, OpFits, LockInv
<1>3. PICK k \in 1..Len(lockorder[g]) :
        LockChan(g, k) = CaseChan(g, i) /\ LockChan(g, k) \in Channel
  BY <1>1, <1>2, LockOrderFacts DEF IInv
<1>. QED
  BY <1>1, <1>2, <1>3 DEF Holds, AllLocked

LEMMA StepPass1 ==
  ASSUME IInv, NEW g \in G, SelectPass1(g)
  PROVE  GoFrame(g) /\ ChanFrame(g) /\ Own(g)'
<1>0. pc \in [G -> PC] /\ polled \in [G -> SUBSET Nat] /\ pos \in [G -> Nat] /\ Own(g)
  BY OwnNow DEF IInv, TypeOK, RunOK, SelOK
<1>00. /\ DOMAIN recvq = Channel /\ DOMAIN sendq = Channel /\ DOMAIN qcount = Channel
       /\ lock \in [Channel -> G \cup {NoG}]
  BY DEF IInv, TypeOK, QueueOK, BufOK
<1>1. ASSUME NEW i \in DOMAIN op[g].cases,
             \/ selectRecv(g, i) \/ selectBufrecv(g, i) \/ selectRclose(g, i)
             \/ selectSend(g, i) \/ selectBufsend(g, i) \/ selectSclose(g, i)
      PROVE  GoFrame(g) /\ ChanFrame(g) /\ Own(g)'
  <2>. DEFINE c == CaseChan(g, i)
  <2>1. /\ \E dir \in Dir : Poll(g, i, dir)
        /\ UNCHANGED polled /\ selunlock(g)
        /\ \E l \in {"idle", "ready"} : pc' = [pc EXCEPT ![g] = l]
    BY <1>1 DEF selectRecv, selectBufrecv, selectRclose, selectSend, selectBufsend,
                selectSclose, Return, Goto, Dir
  <2>2. c \in Channel /\ lock[c] = g /\ pc[g] = "sellock"
    BY <2>1, PollLocked
  <2>3. UNCHANGED <<op, lockorder, pos, commit>>
    BY <2>1 DEF Poll
  <2>4. \A d \in Channel \ {c} : UNCHANGED <<qcount[d], recvq[d], sendq[d]>>
    <3>1. CASE selectRecv(g, i)
      BY <1>00, <3>1 DEF selectRecv, recv, dequeue, bufVars
    <3>2. CASE selectBufrecv(g, i)
      BY <1>00, <3>2 DEF selectBufrecv, NoSender, dequeue, bufrecv
    <3>3. CASE selectRclose(g, i)
      BY <1>00, <3>3 DEF selectRclose, NoSender, dequeue, bufVars
    <3>4. CASE selectSend(g, i)
      BY <1>00, <3>4 DEF selectSend, send, dequeue, bufVars
    <3>5. CASE selectBufsend(g, i)
      BY <1>00, <3>5 DEF selectBufsend, NoReceiver, dequeue, bufsend
    <3>6. CASE selectSclose(g, i)
      BY <3>6 DEF selectSclose, queueVars, bufVars
    <3>. QED
      BY <1>1, <3>1, <3>2, <3>3, <3>4, <3>5, <3>6
  <2>5. \A d \in Channel : lock[d] \notin {NoG, g} => lock'[d] = lock[d]
    BY <2>1 DEF selunlock
  <2>6. ChanFrame(g)
    BY <2>2, <2>4, <2>5, LockedFrame DEF IInv
  <2>7. Own(g)'
    BY <1>0, <2>1, <2>2, <2>3, OwnRest
  <2>. QED
    BY <1>0, <2>1, <2>3, <2>6, <2>7 DEF GoFrame
<1>2. ASSUME NEW i \in DOMAIN op[g].cases, selectNext(g, i)
      PROVE  GoFrame(g) /\ ChanFrame(g) /\ Own(g)'
  <2>. DEFINE c == CaseChan(g, i)
  <2>1. PICK dir \in Dir :
          /\ Poll(g, i, dir)
          /\ dir = "recv" => NoSender(c) /\ qcount[c] = 0
          /\ dir = "send" => NoReceiver(c) /\ qcount[c] >= dataqsiz[c]
    BY <1>2 DEF selectNext, Dir
  <2>2. c \in Channel /\ lock[c] = g /\ pc[g] = "sellock" /\ IsSelect(g)
    BY <2>1, PollLocked
  <2>3. /\ UNCHANGED <<op, lockorder, pos, commit, pc, lock, qcount>>
        /\ polled' = [polled EXCEPT ![g] = @ \cup {i}]
    BY <1>2, <2>1 DEF selectNext, Poll, bufVars
  <2>4. /\ CaseDir(g, i) = dir /\ AllLocked(g) /\ c # Nil
    BY <2>1 DEF Poll
  <2>5. /\ \A d \in Channel \ {c} : UNCHANGED <<recvq[d], sendq[d]>>
        /\ \A d \in Channel : /\ Within(recvq'[d], recvq[d])
                              /\ Within(sendq'[d], sendq[d])
        /\ dir = "recv" => sendq'[c] = <<>>
        /\ dir = "send" => recvq'[c] = <<>>
    <3>1. recvq[c] \in Seq(Sudog) /\ sendq[c] \in Seq(Sudog)
      BY <2>2 DEF IInv, TypeOK, QueueOK
    <3>2. CASE dir = "recv"
      BY <1>00, <2>1, <2>2, <3>1, <3>2, RestWithin, WithinSame DEF NoSender, dequeue
    <3>3. CASE dir = "send"
      BY <1>00, <2>1, <2>2, <3>1, <3>3, RestWithin, WithinSame DEF NoReceiver, dequeue
    <3>. QED
      BY <3>2, <3>3 DEF Dir
  <2>6. ChanFrame(g)
    BY <2>3, <2>5 DEF ChanFrame
  <2>7. /\ \A j : CaseChan(g, j)' = CaseChan(g, j) /\ CaseDir(g, j)' = CaseDir(g, j)
        /\ \A k : LockChan(g, k)' = LockChan(g, k)
        /\ IsSelect(g)' = IsSelect(g) /\ AllLocked(g)' = AllLocked(g)
    BY <2>3 DEF CaseChan, CaseDir, LockChan, IsSelect, AllLocked
  <2>8. OpFits(g)' /\ Holds(g)' /\ Committing(g)'
    BY <1>0, <2>2, <2>3, <2>7 DEF Own, OpFits, Holds, Committing, ChanPC
  <2>9. PolledCase(g, i)'
    BY <2>1, <2>3, <2>4, <2>5, <2>7 DEF PolledCase, OnlyOf
  <2>10. ASSUME NEW j \in polled[g] PROVE PolledCase(g, j)'
    <3>1. PolledCase(g, j)
      BY <1>0, <2>2 DEF Own, Polled
    <3>2. CaseChan(g, j) \in Channel
      BY <3>1, PollCase DEF PolledCase, IInv
    <3>. DEFINE d == CaseChan(g, j)
    <3>3. /\ OnlyOf(g, recvq[d]) => OnlyOf(g, recvq'[d])
          /\ OnlyOf(g, sendq[d]) => OnlyOf(g, sendq'[d])
      BY <2>5, <3>2 DEF Within, OnlyOf
    <3>4. d' = d /\ CaseDir(g, j)' = CaseDir(g, j)
      BY <2>7
    <3>5. /\ OnlyOf(g, recvq[d])' <=> OnlyOf(g, recvq'[d])
          /\ OnlyOf(g, sendq[d])' <=> OnlyOf(g, sendq'[d])
      BY <3>4 DEF OnlyOf
    <3>. QED
      BY <2>3, <3>1, <3>3, <3>4, <3>5 DEF PolledCase
  <2>11. Polled(g)'
    BY <1>0, <2>2, <2>3, <2>4, <2>7, <2>9, <2>10 DEF Polled
  <2>. QED
    BY <1>0, <2>3, <2>6, <2>8, <2>11 DEF GoFrame, Own
<1>3. CASE selectDefault(g)
  <2>1. /\ UNCHANGED <<qcount, recvq, sendq, op, selVars>> /\ pc[g] = "sellock"
        /\ pc' = [pc EXCEPT ![g] = "idle"] /\ selunlock(g)
    BY <1>3 DEF selectDefault, NoCase, Return, Goto, bufVars, queueVars
  <2>2. ChanFrame(g)
    BY <2>1, WithinSame DEF ChanFrame, selunlock
  <2>3. Own(g)'
    BY <1>0, <2>1, OwnRest DEF selVars
  <2>. QED
    BY <1>0, <2>1, <2>2, <2>3 DEF GoFrame, selVars
<1>4. CASE selectBlock(g)
  <2>1. /\ UNCHANGED <<chanVars, op, lockorder, polled, commit>>
        /\ pc[g] = "sellock" /\ AllLocked(g)
        /\ pc' = [pc EXCEPT ![g] = "pass2"] /\ pos' = [pos EXCEPT ![g] = 0]
        /\ \A i \in DOMAIN op[g].cases : CaseChan(g, i) # Nil => i \in polled[g]
    BY <1>4 DEF selectBlock, NoCase, Goto
  <2>2. /\ \A j : CaseChan(g, j)' = CaseChan(g, j) /\ CaseDir(g, j)' = CaseDir(g, j)
        /\ \A k : LockChan(g, k)' = LockChan(g, k)
        /\ IsSelect(g)' = IsSelect(g)
    BY <2>1 DEF CaseChan, CaseDir, LockChan, IsSelect
  <2>3. OpFits(g)' /\ Holds(g)' /\ Committing(g)'
    BY <1>0, <2>1, <2>2 DEF chanVars, Own, OpFits, Holds, Committing, ChanPC, AllLocked
  <2>4. \A i \in polled[g] : PolledCase(g, i)'
    BY <1>0, <2>1, <2>2 DEF chanVars, Own, Polled, PolledCase, OnlyOf
  <2>5. Polled(g)'
    BY <1>0, <2>1, <2>2, <2>4 DEF Polled
  <2>. QED
    BY <1>0, <2>1, <2>3, <2>5, QuietFrame DEF GoFrame, Own
<1>. QED
  BY <1>1, <1>2, <1>3, <1>4 DEF SelectPass1

LEMMA StepSellock ==
  ASSUME IInv, NEW g \in G, sellock(g)
  PROVE  GoFrame(g) /\ ChanFrame(g) /\ Own(g)'
<1>. DEFINE n == Len(lockorder[g])
            c == LockChan(g, pos[g] + 1)
<1>0. /\ pc \in [G -> PC] /\ pos \in [G -> Nat] /\ pos[g] \in Nat /\ commit[g] \in Nat
      /\ lock \in [Channel -> G \cup {NoG}] /\ Own(g) /\ n \in Nat
  BY OwnNow DEF IInv, TypeOK, RunOK, SelOK, QueueOK
<1>1. /\ UNCHANGED <<qcount, recvq, sendq, pc, op, lockorder, polled, commit>>
      /\ pc[g] \in {"sellock", "relock"} /\ pos[g] # n
      /\ pos' = [pos EXCEPT ![g] = @ + 1]
      /\ \/ pos[g] > 0 /\ LockChan(g, pos[g]) = c /\ lock' = lock
         \/ lock[c] = NoG /\ lock' = [lock EXCEPT ![c] = g]
  BY DEF sellock, AllLocked, bufVars, queueVars
<1>2. IsSelect(g) /\ pos[g] + 1 \in 1..n
  BY <1>0, <1>1 DEF Own, OpFits
<1>3. c \in Channel /\ \A k \in 1..n : LockChan(g, k) \in Channel
  BY <1>2, LockOrderFacts DEF IInv
<1>4. /\ \A j : CaseChan(g, j)' = CaseChan(g, j) /\ CaseDir(g, j)' = CaseDir(g, j)
      /\ \A k : LockChan(g, k)' = LockChan(g, k)
      /\ IsSelect(g)' = IsSelect(g)
  BY <1>1 DEF CaseChan, CaseDir, LockChan, IsSelect
<1>5. \A d \in Channel : /\ lock[d] = g => lock'[d] = g
                         /\ lock[d] # NoG => lock'[d] = lock[d]
  BY <1>0, <1>1, <1>3, GAssumption
<1>6. ChanFrame(g)
  BY <1>1, <1>5, WithinSame DEF ChanFrame
<1>7. OpFits(g)'
  BY <1>0, <1>1, <1>2, <1>4 DEF Own, OpFits, ChanPC
<1>. HIDE DEF n, c
<1>8. Holds(g)'
  <2>1. CASE pc[g] = "sellock"
    <3>1. \A k \in 1..pos[g] : lock[LockChan(g, k)] = g
      BY <1>0, <2>1 DEF Own, Holds
    <3>2. lock'[c] = g
      BY <1>0, <1>1, <1>3, <3>1
    <3>3. \A k \in 1..(pos[g] + 1) : lock'[LockChan(g, k)] = g
      BY <1>0, <1>2, <1>3, <1>5, <3>1, <3>2 DEF c
    <3>. QED
      BY <1>0, <1>1, <1>4, <2>1, <3>3 DEF Holds
  <2>2. CASE pc[g] = "relock"
    BY <1>1, <2>2 DEF Holds
  <2>. QED
    BY <1>1, <2>1, <2>2
<1>9. Committing(g)'
  <2>. SUFFICES ASSUME commit[g] # 0 PROVE Committing(g)'
    BY <1>1 DEF Committing
  <2>1. /\ commit[g] <= n /\ pc[g] = "relock"
        /\ \A l \in commit[g]..n : lock[LockChan(g, l)] = g
        /\ \A k \in 1..pos[g], l \in commit[g]..n : LockChan(g, k) # LockChan(g, l)
    BY <1>0, <1>1 DEF Own, Committing, n
  <2>2. \A l \in commit[g]..n : c # LockChan(g, l)
    BY <1>0, <1>1, <2>1, GAssumption
  <2>3. \A k \in 1..(pos[g] + 1), l \in commit[g]..n : LockChan(g, k) # LockChan(g, l)
    BY <1>0, <2>1, <2>2 DEF c
  <2>4. \A l \in commit[g]..n : lock'[LockChan(g, l)] = g
    BY <1>0, <1>3, <1>5, <2>1
  <2>. QED
    BY <1>0, <1>1, <1>2, <1>4, <2>1, <2>3, <2>4 DEF Committing, n
<1>10. Polled(g)'
  <2>1. CASE pc[g] = "sellock"
    <3>1. polled[g] = {}
      BY <1>0, <1>1, <2>1 DEF Own, Polled, AllLocked, n
    <3>. QED
      BY <1>1, <2>1, <3>1 DEF Polled
  <2>2. CASE pc[g] = "relock"
    BY <1>1, <2>2 DEF Polled
  <2>. QED
    BY <1>1, <2>1, <2>2
<1>. QED
  BY <1>0, <1>1, <1>6, <1>7, <1>8, <1>9, <1>10 DEF GoFrame, Own

LEMMA NextCase ==
  ASSUME TypeOK, NEW g \in G, pos[g] < Len(lockorder[g])
  PROVE  pos[g] + 1 \in 1..Len(lockorder[g])
<1>1. pos[g] \in Nat /\ Len(lockorder[g]) \in Nat
  BY DEF TypeOK, SelOK
<1>. QED
  BY <1>1

LEMMA StepEnqueue ==
  ASSUME IInv, NEW g \in G, selectEnqueue(g)
  PROVE  GoFrame(g) /\ ChanFrame(g) /\ Own(g)'
<1>. DEFINE i == lockorder[g][pos[g] + 1]
            c == CaseChan(g, i)
<1>0. /\ pc \in [G -> PC] /\ pos \in [G -> Nat] /\ pos[g] \in Nat /\ Own(g)
      /\ recvq \in [Channel -> Seq(Sudog)] /\ sendq \in [Channel -> Seq(Sudog)]
  BY OwnNow DEF IInv, TypeOK, RunOK, SelOK, QueueOK
<1>1. /\ UNCHANGED <<qcount, lock, pc, op, lockorder, polled, commit>>
      /\ pc[g] = "pass2" /\ pos[g] < Len(lockorder[g])
      /\ pos' = [pos EXCEPT ![g] = @ + 1]
      /\ \/ sendq' = [sendq EXCEPT ![c] = Append(@, <<g, i>>)] /\ recvq' = recvq
         \/ recvq' = [recvq EXCEPT ![c] = Append(@, <<g, i>>)] /\ sendq' = sendq
  BY DEF selectEnqueue, enqueue, bufVars
<1>2. IsSelect(g) /\ pos[g] + 1 \in 1..Len(lockorder[g])
  <2>1. TypeOK /\ OpFits(g) /\ pc[g] = "pass2" /\ pos[g] < Len(lockorder[g])
    BY <1>0, <1>1 DEF Own, IInv
  <2>2. IsSelect(g)
    BY <2>1 DEF OpFits
  <2>. QED
    BY <2>1, <2>2, NextCase
<1>3. c \in Channel /\ i \in Nat /\ lock[c] = g
  BY <1>0, <1>1, <1>2, LockOrderFacts DEF IInv, Own, Holds, LockChan
<1>4. /\ \A j : CaseChan(g, j)' = CaseChan(g, j) /\ CaseDir(g, j)' = CaseDir(g, j)
      /\ \A k : LockChan(g, k)' = LockChan(g, k)
      /\ IsSelect(g)' = IsSelect(g)
  BY <1>1 DEF CaseChan, CaseDir, LockChan, IsSelect
<1>50. pos'[g] <= Len(lockorder[g])
  <2>1. pos' = [pos EXCEPT ![g] = @ + 1]
    BY <1>1
  <2>2. pos'[g] = pos[g] + 1
    BY <1>0, <2>1
  <2>. QED
    BY <1>2, <2>2
<1>51. OpFits(g)'
  BY <1>0, <1>1, <1>2, <1>4, <1>50 DEF Own, OpFits, ChanPC
<1>52. Holds(g)'
  BY <1>0, <1>1, <1>4 DEF Own, Holds
<1>5. OpFits(g)' /\ Holds(g)' /\ Committing(g)'
  BY <1>0, <1>1, <1>51, <1>52 DEF Own, Committing
<1>. HIDE DEF i, c
<1>6. ChanFrame(g)
  BY <1>0, <1>1, <1>3, LockedFrame DEF IInv
<1>7. \A d \in Channel : /\ OnlyOf(g, recvq[d]) => OnlyOf(g, recvq'[d])
                         /\ OnlyOf(g, sendq[d]) => OnlyOf(g, sendq'[d])
  <2>1. <<g, i>> \in Sudog /\ <<g, i>>[1] = g
    BY <1>3 DEF Sudog
  <2>2. ASSUME NEW s \in Seq(Sudog), OnlyOf(g, s) PROVE OnlyOf(g, Append(s, <<g, i>>))
    BY <2>1, <2>2 DEF OnlyOf
  <2>3. ASSUME NEW d \in Channel
        PROVE  /\ recvq'[d] \in {recvq[d], Append(recvq[d], <<g, i>>)}
               /\ sendq'[d] \in {sendq[d], Append(sendq[d], <<g, i>>)}
    BY <1>0, <1>1, <1>3
  <2>4. \A d \in Channel : recvq[d] \in Seq(Sudog) /\ sendq[d] \in Seq(Sudog)
    BY <1>0
  <2>. QED
    BY <2>2, <2>3, <2>4
<1>8. ASSUME NEW j \in polled[g] PROVE PolledCase(g, j)'
  <2>1. PolledCase(g, j)
    BY <1>0, <1>1 DEF Own, Polled
  <2>2. CaseChan(g, j) \in Channel
    BY <2>1, PollCase DEF PolledCase, IInv
  <2>. DEFINE d == CaseChan(g, j)
  <2>3. d' = d /\ CaseDir(g, j)' = CaseDir(g, j)
    BY <1>4
  <2>4. /\ OnlyOf(g, recvq[d])' <=> OnlyOf(g, recvq'[d])
        /\ OnlyOf(g, sendq[d])' <=> OnlyOf(g, sendq'[d])
    BY <2>3 DEF OnlyOf
  <2>. QED
    BY <1>1, <1>7, <2>1, <2>2, <2>3, <2>4 DEF PolledCase
<1>9. Polled(g)'
  BY <1>0, <1>1, <1>4, <1>8 DEF Own, Polled
<1>. QED
  BY <1>0, <1>1, <1>5, <1>6, <1>9 DEF GoFrame, Own

LEMMA StepCommit ==
  ASSUME IInv, NEW g \in G, selparkcommit(g)
  PROVE  GoFrame(g) /\ ChanFrame(g) /\ Own(g)'
<1>. DEFINE n == Len(lockorder[g])
            k == commit[g]
            c == LockChan(g, k)
<1>0. /\ pc \in [G -> PC] /\ pos[g] \in Nat /\ k \in Nat /\ commit \in [G -> Nat]
      /\ lock \in [Channel -> G \cup {NoG}] /\ Own(g) /\ n \in Nat
  BY OwnNow DEF IInv, TypeOK, RunOK, SelOK, QueueOK
<1>1. /\ UNCHANGED <<qcount, recvq, sendq, pc, op, lockorder, pos, polled>> /\ k # 0
      /\ commit' = [commit EXCEPT ![g] = IF k < n THEN k + 1 ELSE 0]
      /\ \/ k < n /\ LockChan(g, k + 1) = c /\ lock' = lock
         \/ ~(k < n /\ LockChan(g, k + 1) = c) /\ lock' = [lock EXCEPT ![c] = NoG]
  BY DEF selparkcommit, bufVars, queueVars
<1>2. /\ IsSelect(g) /\ k <= n /\ pc[g] \in {"park", "woken", "relock"}
      /\ \A l \in k..n : lock[LockChan(g, l)] = g
      /\ pc[g] = "relock" =>
           \A j \in 1..pos[g], l \in k..n : LockChan(g, j) # LockChan(g, l)
  BY <1>0, <1>1 DEF Own, Committing
<1>3. /\ \A j \in 1..n : LockChan(g, j) \in Channel
      /\ \A j, l \in 1..n : j < l => LockChan(g, j) <= LockChan(g, l)
  BY <1>2, LockOrderFacts DEF IInv
<1>4. c \in Channel /\ lock[c] = g /\ k \in 1..n
  BY <1>0, <1>1, <1>2, <1>3
<1>5. /\ \A j : LockChan(g, j)' = LockChan(g, j)
      /\ IsSelect(g)' = IsSelect(g)
  BY <1>1 DEF CaseChan, LockChan, IsSelect
<1>6. ChanFrame(g)
  BY <1>0, <1>1, <1>4, LockedFrame DEF IInv
<1>7. OpFits(g)' /\ Holds(g)' /\ Polled(g)'
  BY <1>0, <1>1, <1>2, <1>5 DEF Own, OpFits, Holds, Polled, ChanPC
<1>. HIDE DEF n, k, c
<1>8. Committing(g)'
  <2>1. CASE k < n
    <3>1. commit'[g] = k + 1 /\ k + 1 \in 1..n
      BY <1>0, <1>1, <1>4, <2>1
    <3>2. ASSUME NEW l \in (k + 1)..n PROVE lock'[LockChan(g, l)] = g
      <4>1. lock[LockChan(g, l)] = g /\ LockChan(g, l) \in Channel /\ l \in 1..n
        BY <1>0, <1>2, <1>3, <1>4
      <4>2. CASE LockChan(g, k + 1) = c
        BY <1>1, <2>1, <4>1, <4>2
      <4>3. CASE LockChan(g, k + 1) # c
        <5>1. c <= LockChan(g, k + 1) /\ LockChan(g, k + 1) <= LockChan(g, l)
          <6>1. c <= LockChan(g, k + 1)
            BY <1>0, <1>3, <1>4, <3>1 DEF c
          <6>2. CASE l = k + 1
            <7>1. LockChan(g, k + 1) \in Nat
              BY <1>3, <3>1, ChannelAssumption
            <7>2. LockChan(g, l) = LockChan(g, k + 1)
              BY <6>2
            <7>. QED
              BY <6>1, <7>1, <7>2
          <6>3. CASE l # k + 1
            BY <1>0, <1>3, <3>1, <4>1, <6>1, <6>3
          <6>. QED
            BY <6>2, <6>3
        <5>2. c \in Nat /\ LockChan(g, k + 1) \in Nat /\ LockChan(g, l) \in Nat
          BY <1>3, <1>4, <3>1, <4>1, ChannelAssumption
        <5>3. LockChan(g, l) # c
          BY <4>3, <5>1, <5>2
        <5>. QED
          BY <1>0, <1>1, <4>1, <5>3
      <4>. QED
        BY <4>2, <4>3
    <3>3. pc[g] = "relock" =>
            \A j \in 1..pos[g], l \in (k + 1)..n : LockChan(g, j) # LockChan(g, l)
      BY <1>0, <1>2
    <3>. QED
      BY <1>0, <1>1, <1>2, <1>5, <3>1, <3>2, <3>3 DEF Committing, n
  <2>2. CASE ~(k < n)
    BY <1>0, <1>1, <2>2 DEF Committing
  <2>. QED
    BY <2>1, <2>2
<1>. QED
  BY <1>0, <1>1, <1>6, <1>7, <1>8 DEF GoFrame, Own

LEMMA StepSelectgo ==
  ASSUME IInv, NEW g \in G, Selectgo(g)
  PROVE  GoFrame(g) /\ ChanFrame(g) /\ Own(g)'
<1>0. /\ pc \in [G -> PC] /\ pos \in [G -> Nat] /\ commit \in [G -> Nat] /\ Own(g)
      /\ Len(lockorder[g]) \in Nat /\ pos[g] \in Nat /\ lockorder[g] \in Seq(Nat)
  BY OwnNow DEF IInv, TypeOK, RunOK, SelOK
<1>1. CASE selectPark(g)
  <2>1. /\ UNCHANGED <<chanVars, op, lockorder, pos, polled>> /\ pc[g] = "pass2"
        /\ commit' = [commit EXCEPT ![g] = IF lockorder[g] = <<>> THEN 0 ELSE 1]
        /\ pc' = [pc EXCEPT ![g] = "park"]
    BY <1>1 DEF selectPark, Goto
  <2>2. IsSelect(g) /\ \A k \in 1..Len(lockorder[g]) : lock[LockChan(g, k)] = g
    BY <1>0, <2>1 DEF Own, OpFits, Holds
  <2>3. /\ \A k : LockChan(g, k)' = LockChan(g, k)
        /\ IsSelect(g)' = IsSelect(g)
    BY <2>1 DEF CaseChan, LockChan, IsSelect
  <2>4. OpFits(g)' /\ Holds(g)' /\ Polled(g)'
    BY <1>0, <2>1, <2>3 DEF Own, OpFits, Holds, Polled, ChanPC
  <2>5. lockorder[g] # <<>> => 1 <= Len(lockorder[g])
    BY <1>0
  <2>6. Committing(g)'
    BY <1>0, <2>1, <2>2, <2>3, <2>5 DEF Committing, chanVars
  <2>. QED
    BY <1>0, <2>1, <2>4, <2>6, QuietFrame DEF GoFrame, Own
<1>2. CASE selectWoken(g)
  <2>1. /\ UNCHANGED <<chanVars, op, lockorder, polled, commit>> /\ IsSelect(g)
        /\ pos' = [pos EXCEPT ![g] = 0] /\ pc[g] = "woken"
        /\ pc' = [pc EXCEPT ![g] = "relock"]
    BY <1>2 DEF selectWoken, Goto
  <2>2. /\ \A k : LockChan(g, k)' = LockChan(g, k)
        /\ IsSelect(g)' = IsSelect(g)
    BY <2>1 DEF CaseChan, LockChan, IsSelect
  <2>3. OpFits(g)' /\ Holds(g)' /\ Polled(g)' /\ Committing(g)'
    BY <1>0, <2>1, <2>2 DEF Own, OpFits, Holds, Polled, Committing, ChanPC, chanVars
  <2>. QED
    BY <1>0, <2>1, <2>3, QuietFrame DEF GoFrame, Own
<1>3. CASE selectRelocked(g)
  <2>1. /\ UNCHANGED <<chanVars, op, lockorder, polled, commit>>
        /\ pos' = [pos EXCEPT ![g] = 0] /\ pc[g] = "relock"
        /\ pos[g] = Len(lockorder[g])
        /\ pc' = [pc EXCEPT ![g] = "pass3"]
    BY <1>3 DEF selectRelocked, Goto, AllLocked
  <2>2. commit[g] = 0
    <3>. SUFFICES ASSUME commit[g] # 0 PROVE FALSE
      OBVIOUS
    <3>1. /\ commit[g] \in Nat /\ commit[g] <= Len(lockorder[g])
          /\ \A k \in 1..pos[g], l \in commit[g]..Len(lockorder[g]) :
               LockChan(g, k) # LockChan(g, l)
      BY <1>0, <2>1 DEF Own, Committing
    <3>. QED
      BY <1>0, <2>1, <3>1
  <2>3. IsSelect(g)' = IsSelect(g)
    BY <2>1 DEF IsSelect
  <2>4. OpFits(g)' /\ Holds(g)' /\ Polled(g)' /\ Committing(g)'
    BY <1>0, <2>1, <2>2, <2>3 DEF Own, OpFits, Holds, Polled, Committing, ChanPC
  <2>. QED
    BY <1>0, <2>1, <2>4, QuietFrame DEF GoFrame, Own
<1>4. CASE selectDequeue(g)
  <2>. DEFINE i == lockorder[g][pos[g] + 1]
              c == CaseChan(g, i)
  <2>0. recvq \in [Channel -> Seq(Sudog)] /\ sendq \in [Channel -> Seq(Sudog)]
    BY DEF IInv, TypeOK, QueueOK
  <2>1. /\ UNCHANGED <<qcount, lock, pc, op, lockorder, polled, commit>>
        /\ pc[g] = "pass3" /\ pos[g] < Len(lockorder[g])
    BY <1>4 DEF selectDequeue, bufVars
  <2>2. pos' = [pos EXCEPT ![g] = @ + 1]
    BY <1>4 DEF selectDequeue
  <2>3. pos'[g] = pos[g] + 1 /\ pos'[g] <= Len(lockorder[g])
    BY <1>0, <2>1, <2>2
  <2>4. IsSelect(g) /\ commit[g] = 0 /\ IsSelect(g)' = IsSelect(g)
    BY <1>0, <2>1 DEF Own, OpFits, Committing, IsSelect
  <2>5. OpFits(g)' /\ Holds(g)' /\ Polled(g)' /\ Committing(g)'
    BY <1>0, <2>1, <2>3, <2>4 DEF Own, OpFits, Holds, Polled, Committing, ChanPC
  <2>6. pos[g] + 1 \in 1..Len(lockorder[g])
    BY <1>0, <2>1
  <2>7. c \in Channel /\ <<g, i>> \in Sudog
    BY <2>4, <2>6, LockOrderFacts DEF IInv, LockChan, Sudog
  <2>8. \/ UNCHANGED <<recvq, sendq>>
        \/ sendq' = [sendq EXCEPT ![c] = dequeueSudoG(@, <<g, i>>)] /\ recvq' = recvq
        \/ recvq' = [recvq EXCEPT ![c] = dequeueSudoG(@, <<g, i>>)] /\ sendq' = sendq
    BY <1>4 DEF selectDequeue, queueVars
  <2>. HIDE DEF i, c
  <2>9. \A d \in Channel : Within(recvq'[d], recvq[d]) /\ Within(sendq'[d], sendq[d])
    <3>1. ASSUME NEW d \in Channel
          PROVE  /\ recvq'[d] \in {recvq[d], dequeueSudoG(recvq[d], <<g, i>>)}
                 /\ sendq'[d] \in {sendq[d], dequeueSudoG(sendq[d], <<g, i>>)}
      BY <2>0, <2>7, <2>8
    <3>. QED
      BY <2>0, <2>7, <3>1, UnlinkWithin, WithinSame
  <2>10. ChanFrame(g)
    BY <2>1, <2>9 DEF ChanFrame
  <2>. QED
    BY <1>0, <2>1, <2>2, <2>5, <2>10 DEF GoFrame, Own
<1>5. CASE selectFinish(g)
  <2>1. /\ UNCHANGED <<qcount, recvq, sendq, op, selVars>> /\ pc[g] = "pass3"
        /\ \E l \in {"idle", "throw"} : pc' = [pc EXCEPT ![g] = l]
        /\ lock' = lock \/ selunlock(g)
    BY <1>5 DEF selectFinish, Return, Goto, bufVars, queueVars
  <2>2. ChanFrame(g)
    BY <2>1, WithinSame DEF ChanFrame, selunlock
  <2>3. Own(g)'
    BY <1>0, <2>1, OwnRest DEF selVars
  <2>. QED
    BY <1>0, <2>1, <2>2, <2>3 DEF GoFrame, selVars
<1>. QED
  BY <1>1, <1>2, <1>3, <1>4, <1>5, StepSellock, StepPass1, StepEnqueue, StepCommit
     DEF Selectgo

LEMMA StepCall ==
  ASSUME IInv, NEW g \in G, NEW o \in Ops,
         CallChan(g, o) \/ CallNil(g, o) \/ CallSelect(g, o)
  PROVE  GoFrame(g) /\ ChanFrame(g) /\ Own(g)'
<1>0. /\ pc \in [G -> PC] /\ pos \in [G -> Nat] /\ op \in [G -> Ops \cup {NoOp}]
      /\ polled \in [G -> SUBSET Nat] /\ lockorder \in [G -> Seq(Nat)] /\ Own(g)
  BY OwnNow DEF IInv, TypeOK, RunOK, SelOK
<1>1. pc[g] = "idle" /\ UNCHANGED chanVars /\ op' = [op EXCEPT ![g] = o]
  BY DEF CallChan, CallNil, CallSelect, Call
<1>2. UNCHANGED commit /\ commit[g] = 0 /\ op'[g] = o
  BY <1>0, <1>1 DEF CallChan, CallNil, CallSelect, selVars, Own, Committing
<1>3. Ch(g)' = o.cases[1].c /\ (IsSelect(g)' <=> o.kind = "select")
  BY <1>2 DEF Ch, CaseChan, IsSelect
<1>4. CASE CallChan(g, o)
  <2>1. /\ o.kind # "select" /\ o.cases[1].c # Nil
        /\ \E l \in ChanPC \ {"closing"} : pc' = [pc EXCEPT ![g] = l]
        /\ UNCHANGED selVars
    BY <1>4 DEF CallChan, Goto, ChanPC
  <2>2. o.cases \in Seq(Case) /\ Len(o.cases) = 1
    BY <2>1, OpsAssumption DEF Operation
  <2>3. o.cases[1].c \in Channel
    <3>1. o.cases[1] \in Case
      BY <2>2
    <3>. QED
      BY <2>1, <3>1 DEF Case
  <2>4. Own(g)'
    BY <1>0, <1>2, <1>3, <2>1, <2>3 DEF Own, OpFits, Holds, Polled, Committing, ChanPC
  <2>. QED
    BY <1>0, <1>1, <2>1, <2>4, QuietFrame DEF GoFrame, selVars
<1>5. CASE CallNil(g, o)
  <2>1. /\ o.kind # "select" /\ pc' = [pc EXCEPT ![g] = "nil"] /\ UNCHANGED selVars
    BY <1>5 DEF CallNil, Goto
  <2>2. Own(g)'
    BY <1>0, <1>2, <1>3, <2>1 DEF Own, OpFits, Holds, Polled, Committing, ChanPC
  <2>. QED
    BY <1>0, <1>1, <2>1, <2>2, QuietFrame DEF GoFrame, selVars
<1>6. CASE CallSelect(g, o)
  <2>1. PICK s \in LockOrders(o.cases) :
          /\ o.kind = "select" /\ pc' = [pc EXCEPT ![g] = "sellock"]
          /\ lockorder' = [lockorder EXCEPT ![g] = s]
          /\ pos' = [pos EXCEPT ![g] = 0] /\ polled' = [polled EXCEPT ![g] = {}]
    BY <1>6 DEF CallSelect, Goto
  <2>2. s \in Seq(Nat)
    BY LockOrderCases, OpsAssumption DEF Operation
  <2>3. /\ pc'[g] = "sellock" /\ lockorder'[g] = s /\ pos'[g] = 0 /\ polled'[g] = {}
        /\ 0 <= Len(s) /\ IsSelect(g)'
    BY <1>0, <1>3, <2>1, <2>2
  <2>4. OpFits(g)'
    BY <1>2, <2>3 DEF OpFits, ChanPC
  <2>5. Holds(g)' /\ Polled(g)' /\ Committing(g)'
    BY <1>2, <2>3 DEF Holds, Polled, Committing
  <2>. QED
    BY <1>0, <1>1, <1>2, <2>1, <2>4, <2>5, QuietFrame DEF GoFrame, Own
<1>. QED
  BY <1>4, <1>5, <1>6

LEMMA StepOther ==
  ASSUME IInv, NEW g \in G, goready(g) \/ nilchan(g)
  PROVE  GoFrame(g) /\ ChanFrame(g) /\ Own(g)'
<1>0. pc \in [G -> PC] /\ Own(g)
  BY OwnNow DEF IInv, TypeOK, RunOK
<1>1. CASE goready(g)
  <2>1. PICK sg \in wake[g] :
          pc' = [pc EXCEPT ![sg[1]] = "woken",
                           ![g] = IF wake[g] = {sg} THEN "idle" ELSE "ready"]
    BY <1>1 DEF goready
  <2>2. UNCHANGED <<chanVars, op, selVars>> /\ pc[g] = "ready"
    BY <1>1 DEF goready
  <2>3. pc'[g] \in {"idle", "ready"} /\ \A h \in G \ {g} : pc'[h] \in {pc[h], "woken"}
    BY <1>0, <2>1
  <2>4. Own(g)'
    BY <1>0, <2>2, <2>3, OwnRest DEF selVars
  <2>. QED
    BY <2>2, <2>3, <2>4, QuietFrame DEF GoFrame, selVars
<1>2. CASE nilchan(g)
  <2>1. /\ UNCHANGED <<chanVars, op, selVars>> /\ pc[g] = "nil"
        /\ pc' = [pc EXCEPT ![g] = "idle"]
    BY <1>2 DEF nilchan, Return, Goto
  <2>2. Own(g)'
    BY <1>0, <2>1, OwnRest DEF selVars
  <2>. QED
    BY <1>0, <2>1, <2>2, QuietFrame DEF GoFrame, selVars
<1>. QED
  BY <1>1, <1>2

-----------------------------------------------------------------------------
(* The wait queues.                                                        *)

\* Taking sudogs out, or closing the channel, cannot break WaitqOK.
LEMMA WaitqShrink ==
  ASSUME TypeOK, TypeOK', NEW c \in Channel, WaitqOK(c),
         qcount'[c] = qcount[c], closed[c] => closed'[c],
         Within(recvq'[c], recvq[c]), Within(sendq'[c], sendq[c])
  PROVE  WaitqOK(c)'
<1>1. recvq'[c] \in Seq(Sudog) /\ sendq'[c] \in Seq(Sudog)
  BY DEF TypeOK, QueueOK
<1>2. /\ recvq[c] = <<>> => recvq'[c] = <<>>
      /\ sendq[c] = <<>> => sendq'[c] = <<>>
  BY <1>1 DEF Within
<1>. QED
  BY <1>2 DEF WaitqOK, Within

\* A step that only takes sudogs out, of any queues.
Shrinks == /\ UNCHANGED qcount
           /\ \A c \in Channel : /\ closed[c] => closed'[c]
                                 /\ Within(recvq'[c], recvq[c])
                                 /\ Within(sendq'[c], sendq[c])

LEMMA ShrinksWaitq ==
  ASSUME TypeOK, TypeOK', WaitqInvariant, Shrinks
  PROVE  WaitqInvariant'
BY WaitqShrink DEF WaitqInvariant, Shrinks

LEMMA QuietShrinks ==
  ASSUME UNCHANGED <<closed, qcount, recvq, sendq>>
  PROVE  Shrinks
BY WithinSame DEF Shrinks

\* dequeue() on either queue of c.
LEMMA DequeueShrinks ==
  ASSUME TypeOK, NEW c \in Channel, UNCHANGED <<closed, qcount>>,
         recvq' = recvq \/ recvq' = dequeue(recvq, c),
         sendq' = sendq \/ sendq' = dequeue(sendq, c)
  PROVE  Shrinks
<1>1. \A d \in Channel : /\ recvq[d] \in Seq(Sudog) /\ sendq[d] \in Seq(Sudog)
                         /\ recvq'[d] \in {recvq[d], Rest(recvq[d])}
                         /\ sendq'[d] \in {sendq[d], Rest(sendq[d])}
  BY DEF TypeOK, QueueOK, dequeue
<1>. QED
  BY <1>1, RestWithin, WithinSame DEF Shrinks

\* The rest of the channels are not concerned.
LEMMA WaitqLocal ==
  ASSUME TypeOK, TypeOK', WaitqInvariant, NEW c \in Channel, WaitqOK(c)',
         \A d \in Channel \ {c} : UNCHANGED <<closed[d], qcount[d], recvq[d], sendq[d]>>
  PROVE  WaitqInvariant'
BY WaitqShrink, WithinSame DEF WaitqInvariant

\* An element is put into the buffer: no receiver was waiting.
LEMMA WaitqBufsend ==
  ASSUME TypeOK, TypeOK', WaitqInvariant, NEW g, NEW i, NEW c \in Channel,
         bufsend(g, i, c), NoReceiver(c), UNCHANGED closed
  PROVE  WaitqInvariant'
<1>0. /\ DOMAIN qcount = Channel /\ DOMAIN recvq = Channel /\ qcount[c] \in Nat
      /\ recvq[c] \in Seq(Sudog) /\ dataqsiz[c] \in Nat
  BY SizeAssumption DEF TypeOK, BufOK, QueueOK
<1>1. /\ recvq'[c] = <<>> /\ sendq' = sendq /\ qcount'[c] = qcount[c] + 1
      /\ \A d \in Channel \ {c} : UNCHANGED <<closed[d], qcount[d], recvq[d], sendq[d]>>
  BY <1>0, RestWithin DEF bufsend, NoReceiver, dequeue
<1>2. WaitqOK(c)'
  BY <1>0, <1>1 DEF WaitqInvariant, WaitqOK
<1>. QED
  BY <1>1, <1>2, WaitqLocal

\* An element is taken out of it: the channel is closed or no sender was waiting.
LEMMA WaitqBufrecv ==
  ASSUME TypeOK, TypeOK', WaitqInvariant, NEW g, NEW c \in Channel, qcount[c] > 0,
         bufrecv(g, c), (closed[c] /\ UNCHANGED queueVars) \/ NoSender(c), UNCHANGED closed
  PROVE  WaitqInvariant'
<1>0. /\ DOMAIN qcount = Channel /\ DOMAIN sendq = Channel /\ qcount[c] \in Nat
      /\ sendq[c] \in Seq(Sudog)
  BY DEF TypeOK, BufOK, QueueOK
<1>1. /\ closed[c] \/ sendq'[c] = <<>>
      /\ recvq' = recvq
      /\ \A d \in Channel \ {c} : UNCHANGED <<closed[d], qcount[d], recvq[d], sendq[d]>>
  BY <1>0, RestWithin DEF bufrecv, NoSender, dequeue, queueVars
<1>2. WaitqOK(c)'
  BY <1>0, <1>1 DEF WaitqInvariant, WaitqOK
<1>. QED
  BY <1>1, <1>2, WaitqLocal

\* A sender, or a receiver, queues itself: the other queue is empty.
LEMMA WaitqBlockSend ==
  ASSUME TypeOK, TypeOK', WaitqInvariant, NEW g, NEW c \in Channel,
         qcount[c] >= dataqsiz[c], Live(recvq[c]) = {}, recvq' = dequeue(recvq, c),
         sendq' = enqueue(sendq, c, <<g, 1>>), UNCHANGED <<closed, qcount>>
  PROVE  WaitqInvariant'
<1>1. /\ recvq'[c] = <<>>
      /\ \A d \in Channel \ {c} : UNCHANGED <<closed[d], qcount[d], recvq[d], sendq[d]>>
  BY RestWithin DEF TypeOK, QueueOK, dequeue, enqueue
<1>2. WaitqOK(c)'
  BY <1>1, SizeAssumption DEF WaitqOK, TypeOK, BufOK
<1>. QED
  BY <1>1, <1>2, WaitqLocal

LEMMA WaitqBlockRecv ==
  ASSUME TypeOK, TypeOK', WaitqInvariant, NEW g, NEW c \in Channel,
         qcount[c] = 0, Live(sendq[c]) = {}, sendq' = dequeue(sendq, c),
         recvq' = enqueue(recvq, c, <<g, 1>>), UNCHANGED <<closed, qcount>>
  PROVE  WaitqInvariant'
<1>1. /\ sendq'[c] = <<>>
      /\ \A d \in Channel \ {c} : UNCHANGED <<closed[d], qcount[d], recvq[d], sendq[d]>>
  BY RestWithin DEF TypeOK, QueueOK, dequeue, enqueue
<1>2. WaitqOK(c)'
  BY <1>1 DEF WaitqOK, TypeOK, BufOK
<1>. QED
  BY <1>1, <1>2, WaitqLocal

\* Pass 2 queues g on a channel where, but for g itself, nobody waits the other
\* way: that is what pass 1 established and the locks preserved.
LEMMA WaitqEnqueueSend ==
  ASSUME TypeOK, TypeOK', WaitqInvariant, NEW g \in G, NEW i \in Nat, NEW c \in Channel,
         qcount[c] >= dataqsiz[c], OnlyOf(g, recvq[c]), sendq' = enqueue(sendq, c, <<g, i>>),
         UNCHANGED <<closed, qcount, recvq>>
  PROVE  WaitqInvariant'
<1>1. /\ sendq'[c] = Append(sendq[c], <<g, i>>) /\ sendq[c] \in Seq(Sudog)
      /\ \A d \in Channel \ {c} : sendq'[d] = sendq[d]
  BY DEF TypeOK, QueueOK, enqueue
<1>a. /\ DOMAIN sendq[c] = 1..Len(sendq[c]) /\ Len(sendq[c]) \in Nat
      /\ DOMAIN sendq'[c] = 1..(Len(sendq[c]) + 1)
      /\ \A j \in 1..Len(sendq[c]) : sendq'[c][j] = sendq[c][j]
      /\ sendq'[c][Len(sendq[c]) + 1] = <<g, i>>
  <2>. DEFINE s == sendq[c]
              a == Append(s, <<g, i>>)
  <2>1. <<g, i>> \in Sudog /\ s \in Seq(Sudog)
    BY <1>1 DEF Sudog
  <2>2. sendq'[c] = a
    BY <1>1
  <2>3. /\ DOMAIN s = 1..Len(s) /\ Len(s) \in Nat
        /\ a \in Seq(Sudog) /\ Len(a) = Len(s) + 1
        /\ \A j \in 1..Len(s) : a[j] = s[j]
        /\ a[Len(s) + 1] = <<g, i>>
    <3>. HIDE DEF s
    <3>. QED
      BY <2>1, AppendProperties
  <2>4. DOMAIN a = 1..(Len(s) + 1)
    <3>. HIDE DEF s, a
    <3>. QED
      BY <2>3
  <2>. HIDE DEF a
  <2>. QED
    BY <2>2, <2>3, <2>4
<1>2. qcount'[c] = qcount[c] /\ ~(qcount[c] < dataqsiz[c]) /\ recvq'[c] = recvq[c]
  BY SizeAssumption DEF TypeOK, BufOK
<1>3. ASSUME NEW k \in DOMAIN recvq[c], NEW j \in DOMAIN sendq'[c], ~closed[c]
      PROVE  recvq[c][k][1] = sendq'[c][j][1]
  <2>1. recvq[c][k][1] = g
    BY DEF OnlyOf
  <2>2. CASE j \in DOMAIN sendq[c]
    <3>1. sendq'[c][j] = sendq[c][j]
      BY <1>a, <2>2
    <3>2. recvq[c][k][1] = sendq[c][j][1]
      BY <1>3, <2>2 DEF WaitqInvariant, WaitqOK
    <3>. QED
      BY <3>1, <3>2
  <2>3. CASE j \notin DOMAIN sendq[c]
    <3>1. sendq'[c][j] = <<g, i>>
      BY <1>a, <2>3
    <3>. QED
      BY <2>1, <3>1
  <2>. QED
    BY <2>2, <2>3
<1>4. WaitqOK(c)'
  BY <1>2, <1>3 DEF WaitqInvariant, WaitqOK
<1>. QED
  BY <1>1, <1>4, WaitqLocal

LEMMA WaitqEnqueueRecv ==
  ASSUME TypeOK, TypeOK', WaitqInvariant, NEW g \in G, NEW i \in Nat, NEW c \in Channel,
         qcount[c] = 0, OnlyOf(g, sendq[c]), recvq' = enqueue(recvq, c, <<g, i>>),
         UNCHANGED <<closed, qcount, sendq>>
  PROVE  WaitqInvariant'
<1>1. /\ recvq'[c] = Append(recvq[c], <<g, i>>) /\ recvq[c] \in Seq(Sudog)
      /\ \A d \in Channel \ {c} : recvq'[d] = recvq[d]
  BY DEF TypeOK, QueueOK, enqueue
<1>a. /\ DOMAIN recvq[c] = 1..Len(recvq[c]) /\ Len(recvq[c]) \in Nat
      /\ DOMAIN recvq'[c] = 1..(Len(recvq[c]) + 1)
      /\ \A j \in 1..Len(recvq[c]) : recvq'[c][j] = recvq[c][j]
      /\ recvq'[c][Len(recvq[c]) + 1] = <<g, i>>
  <2>. DEFINE s == recvq[c]
              a == Append(s, <<g, i>>)
  <2>1. <<g, i>> \in Sudog /\ s \in Seq(Sudog)
    BY <1>1 DEF Sudog
  <2>2. recvq'[c] = a
    BY <1>1
  <2>3. /\ DOMAIN s = 1..Len(s) /\ Len(s) \in Nat
        /\ a \in Seq(Sudog) /\ Len(a) = Len(s) + 1
        /\ \A j \in 1..Len(s) : a[j] = s[j]
        /\ a[Len(s) + 1] = <<g, i>>
    <3>. HIDE DEF s
    <3>. QED
      BY <2>1, AppendProperties
  <2>4. DOMAIN a = 1..(Len(s) + 1)
    <3>. HIDE DEF s, a
    <3>. QED
      BY <2>3
  <2>. HIDE DEF a
  <2>. QED
    BY <2>2, <2>3, <2>4
<1>2. qcount'[c] = qcount[c] /\ ~(qcount[c] > 0) /\ sendq'[c] = sendq[c]
  BY SizeAssumption DEF TypeOK, BufOK
<1>3. ASSUME NEW k \in DOMAIN sendq[c], NEW j \in DOMAIN recvq'[c], ~closed[c]
      PROVE  sendq[c][k][1] = recvq'[c][j][1]
  <2>1. sendq[c][k][1] = g
    BY DEF OnlyOf
  <2>2. CASE j \in DOMAIN recvq[c]
    <3>1. recvq'[c][j] = recvq[c][j]
      BY <1>a, <2>2
    <3>2. sendq[c][k][1] = recvq[c][j][1]
      BY <1>3, <2>2 DEF WaitqInvariant, WaitqOK
    <3>. QED
      BY <3>1, <3>2
  <2>3. CASE j \notin DOMAIN recvq[c]
    <3>1. recvq'[c][j] = <<g, i>>
      BY <1>a, <2>3
    <3>. QED
      BY <2>1, <3>1
  <2>. QED
    BY <2>2, <2>3
<1>4. WaitqOK(c)'
  BY <1>2, <1>3 DEF WaitqInvariant, WaitqOK
<1>. QED
  BY <1>1, <1>4, WaitqLocal

LEMMA WaitqChansend ==
  ASSUME IInv, TypeOK', NEW g \in G, Chansend(g)
  PROVE  WaitqInvariant'
<1>0. TypeOK /\ WaitqInvariant /\ OpFits(g)
  BY DEF IInv, OpInv
<1>1. CASE \/ sendClosed(g) \/ sendFull(g) \/ sendFullFirst(g) \/ sendClosedLast(g)
           \/ chansendWoken(g) \/ chansendClosed(g)
  <2>1. UNCHANGED <<closed, qcount, recvq, sendq>>
    BY <1>1 DEF sendClosed, sendFull, sendFullFirst, sendClosedLast, chansendWoken,
                chansendClosed, Enter, chanVars, queueVars, bufVars
  <2>. QED
    BY <1>0, <2>1, QuietShrinks, ShrinksWaitq
<1>2. ASSUME pc[g] = "lock" PROVE Ch(g) \in Channel
  BY <1>0, <1>2 DEF OpFits, ChanPC
<1>3. CASE chansendDirect(g)
  BY <1>0, <1>2, <1>3, DequeueShrinks, ShrinksWaitq
     DEF chansendDirect, Enter, send, bufVars
<1>4. CASE chansendBuffer(g)
  BY <1>0, <1>2, <1>4, WaitqBufsend DEF chansendBuffer, Enter
<1>5. CASE chansendFail(g)
  BY <1>0, <1>2, <1>5, DequeueShrinks, ShrinksWaitq
     DEF chansendFail, Enter, NoReceiver, bufVars
<1>6. CASE chansendBlock(g)
  BY <1>0, <1>2, <1>6, WaitqBlockSend DEF chansendBlock, Enter, bufVars
<1>. QED
  BY <1>1, <1>3, <1>4, <1>5, <1>6 DEF Chansend

LEMMA WaitqChanrecv ==
  ASSUME IInv, TypeOK', NEW g \in G, Chanrecv(g)
  PROVE  WaitqInvariant'
<1>0. TypeOK /\ WaitqInvariant /\ OpFits(g)
  BY DEF IInv, OpInv
<1>1. CASE \/ recvEmpty(g) \/ recvClosed(g) \/ recvRecheck(g)
           \/ chanrecvWoken(g) \/ chanrecvClosed(g)
  <2>1. UNCHANGED <<closed, qcount, recvq, sendq>>
    BY <1>1 DEF recvEmpty, recvClosed, recvRecheck, chanrecvWoken,
                chanrecvClosed, Enter, chanVars, queueVars, bufVars
  <2>. QED
    BY <1>0, <2>1, QuietShrinks, ShrinksWaitq
<1>2. ASSUME pc[g] = "lock" PROVE Ch(g) \in Channel
  BY <1>0, <1>2 DEF OpFits, ChanPC
<1>3. CASE chanrecvDirect(g)
  BY <1>0, <1>2, <1>3, DequeueShrinks, ShrinksWaitq
     DEF chanrecvDirect, Enter, recv, bufVars
<1>4. CASE chanrecvBuffer(g)
  BY <1>0, <1>2, <1>4, WaitqBufrecv DEF chanrecvBuffer, Enter
<1>5. CASE chanrecvFail(g)
  BY <1>0, <1>2, <1>5, DequeueShrinks, ShrinksWaitq
     DEF chanrecvFail, Enter, NoSender, bufVars
<1>6. CASE chanrecvBlock(g)
  BY <1>0, <1>2, <1>6, WaitqBlockRecv DEF chanrecvBlock, Enter, bufVars
<1>. QED
  BY <1>1, <1>3, <1>4, <1>5, <1>6 DEF Chanrecv

LEMMA WaitqClosechan ==
  ASSUME IInv, TypeOK', NEW g \in G, Closechan(g)
  PROVE  WaitqInvariant'
<1>0. TypeOK /\ WaitqInvariant /\ OpFits(g)
  BY DEF IInv, OpInv
<1>1. ASSUME pc[g] = "closing" PROVE Ch(g) \in Channel
  BY <1>0, <1>1 DEF OpFits, ChanPC
<1>2. CASE closechanClosed(g)
  BY <1>0, <1>2, QuietShrinks, ShrinksWaitq DEF closechanClosed, chanVars
<1>3. CASE closechan(g)
  <2>1. Shrinks
    BY <1>0, <1>3, WithinSame DEF closechan, Shrinks, bufVars, queueVars, TypeOK, BufOK
  <2>. QED
    BY <1>0, <2>1, ShrinksWaitq
<1>4. CASE closechanRecvq(g) \/ closechanSendq(g) \/ closechanUnlock(g)
  <2>1. /\ pc[g] = "closing" /\ UNCHANGED <<closed, qcount>>
        /\ recvq' = dequeue(recvq, Ch(g))
        /\ sendq' = sendq \/ sendq' = dequeue(sendq, Ch(g))
    BY <1>4 DEF closechanRecvq, closechanSendq, closechanUnlock, bufVars
  <2>. QED
    BY <1>0, <1>1, <2>1, DequeueShrinks, ShrinksWaitq
<1>. QED
  BY <1>2, <1>3, <1>4 DEF Closechan

LEMMA WaitqPass1 ==
  ASSUME IInv, TypeOK', NEW g \in G, SelectPass1(g)
  PROVE  WaitqInvariant'
<1>0. TypeOK /\ WaitqInvariant
  BY DEF IInv
<1>1. ASSUME NEW i \in DOMAIN op[g].cases,
             \/ selectRecv(g, i) \/ selectBufrecv(g, i) \/ selectRclose(g, i)
             \/ selectSend(g, i) \/ selectBufsend(g, i) \/ selectSclose(g, i)
             \/ selectNext(g, i)
      PROVE  WaitqInvariant'
  <2>1. \E dir \in Dir : Poll(g, i, dir)
    BY <1>1 DEF selectRecv, selectBufrecv, selectRclose, selectSend, selectBufsend,
                selectSclose, selectNext, Dir
  <2>2. CaseChan(g, i) \in Channel /\ UNCHANGED closed
    BY <2>1, PollLocked DEF Poll
  <2>3. CASE selectBufrecv(g, i)
    BY <1>0, <2>2, <2>3, WaitqBufrecv DEF selectBufrecv
  <2>4. CASE selectBufsend(g, i)
    BY <1>0, <2>2, <2>4, WaitqBufsend DEF selectBufsend
  <2>5. CASE \/ selectRecv(g, i) \/ selectRclose(g, i) \/ selectSend(g, i)
             \/ selectSclose(g, i) \/ selectNext(g, i)
    <3>1. /\ UNCHANGED qcount
          /\ recvq' = recvq \/ recvq' = dequeue(recvq, CaseChan(g, i))
          /\ sendq' = sendq \/ sendq' = dequeue(sendq, CaseChan(g, i))
      BY <2>5 DEF selectRecv, selectRclose, selectSend, selectSclose, selectNext, recv,
                  send, NoSender, NoReceiver, queueVars, bufVars
    <3>. QED
      BY <1>0, <2>2, <3>1, DequeueShrinks, ShrinksWaitq
  <2>. QED
    BY <1>1, <2>3, <2>4, <2>5
<1>2. CASE selectDefault(g) \/ selectBlock(g)
  <2>1. UNCHANGED <<closed, qcount, recvq, sendq>>
    BY <1>2 DEF selectDefault, selectBlock, chanVars, bufVars, queueVars
  <2>. QED
    BY <1>0, <2>1, QuietShrinks, ShrinksWaitq
<1>. QED
  BY <1>1, <1>2 DEF SelectPass1

LEMMA WaitqEnqueue ==
  ASSUME IInv, TypeOK', NEW g \in G, selectEnqueue(g)
  PROVE  WaitqInvariant'
<1>. DEFINE i == lockorder[g][pos[g] + 1]
            c == CaseChan(g, i)
<1>0. /\ TypeOK /\ WaitqInvariant /\ OpFits(g) /\ Polled(g)
      /\ pos[g] \in Nat /\ lockorder[g] \in Seq(Nat)
  BY DEF IInv, OpInv, PolledInv, TypeOK, SelOK
<1>1. pc[g] = "pass2" /\ pos[g] < Len(lockorder[g]) /\ UNCHANGED <<closed, qcount>>
  BY DEF selectEnqueue, bufVars
<1>2. IsSelect(g) /\ pos[g] + 1 \in 1..Len(lockorder[g])
  <2>1. IsSelect(g)
    BY <1>0, <1>1 DEF OpFits
  <2>. QED
    BY <1>0, <1>1, <2>1, NextCase
<1>3. i \in DOMAIN op[g].cases /\ i \in Nat /\ c \in Channel /\ c # Nil
  BY <1>0, <1>2, LockOrderFacts, ChannelAssumption DEF IInv, LockChan
<1>4. PolledCase(g, i)
  BY <1>0, <1>1, <1>3 DEF Polled
<1>5. CASE CaseDir(g, i) = "send"
  <2>1. sendq' = enqueue(sendq, c, <<g, i>>) /\ UNCHANGED recvq
    BY <1>5 DEF selectEnqueue
  <2>2. qcount[c] >= dataqsiz[c] /\ OnlyOf(g, recvq[c])
    BY <1>4, <1>5 DEF PolledCase
  <2>. QED
    BY <1>0, <1>1, <1>3, <2>1, <2>2, WaitqEnqueueSend
<1>6. CASE CaseDir(g, i) = "recv"
  <2>1. recvq' = enqueue(recvq, c, <<g, i>>) /\ UNCHANGED sendq
    BY <1>6 DEF selectEnqueue
  <2>2. qcount[c] = 0 /\ OnlyOf(g, sendq[c])
    BY <1>4, <1>6 DEF PolledCase
  <2>. QED
    BY <1>0, <1>1, <1>3, <2>1, <2>2, WaitqEnqueueRecv
<1>7. CaseDir(g, i) \in {"send", "recv"}
  BY DEF selectEnqueue
<1>. QED
  BY <1>5, <1>6, <1>7

LEMMA WaitqSelectgo ==
  ASSUME IInv, TypeOK', NEW g \in G, Selectgo(g)
  PROVE  WaitqInvariant'
<1>0. TypeOK /\ WaitqInvariant /\ OpFits(g)
  BY DEF IInv, OpInv
<1>1. CASE \/ sellock(g) \/ selectPark(g) \/ selparkcommit(g) \/ selectWoken(g)
           \/ selectRelocked(g) \/ selectFinish(g)
  <2>1. UNCHANGED <<closed, qcount, recvq, sendq>>
    BY <1>1 DEF sellock, selectPark, selparkcommit, selectWoken, selectRelocked,
                selectFinish, chanVars, bufVars, queueVars
  <2>. QED
    BY <1>0, <2>1, QuietShrinks, ShrinksWaitq
<1>2. CASE selectDequeue(g)
  <2>. DEFINE i == lockorder[g][pos[g] + 1]
              c == CaseChan(g, i)
  <2>1. IsSelect(g) /\ pos[g] + 1 \in 1..Len(lockorder[g])
    <3>1. pc[g] = "pass3" /\ pos[g] < Len(lockorder[g])
      BY <1>2 DEF selectDequeue
    <3>2. IsSelect(g)
      BY <1>0, <3>1 DEF OpFits
    <3>. QED
      BY <1>0, <3>1, <3>2, NextCase
  <2>2. <<g, i>> \in Sudog
    BY <2>1, LockOrderFacts DEF IInv, Sudog
  <2>3. /\ UNCHANGED <<closed, qcount>>
        /\ \/ UNCHANGED <<recvq, sendq>>
           \/ sendq' = [sendq EXCEPT ![c] = dequeueSudoG(@, <<g, i>>)] /\ recvq' = recvq
           \/ recvq' = [recvq EXCEPT ![c] = dequeueSudoG(@, <<g, i>>)] /\ sendq' = sendq
    BY <1>2 DEF selectDequeue, queueVars, bufVars
  <2>. HIDE DEF i, c
  <2>4. \A d \in Channel : /\ recvq[d] \in Seq(Sudog) /\ sendq[d] \in Seq(Sudog)
                           /\ recvq'[d] \in {recvq[d], dequeueSudoG(recvq[d], <<g, i>>)}
                           /\ sendq'[d] \in {sendq[d], dequeueSudoG(sendq[d], <<g, i>>)}
    BY <1>0, <2>3 DEF TypeOK, QueueOK
  <2>5. Shrinks
    BY <2>2, <2>3, <2>4, UnlinkWithin, WithinSame DEF Shrinks
  <2>. QED
    BY <1>0, <2>5, ShrinksWaitq
<1>. QED
  BY <1>1, <1>2, WaitqPass1, WaitqEnqueue DEF Selectgo

-----------------------------------------------------------------------------
(* The theorems.                                                           *)

LEMMA IInvInit == Init => IInv
<1>. SUFFICES ASSUME Init PROVE IInv
  OBVIOUS
<1>1. TypeOK
  BY TypeInit
<1>2. \A g \in G : pc[g] = "idle" /\ op[g] = NoOp /\ commit[g] = 0
  BY DEF Init
<1>3. \A g \in G : ~IsSelect(g)
  <2>1. NoOp.kind = "none"
    BY DEF NoOp
  <2>. QED
    BY <1>2, <2>1 DEF IsSelect
<1>4. OpInv /\ LockInv /\ CommitInv /\ PolledInv
  BY <1>2, <1>3 DEF OpInv, OpFits, ChanPC, LockInv, Holds, CommitInv, Committing,
                    PolledInv, Polled
<1>5. WaitqInvariant
  BY DEF Init, WaitqInvariant, WaitqOK
<1>. QED
  BY <1>1, <1>4, <1>5 DEF IInv

LEMMA IInvNext == IInv /\ [Next]_vars => IInv'
<1>. SUFFICES ASSUME IInv, [Next]_vars PROVE IInv'
  OBVIOUS
<1>1. TypeOK'
  BY TypeNext DEF IInv
<1>2. ASSUME NEW g \in G, GoFrame(g) /\ ChanFrame(g) /\ Own(g)', WaitqInvariant'
      PROVE  IInv'
  <2>1. \A h \in G : Own(h)'
    BY <1>1, <1>2, OwnOther
  <2>. QED
    BY <1>1, <1>2, <2>1 DEF Own, IInv, OpInv, LockInv, CommitInv, PolledInv
<1>3. ASSUME NEW g \in G, NEW o \in Ops,
             CallChan(g, o) \/ CallNil(g, o) \/ CallSelect(g, o)
      PROVE  IInv'
  <2>1. UNCHANGED <<closed, qcount, recvq, sendq>>
    BY <1>3 DEF CallChan, CallNil, CallSelect, Call, chanVars
  <2>2. WaitqInvariant'
    BY <1>1, <2>1, QuietShrinks, ShrinksWaitq DEF IInv
  <2>. QED
    BY <1>2, <1>3, <2>2, StepCall
<1>4. ASSUME NEW g \in G, Run(g) PROVE IInv'
  <2>1. CASE Chansend(g)
    BY <1>1, <1>2, <2>1, StepChansend, WaitqChansend
  <2>2. CASE Chanrecv(g)
    BY <1>1, <1>2, <2>2, StepChanrecv, WaitqChanrecv
  <2>3. CASE Closechan(g)
    BY <1>1, <1>2, <2>3, StepClosechan, WaitqClosechan
  <2>4. CASE Selectgo(g)
    BY <1>1, <1>2, <2>4, StepSelectgo, WaitqSelectgo
  <2>5. CASE goready(g) \/ nilchan(g)
    <3>1. UNCHANGED <<closed, qcount, recvq, sendq>>
      BY <2>5 DEF goready, nilchan, chanVars
    <3>2. WaitqInvariant'
      BY <1>1, <3>1, QuietShrinks, ShrinksWaitq DEF IInv
    <3>. QED
      BY <1>2, <2>5, <3>2, StepOther
  <2>. QED
    BY <1>4, <2>1, <2>2, <2>3, <2>4, <2>5 DEF Run
<1>5. CASE UNCHANGED vars
  <2>1. WaitqInvariant'
    BY <1>1, <1>5, QuietShrinks, ShrinksWaitq DEF IInv, vars, chanVars
  <2>2. \A g \in G : GoFrame(g) /\ ChanFrame(g)
    BY <1>5, QuietFrame DEF vars, selVars, GoFrame
  <2>3. ASSUME NEW g \in G PROVE Own(g)'
    <3>1. Own(g) /\ UNCHANGED vars
      BY <1>5, OwnNow
    <3>. QED
      BY <3>1 DEF vars, chanVars, selVars, Own, OpFits, Holds, Committing, Polled,
                  PolledCase, OnlyOf, IsSelect, Ch, CaseChan, CaseDir, LockChan,
                  AllLocked
  <2>. QED
    BY <1>1, <2>1, <2>3 DEF IInv, Own, OpInv, LockInv, CommitInv, PolledInv
<1>. QED
  BY <1>3, <1>4, <1>5 DEF Next

\* IInv is an invariant of the runtime's channels.
THEOREM Invariant == Spec => []IInv
BY IInvInit, IInvNext, PTL DEF Spec

\* Type correctness of Chan: in particular qcount never exceeds dataqsiz and the
\* indices of the circular buffer stay inside it.
THEOREM TypeCorrect == Spec => []TypeOK
<1>1. IInv => TypeOK
  BY DEF IInv
<1>. QED
  BY <1>1, Invariant, PTL

\* The invariants chan.go states at its top hold for every set of goroutines and
\* channels, every buffer size and every program of sends, receives, closes and
\* selects of any number of cases.
THEOREM WaitqCorrect == Spec => []WaitqInvariant
<1>1. IInv => WaitqInvariant
  BY DEF IInv
<1>. QED
  BY <1>1, Invariant, PTL

\* selparkcommit has finished with g.waiting before selectgo takes it apart.
THEOREM WaitingListCorrect == Spec => []WaitingListStable
<1>1. ASSUME IInv PROVE WaitingListStable
  <2>. SUFFICES ASSUME NEW g \in G, commit[g] # 0
                PROVE  /\ pc[g] \in {"park", "woken", "relock"}
                       /\ pc[g] = "relock" => ~AllLocked(g)
    BY DEF WaitingListStable
  <2>1. /\ Committing(g) /\ commit[g] \in Nat /\ pos[g] \in Nat
        /\ Len(lockorder[g]) \in Nat
    BY <1>1 DEF IInv, CommitInv, TypeOK, SelOK
  <2>. QED
    BY <2>1 DEF Committing, AllLocked
<1>. QED
  BY <1>1, Invariant, PTL

-----------------------------------------------------------------------------
(* The sudogs and their goroutines.                                        *)

\* sg is in q, in the queue of c for dir; somebody has taken it to be woken.
In(q, sg) == \E k \in DOMAIN q : q[k] = sg
InQ(c, dir, sg) == In(Queue(c, dir), sg)
Picked(sg) == \E h \in G : sg \in wake[h]
NoDup(q)  == \A k, l \in DOMAIN q : q[k] = q[l] => k = l

Waiting == {"pass2", "park", "woken", "relock", "pass3"}

\* Pass 2 has enqueued case i, pass 3 has yet to unlink it.
Reached(g, i) ==
  /\ pc[g] = "pass2" => \E k \in 1..pos[g] : lockorder[g][k] = i
  /\ pc[g] = "pass3" => \E k \in (pos[g] + 1)..Len(lockorder[g]) : lockorder[g][k] = i

\* What a sudog in a queue tells about its goroutine: it is waiting for this
\* case, nobody has taken the sudog, and pass 2 has reached it or pass 3 has not.
Sudogs(g) ==
  \A c \in Channel, dir \in Dir, i \in Nat : InQ(c, dir, <<g, i>>) =>
    /\ pc[g] \in Waiting
    /\ i \in DOMAIN op[g].cases /\ op[g].cases[i] = [c |-> c, dir |-> dir]
    /\ ~Picked(<<g, i>>)
    /\ ~IsSelect(g) => pc[g] = "park"
    /\ pc[g] \in {"woken", "relock", "pass3"} => i # param[g]
    /\ Reached(g, i)

\* Conversely, the sudogs of a goroutine that nobody has taken are in their queues.
Waits(g) ==
  /\ pc[g] = "park" /\ ~Chosen(g) =>
       \A i \in DOMAIN op[g].cases : CaseChan(g, i) # Nil => Queued(g, i)
  /\ pc[g] = "pass2" =>
       \A i \in DOMAIN op[g].cases : (\E k \in 1..pos[g] : lockorder[g][k] = i) => Queued(g, i)

\* selectDone is set from the moment a case has won until the select has its
\* locks again.
Won(g) ==
  selectDone[g] <=> IsSelect(g) /\ (pc[g] \in {"woken", "relock"} \/ Chosen(g))

\* What whoever has been woken will find.
Woken(g) ==
  /\ pc[g] \in {"woken", "relock", "pass3"} /\ IsSelect(g) => param[g] \in DOMAIN op[g].cases
  /\ pc[g] = "woken" /\ ~IsSelect(g) => Ch(g) \in Channel /\ (success[g] \/ closed[Ch(g)])
  /\ pc[g] \in {"park", "woken"} => op[g].kind \in {"chan", "select"}
  /\ pc[g] # "throw"

\* The sudogs g has taken: their goroutines are parked, and nobody else has one
\* of theirs.
Wakes(g) ==
  /\ wake[g] # {} => pc[g] \in {"closing", "ready"}
  /\ \A s \in wake[g] :
       /\ pc[s[1]] = "park" /\ s[2] \in DOMAIN op[s[1]].cases
       /\ CaseChan(s[1], s[2]) \in Channel
       /\ op[g].kind = "close" => param[s[1]] = s[2] /\ closed[CaseChan(s[1], s[2])]
       /\ \A h \in G : \A t \in wake[h] : s[1] = t[1] => g = h /\ s = t

GInv(g) == Sudogs(g) /\ Waits(g) /\ Won(g) /\ Woken(g) /\ Wakes(g)

\* Pass 3 holds all its locks, and a case that pass 1 has looked at is open.
Keeps(g) ==
  /\ pc[g] = "relock" => \A k \in 1..pos[g] : lock[LockChan(g, k)] = g
  /\ pc[g] = "pass3" => \A k \in 1..Len(lockorder[g]) : lock[LockChan(g, k)] = g
  /\ pc[g] \in {"sellock", "pass2"} => \A i \in polled[g] : ~closed[CaseChan(g, i)]
  /\ pc[g] = "closing" => op[g].kind = "close" /\ closed[Ch(g)]

\* Only the closechan that has closed a channel finds waiters there.
Drained(c) ==
  /\ NoDup(recvq[c]) /\ NoDup(sendq[c])
  /\ closed[c] => \/ recvq[c] = <<>> /\ sendq[c] = <<>>
                  \/ \E h \in G : pc[h] = "closing" /\ Ch(h) = c

SInv == /\ \A g \in G : GInv(g) /\ Keeps(g)
        /\ \A c \in Channel : Drained(c)

-----------------------------------------------------------------------------
(* The queues.                                                             *)

\* What dequeue() takes out: the first live sudog and stale ones.
LEMMA RestFacts ==
  ASSUME NEW q \in Seq(Sudog), NoDup(q)
  PROVE  /\ NoDup(Rest(q))
         /\ \A s : In(Rest(q), s) => In(q, s)
         /\ Live(q) = {} => Rest(q) = <<>> /\ \A s : In(q, s) => Stale(s)
         /\ Live(q) # {} =>
              /\ In(q, q[First(q)]) /\ ~Stale(q[First(q)]) /\ q[First(q)] \in Sudog
              /\ ~In(Rest(q), q[First(q)])
              /\ \A s : In(q, s) /\ s # q[First(q)] /\ ~Stale(s) => In(Rest(q), s)
<1>1. CASE Live(q) = {}
  BY <1>1 DEF Rest, NoDup, In, Live
<1>2. CASE Live(q) # {}
  <2>. DEFINE n == First(q)
  <2>1. n \in 1..Len(q) /\ n \in Live(q) /\ q[n] \in Sudog /\ Len(q) \in Nat
    BY <1>2, FirstLive
  <2>2. \A j \in Live(q) : n <= j
    <3>1. Live(q) \subseteq Nat
      BY DEF Live
    <3>2. PICK x \in Live(q) : \A y \in Live(q) : ~(<<y, x>> \in OpToRel(<, Nat))
      BY <1>2, <3>1, WFMin, NatLessThanWellFounded, Zenon
    <3>3. \A y \in Live(q) : ~(y < x)
      BY <3>1, <3>2, Zenon DEF OpToRel
    <3>4. \A y \in Live(q) : x <= y
      BY <3>1, <3>3
    <3>. QED
      BY <3>4 DEF First
  <2>3. Rest(q) = SubSeq(q, n + 1, Len(q))
    BY <1>2 DEF Rest
  <2>. HIDE DEF n
  <2>4. /\ DOMAIN Rest(q) = 1..(Len(q) - n) /\ DOMAIN q = 1..Len(q)
        /\ \A k \in 1..(Len(q) - n) : Rest(q)[k] = q[n + k]
    BY <2>1, <2>3
  <2>5. \A s : In(Rest(q), s) => In(q, s)
    <3>1. \A k \in 1..(Len(q) - n) : n + k \in 1..Len(q)
      BY <2>1
    <3>. QED
      BY <2>4, <3>1 DEF In
  <2>6. NoDup(Rest(q))
    <3>1. ASSUME NEW k \in 1..(Len(q) - n), NEW l \in 1..(Len(q) - n), q[n + k] = q[n + l]
          PROVE  k = l
      <4>1. n + k \in DOMAIN q /\ n + l \in DOMAIN q
        BY <2>1, <2>4
      <4>2. n + k = n + l
        BY <3>1, <4>1 DEF NoDup
      <4>. QED
        BY <2>1, <4>2
    <3>. QED
      BY <2>4, <3>1 DEF NoDup
  <2>7. In(q, q[n]) /\ ~Stale(q[n])
    BY <2>1 DEF In, Live
  <2>8. ~In(Rest(q), q[n])
    <3>1. ASSUME NEW k \in 1..(Len(q) - n), q[n + k] = q[n] PROVE FALSE
      <4>1. n + k \in DOMAIN q /\ n \in DOMAIN q
        BY <2>1, <2>4
      <4>2. n + k = n
        BY <3>1, <4>1 DEF NoDup
      <4>. QED
        BY <2>1, <4>2
    <3>. QED
      BY <2>4, <3>1 DEF In
  <2>9. ASSUME NEW s, In(q, s), s # q[n], ~Stale(s) PROVE In(Rest(q), s)
    <3>1. PICK k \in 1..Len(q) : q[k] = s
      BY <2>4, <2>9 DEF In
    <3>2. k \in Live(q)
      BY <2>4, <2>9, <3>1 DEF Live
    <3>3. k - n \in 1..(Len(q) - n) /\ n + (k - n) = k
      BY <2>1, <2>2, <2>9, <3>1, <3>2
    <3>4. Rest(q)[k - n] = s
      BY <2>4, <3>1, <3>3
    <3>. QED
      BY <2>4, <3>3, <3>4 DEF In
  <2>. QED
    BY <1>2, <2>1, <2>5, <2>6, <2>7, <2>8, <2>9 DEF n
<1>. QED
  BY <1>1, <1>2

\* dequeueSudoG takes out the sudog it is given and nothing else.
LEMMA UnlinkFacts ==
  ASSUME NEW q \in Seq(Sudog), NoDup(q), NEW sg \in Sudog
  PROVE  /\ NoDup(dequeueSudoG(q, sg))
         /\ \A s : In(dequeueSudoG(q, sg), s) <=> In(q, s) /\ s # sg
<1>1. CASE ~ \E i \in DOMAIN q : q[i] = sg
  BY <1>1 DEF dequeueSudoG, In
<1>2. CASE \E i \in DOMAIN q : q[i] = sg
  <2>. DEFINE n == CHOOSE i \in DOMAIN q : q[i] = sg
              a == SubSeq(q, 1, n - 1)
              b == SubSeq(q, n + 1, Len(q))
              r == a \o b
  <2>1. n \in 1..Len(q) /\ q[n] = sg /\ Len(q) \in Nat
    BY <1>2
  <2>2. dequeueSudoG(q, sg) = r
    BY <1>2 DEF dequeueSudoG
  <2>. HIDE DEF n
  <2>4. /\ a \in Seq(Sudog) /\ Len(a) = n - 1
        /\ \A i \in 1..(n - 1) : a[i] = q[i]
    BY <2>1
  <2>5. /\ b \in Seq(Sudog) /\ Len(b) = Len(q) - n
        /\ \A i \in 1..(Len(q) - n) : b[i] = q[n + i]
    BY <2>1
  <2>. HIDE DEF a, b
  <2>6. /\ r \in Seq(Sudog)
        /\ Len(r) = Len(a) + Len(b)
        /\ \A i \in 1..(Len(a) + Len(b)) :
             r[i] = IF i <= Len(a) THEN a[i] ELSE b[i - Len(a)]
    BY <2>4, <2>5, ConcatProperties
  <2>. HIDE DEF r
  <2>7. DOMAIN r = 1..(Len(q) - 1) /\ DOMAIN q = 1..Len(q)
    BY <2>1, <2>4, <2>5, <2>6
  <2>8. ASSUME NEW i \in 1..(Len(q) - 1)
        PROVE  r[i] = IF i < n THEN q[i] ELSE q[i + 1]
    <3>0. r[i] = IF i <= n - 1 THEN a[i] ELSE b[i - (n - 1)]
      <4>1. i \in 1..(Len(a) + Len(b))
        BY <2>1, <2>4, <2>5
      <4>. QED
        BY <2>4, <2>6, <4>1
    <3>1. CASE i < n
      <4>1. i <= n - 1 /\ i \in 1..(n - 1)
        BY <2>1, <3>1
      <4>. QED
        BY <2>4, <3>0, <3>1, <4>1
    <3>2. CASE ~(i < n)
      <4>1. i - (n - 1) \in 1..(Len(q) - n) /\ n + (i - (n - 1)) = i + 1
        BY <2>1, <3>2
      <4>2. r[i] = b[i - (n - 1)]
        BY <2>1, <3>0, <3>2
      <4>. QED
        BY <2>5, <3>2, <4>1, <4>2
    <3>. QED
      BY <3>1, <3>2
  <2>9. ASSUME NEW k \in DOMAIN r, NEW l \in DOMAIN r, r[k] = r[l] PROVE k = l
    <3>. DEFINE x == IF k < n THEN k ELSE k + 1
                y == IF l < n THEN l ELSE l + 1
    <3>1. x \in DOMAIN q /\ y \in DOMAIN q /\ q[x] = q[y]
      BY <2>1, <2>7, <2>8, <2>9
    <3>2. x = y
      BY <3>1 DEF NoDup
    <3>. QED
      BY <2>1, <2>7, <3>2
  <2>10. ASSUME NEW s, In(r, s) PROVE In(q, s) /\ s # sg
    <3>1. PICK k \in 1..(Len(q) - 1) : r[k] = s
      BY <2>7, <2>10 DEF In
    <3>. DEFINE x == IF k < n THEN k ELSE k + 1
    <3>2. x \in DOMAIN q /\ q[x] = s /\ x # n /\ n \in DOMAIN q
      BY <2>1, <2>7, <2>8, <3>1
    <3>3. q[x] # q[n]
      BY <3>2 DEF NoDup
    <3>. QED
      BY <2>1, <3>2, <3>3 DEF In
  <2>11. ASSUME NEW s, In(q, s), s # sg PROVE In(r, s)
    <3>1. PICK k \in 1..Len(q) : q[k] = s
      BY <2>7, <2>11 DEF In
    <3>. DEFINE x == IF k < n THEN k ELSE k - 1
    <3>2. k # n
      BY <2>1, <2>11, <3>1
    <3>3. x \in 1..(Len(q) - 1) /\ (x < n => x = k) /\ (~(x < n) => x + 1 = k)
      BY <2>1, <3>1, <3>2
    <3>4. r[x] = s
      BY <2>8, <3>1, <3>3
    <3>. QED
      BY <2>7, <3>3, <3>4 DEF In
  <2>. QED
    BY <2>2, <2>9, <2>10, <2>11 DEF NoDup
<1>. QED
  BY <1>1, <1>2

\* enqueue adds its sudog and nothing else.
LEMMA AppendFacts ==
  ASSUME NEW q \in Seq(Sudog), NEW sg \in Sudog
  PROVE  /\ \A s : In(Append(q, sg), s) <=> In(q, s) \/ s = sg
         /\ NoDup(q) /\ ~In(q, sg) => NoDup(Append(q, sg))
<1>1. /\ DOMAIN q = 1..Len(q) /\ DOMAIN Append(q, sg) = 1..(Len(q) + 1) /\ Len(q) \in Nat
      /\ \A k \in 1..Len(q) : Append(q, sg)[k] = q[k]
      /\ Append(q, sg)[Len(q) + 1] = sg
  OBVIOUS
<1>2. \A s : In(Append(q, sg), s) <=> In(q, s) \/ s = sg
  BY <1>1 DEF In
<1>3. ASSUME NoDup(q), ~In(q, sg) PROVE NoDup(Append(q, sg))
  BY <1>1, <1>3 DEF NoDup, In
<1>. QED
  BY <1>2, <1>3

-----------------------------------------------------------------------------
(* The other goroutines.                                                   *)

\* What a step of g that takes no sudog leaves alone in the other goroutines.
Alone(g) ==
  /\ wake' = wake
  /\ \A c \in Channel : closed[c] => closed'[c]
  /\ \A h \in G \ {g} : UNCHANGED <<pc[h], op[h], lockorder[h], pos[h], selectDone[h],
                                    param[h], success[h]>>

\* Of the other goroutines' sudogs it drops stale ones at most.
OthersQ(g) ==
  \A c \in Channel, dir \in Dir, h \in G \ {g}, i \in Nat :
    /\ InQ(c, dir, <<h, i>>)' => InQ(c, dir, <<h, i>>)
    /\ InQ(c, dir, <<h, i>>) /\ ~Stale(<<h, i>>) => InQ(c, dir, <<h, i>>)'

\* A stale sudog is one of a select that somebody has won.
LEMMA StaleWon ==
  ASSUME SInv, NEW h \in G, NEW i, Stale(<<h, i>>)
  PROVE  pc[h] # "pass2" /\ (pc[h] = "park" => Chosen(h))
<1>1. selectDone[h] /\ Won(h)
  BY DEF Stale, SInv, GInv
<1>2. Chosen(h) => pc[h] = "park"
  BY DEF Chosen, SInv, GInv, Wakes
<1>. QED
  BY <1>1, <1>2 DEF Won

\* The place of a case.
LEMMA CasePlace ==
  ASSUME TypeOK, NEW g \in G, NEW i \in DOMAIN op[g].cases, CaseChan(g, i) # Nil
  PROVE  /\ CaseChan(g, i) \in Channel /\ CaseDir(g, i) \in Dir /\ i \in Nat
         /\ Queued(g, i) <=> InQ(CaseChan(g, i), CaseDir(g, i), <<g, i>>)
         /\ op[g].cases[i] = [c |-> CaseChan(g, i), dir |-> CaseDir(g, i)]
<1>1. /\ op[g].cases \in Seq(Case) /\ CaseChan(g, i) \in Channel \cup {Nil}
      /\ CaseDir(g, i) \in Dir
  BY OpType
<1>2. op[g].cases[i] \in Case
  BY <1>1
<1>. QED
  BY <1>1, <1>2 DEF Queued, InQ, In, Case, CaseChan, CaseDir

\* The cases of the lock order.
LEMMA OrderPlace ==
  ASSUME IInv, NEW g \in G, IsSelect(g), NEW k \in 1..Len(lockorder[g])
  PROVE  /\ lockorder[g][k] \in DOMAIN op[g].cases /\ CaseChan(g, lockorder[g][k]) # Nil
         /\ LockChan(g, k) = CaseChan(g, lockorder[g][k])
<1>1. lockorder[g] \in LockOrders(op[g].cases) /\ op[g].cases \in Seq(Case)
  BY OpType DEF IInv, OpInv, OpFits
<1>. QED
  BY <1>1, LockOrderCases DEF CaseChan, LockChan

LEMMA OthersKeep ==
  ASSUME IInv, SInv, NEW g \in G, Alone(g), OthersQ(g),
         Chosen(g) => UNCHANGED <<pc[g], op[g], param[g]>>, NEW h \in G \ {g}
  PROVE  GInv(h)'
<1>0. /\ UNCHANGED <<pc[h], op[h], lockorder[h], pos[h], selectDone[h], param[h], success[h]>>
      /\ wake' = wake /\ Sudogs(h) /\ Waits(h) /\ Won(h) /\ Woken(h) /\ Wakes(h)
  BY DEF Alone, SInv, GInv
<1>1. /\ IsSelect(h)' = IsSelect(h) /\ Ch(h)' = Ch(h)
      /\ \A i : CaseChan(h, i)' = CaseChan(h, i) /\ CaseDir(h, i)' = CaseDir(h, i)
  BY <1>0 DEF IsSelect, Ch, CaseChan, CaseDir
<1>2. (Chosen(h)' <=> Chosen(h)) /\ \A s : Picked(s)' <=> Picked(s)
  BY <1>0 DEF Chosen, Picked
<1>3. Sudogs(h)'
  <2>. SUFFICES ASSUME NEW c \in Channel, NEW dir \in Dir, NEW i \in Nat,
                       InQ(c, dir, <<h, i>>)'
                PROVE  /\ pc'[h] \in Waiting
                       /\ i \in DOMAIN op'[h].cases /\ op'[h].cases[i] = [c |-> c, dir |-> dir]
                       /\ ~Picked(<<h, i>>)'
                       /\ ~IsSelect(h)' => pc'[h] = "park"
                       /\ pc'[h] \in {"woken", "relock", "pass3"} => i # param'[h]
                       /\ Reached(h, i)'
    BY DEF Sudogs
  <2>1. InQ(c, dir, <<h, i>>)
    BY DEF OthersQ
  <2>2. Reached(h, i)' <=> Reached(h, i)
    BY <1>0 DEF Reached
  <2>. QED
    BY <1>0, <1>1, <1>2, <2>1, <2>2 DEF Sudogs
<1>4. ASSUME NEW i \in DOMAIN op[h].cases, CaseChan(h, i) # Nil, Queued(h, i),
             pc[h] = "pass2" \/ (pc[h] = "park" /\ ~Chosen(h))
      PROVE  Queued(h, i)'
  <2>1. /\ CaseChan(h, i) \in Channel /\ CaseDir(h, i) \in Dir /\ i \in Nat
        /\ InQ(CaseChan(h, i), CaseDir(h, i), <<h, i>>)
    BY <1>4, CasePlace DEF IInv
  <2>2. ~Stale(<<h, i>>)
    BY <1>4, StaleWon
  <2>3. \A c \in Channel, d \in Dir : InQ(c, d, <<h, i>>) => InQ(c, d, <<h, i>>)'
    BY <2>1, <2>2 DEF OthersQ
  <2>4. \A c \in Channel, d \in Dir : InQ(c, d, <<h, i>>)' <=> In(Queue(c, d)', <<h, i>>)
    BY DEF InQ, In
  <2>. QED
    BY <1>1, <2>1, <2>3, <2>4 DEF Queued, In, Queue
<1>5. Waits(h)'
  <2>1. ASSUME pc[h] = "park", ~Chosen(h), NEW i \in DOMAIN op[h].cases, CaseChan(h, i) # Nil
        PROVE  Queued(h, i)'
    BY <1>0, <1>4, <2>1 DEF Waits
  <2>2. ASSUME pc[h] = "pass2", NEW i \in DOMAIN op[h].cases,
               \E k \in 1..pos[h] : lockorder[h][k] = i
        PROVE  Queued(h, i)'
    <3>1. IsSelect(h) /\ pos[h] <= Len(lockorder[h]) /\ pos[h] \in Nat /\ Len(lockorder[h]) \in Nat
      BY <2>2 DEF IInv, OpInv, OpFits, TypeOK, SelOK
    <3>2. PICK k \in 1..Len(lockorder[h]) : lockorder[h][k] = i
      BY <2>2, <3>1
    <3>3. CaseChan(h, i) # Nil
      BY <3>1, <3>2, OrderPlace
    <3>4. Queued(h, i)
      BY <1>0, <2>2 DEF Waits
    <3>. QED
      BY <1>4, <2>2, <3>3, <3>4
  <2>. QED
    BY <1>0, <1>1, <1>2, <2>1, <2>2 DEF Waits
<1>6. Won(h)'
  BY <1>0, <1>1, <1>2 DEF Won
<1>7. Woken(h)'
  <2>1. \A c \in Channel : closed[c] => closed'[c]
    BY DEF Alone
  <2>. QED
    BY <1>0, <1>1, <2>1 DEF Woken
<1>8. Wakes(h)'
  <2>. SUFFICES ASSUME NEW s \in wake[h]
                PROVE  /\ pc'[s[1]] = "park" /\ s[2] \in DOMAIN op'[s[1]].cases
                       /\ CaseChan(s[1], s[2])' \in Channel
                       /\ op'[h].kind = "close" =>
                            param'[s[1]] = s[2] /\ closed'[CaseChan(s[1], s[2])']
    BY <1>0 DEF Wakes
  <2>1. s \in Sudog
    BY DEF IInv, TypeOK, WakeOK
  <2>2. PICK y \in G : y = s[1]
    BY <2>1 DEF Sudog
  <2>3. UNCHANGED <<pc[y], op[y], param[y]>>
    <3>1. CASE y = g
      BY <2>2, <3>1 DEF Chosen
    <3>2. CASE y # g
      BY <3>2 DEF Alone
    <3>. QED
      BY <3>1, <3>2
  <2>4. CaseChan(y, s[2])' = CaseChan(y, s[2])
    BY <2>3 DEF CaseChan
  <2>. QED
    BY <1>0, <2>2, <2>3, <2>4 DEF Wakes, Alone
<1>. QED
  BY <1>3, <1>5, <1>6, <1>7, <1>8 DEF GInv

\* Nobody waits for a goroutine that is not parked.
LEMMA NotChosen ==
  ASSUME SInv, NEW g \in G, pc[g] # "park"
  PROVE  ~Chosen(g)
BY DEF SInv, GInv, Wakes, Chosen

\* A goroutine that does not wait, before or after the step.
LEMMA IdleSelf ==
  ASSUME IInv, SInv, NEW g \in G, Alone(g),
         \A c \in Channel, dir \in Dir, i \in Nat :
           InQ(c, dir, <<g, i>>)' => InQ(c, dir, <<g, i>>),
         selectDone'[g] = selectDone[g],
         pc[g] \notin Waiting, pc'[g] \notin Waiting, pc'[g] # "throw",
         wake[g] # {} => pc'[g] \in {"closing", "ready"} /\ op'[g] = op[g]
  PROVE  GInv(g)'
<1>0. wake' = wake /\ Sudogs(g) /\ Won(g) /\ Wakes(g) /\ ~Chosen(g)
  BY NotChosen DEF Alone, SInv, GInv, Waiting
<1>1. ~Chosen(g)'
  BY <1>0 DEF Chosen
<1>2. \A c \in Channel, dir \in Dir, i \in Nat : ~InQ(c, dir, <<g, i>>)'
  BY <1>0 DEF Sudogs
<1>3. Sudogs(g)'
  BY <1>2 DEF Sudogs
<1>4. Waits(g)' /\ Woken(g)'
  BY DEF Waits, Woken, Waiting
<1>5. Won(g)'
  <2>1. ~selectDone'[g]
    BY <1>0 DEF Won, Waiting
  <2>2. pc'[g] \notin {"woken", "relock"}
    BY DEF Waiting
  <2>. QED
    BY <1>1, <2>1, <2>2 DEF Won
<1>6. Wakes(g)'
  <2>. SUFFICES ASSUME NEW s \in wake[g]
                PROVE  /\ pc'[g] \in {"closing", "ready"}
                       /\ pc'[s[1]] = "park" /\ s[2] \in DOMAIN op'[s[1]].cases
                       /\ CaseChan(s[1], s[2])' \in Channel
                       /\ op'[g].kind = "close" =>
                            param'[s[1]] = s[2] /\ closed'[CaseChan(s[1], s[2])']
    BY <1>0 DEF Wakes
  <2>1. s \in Sudog
    BY DEF IInv, TypeOK, WakeOK
  <2>2. PICK y \in G \ {g} : y = s[1]
    BY <1>0, <2>1 DEF Sudog, Wakes, Waiting
  <2>3. UNCHANGED <<pc[y], op[y], param[y]>>
    BY DEF Alone
  <2>4. CaseChan(y, s[2])' = CaseChan(y, s[2])
    BY <2>3 DEF CaseChan
  <2>. QED
    BY <1>0, <2>2, <2>3, <2>4 DEF Wakes, Alone
<1>. QED
  BY <1>3, <1>4, <1>5, <1>6 DEF GInv

\* Queues are left alone, or emptied of stale sudogs.
DropsStale ==
  \A c \in Channel :
    /\ recvq'[c] = recvq[c] \/ (Live(recvq[c]) = {} /\ recvq'[c] = <<>>)
    /\ sendq'[c] = sendq[c] \/ (Live(sendq[c]) = {} /\ sendq'[c] = <<>>)

LEMMA DropsFacts ==
  ASSUME DropsStale, NEW c \in Channel, NEW dir \in Dir, NEW s
  PROVE  /\ InQ(c, dir, s)' => InQ(c, dir, s)
         /\ InQ(c, dir, s) /\ ~Stale(s) => InQ(c, dir, s)'
<1>1. \/ Queue(c, dir)' = Queue(c, dir)
      \/ Live(Queue(c, dir)) = {} /\ Queue(c, dir)' = <<>>
  BY DEF DropsStale, Queue
<1>2. InQ(c, dir, s)' <=> In(Queue(c, dir)', s)
  BY DEF InQ, In
<1>3. CASE Queue(c, dir)' = Queue(c, dir)
  BY <1>2, <1>3 DEF InQ
<1>4. CASE Live(Queue(c, dir)) = {} /\ Queue(c, dir)' = <<>>
  BY <1>2, <1>4 DEF InQ, In, Live
<1>. QED
  BY <1>1, <1>3, <1>4

\* A step of a goroutine that passes by.
LEMMA PassBy ==
  ASSUME IInv, SInv, NEW g \in G, Alone(g), DropsStale, selectDone'[g] = selectDone[g],
         pc[g] \notin Waiting, pc'[g] \notin Waiting, pc'[g] # "throw",
         wake[g] # {} => pc'[g] \in {"closing", "ready"} /\ op'[g] = op[g]
  PROVE  \A h \in G : GInv(h)'
<1>1. OthersQ(g)
  BY DropsFacts DEF OthersQ
<1>2. ~Chosen(g)
  BY NotChosen DEF Waiting
<1>3. GInv(g)'
  BY DropsFacts, IdleSelf
<1>. QED
  BY <1>1, <1>2, <1>3, OthersKeep

-----------------------------------------------------------------------------
(* Locks and closed channels.                                              *)

\* A channel is closed by whoever finds it unlocked.
CloseFrame(g) == \A c \in Channel : /\ closed[c] => closed'[c]
                                    /\ lock[c] # NoG => closed'[c] = closed[c]

LEMMA KeepsOther ==
  ASSUME IInv, SInv, NEW g \in G, GoFrame(g), ChanFrame(g), CloseFrame(g), NEW h \in G \ {g}
  PROVE  Keeps(h)'
<1>0. /\ UNCHANGED <<op[h], lockorder[h], pos[h], polled[h], commit[h]>>
      /\ pc'[h] = pc[h] \/ pc'[h] = "woken"
      /\ OpFits(h) /\ Holds(h) /\ Polled(h) /\ Keeps(h)
  BY DEF GoFrame, IInv, OpInv, LockInv, PolledInv, SInv
<1>1. \A i : CaseChan(h, i)' = CaseChan(h, i)
  BY <1>0 DEF CaseChan
<1>2. (\A k : LockChan(h, k)' = LockChan(h, k)) /\ Ch(h)' = Ch(h)
  BY <1>0 DEF LockChan, CaseChan, Ch
<1>3. \A c \in Channel : lock[c] = h => lock'[c] = h /\ closed'[c] = closed[c]
  BY GAssumption DEF ChanFrame, CloseFrame
<1>4. pos[h] \in Nat /\ Len(lockorder[h]) \in Nat
  BY DEF IInv, TypeOK, SelOK
<1>5. pc[h] \in {"sellock", "pass2", "relock", "pass3"} =>
        /\ IsSelect(h) /\ pos[h] <= Len(lockorder[h])
        /\ \A k \in 1..Len(lockorder[h]) : LockChan(h, k) \in Channel
  BY <1>0, LockOrderFacts DEF IInv, OpFits
<1>6. pc'[h] = "relock" => \A k \in 1..pos[h] : lock'[LockChan(h, k)] = h
  BY <1>0, <1>3, <1>4, <1>5 DEF Keeps
<1>7. pc'[h] = "pass3" => \A k \in 1..Len(lockorder[h]) : lock'[LockChan(h, k)] = h
  BY <1>0, <1>3, <1>4, <1>5 DEF Keeps
<1>8. ASSUME pc'[h] \in {"sellock", "pass2"}, NEW i \in polled[h]
      PROVE  ~closed'[CaseChan(h, i)]
  <2>1. pc[h] \in {"sellock", "pass2"} /\ IsSelect(h)
    BY <1>0, <1>5, <1>8
  <2>2. PolledCase(h, i) /\ ~closed[CaseChan(h, i)]
    BY <1>0, <2>1 DEF Polled, Keeps
  <2>3. PICK k \in 1..Len(lockorder[h]) : LockChan(h, k) = CaseChan(h, i)
    BY <2>1, <2>2, LockOrderFacts DEF PolledCase, IInv
  <2>4. lock[CaseChan(h, i)] = h /\ CaseChan(h, i) \in Channel
    BY <1>0, <1>4, <1>5, <2>1, <2>3 DEF Holds, Polled, AllLocked
  <2>. QED
    BY <1>3, <2>2, <2>4
<1>9. pc'[h] = "closing" => op[h].kind = "close" /\ closed'[Ch(h)]
  <2>1. pc[h] = "closing" => Ch(h) \in Channel /\ op[h].kind = "close" /\ closed[Ch(h)]
    BY <1>0 DEF OpFits, ChanPC, Keeps
  <2>. QED
    BY <1>0, <2>1 DEF CloseFrame
<1>. QED
  BY <1>0, <1>1, <1>2, <1>6, <1>7, <1>8, <1>9 DEF Keeps

\* Channels that are not closed by the step and get no waiters if they are closed.
LEMMA DrainedKeeps ==
  ASSUME SInv, NEW c \in Channel, NoDup(recvq'[c]), NoDup(sendq'[c]), closed'[c] = closed[c],
         closed[c] => /\ recvq[c] = <<>> => recvq'[c] = <<>>
                      /\ sendq[c] = <<>> => sendq'[c] = <<>>,
         \A h \in G : pc[h] = "closing" => pc'[h] = "closing" /\ op'[h] = op[h]
  PROVE  Drained(c)'
<1>1. Drained(c)
  BY DEF SInv
<1>2. \A h \in G : pc[h] = "closing" /\ Ch(h) = c => pc'[h] = "closing" /\ Ch(h)' = c
  BY DEF Ch, CaseChan
<1>3. NoDup(recvq[c])' /\ NoDup(sendq[c])'
  BY DEF NoDup
<1>. QED
  BY <1>1, <1>2, <1>3 DEF Drained

LEMMA DrainedStale ==
  ASSUME SInv, NEW c \in Channel, DropsStale, closed'[c] = closed[c],
         \A h \in G : pc[h] = "closing" => pc'[h] = "closing" /\ op'[h] = op[h]
  PROVE  Drained(c)'
<1>1. NoDup(recvq[c]) /\ NoDup(sendq[c]) /\ NoDup(<<>>)
  BY DEF SInv, Drained, NoDup
<1>2. recvq'[c] \in {recvq[c], <<>>} /\ sendq'[c] \in {sendq[c], <<>>}
  BY DEF DropsStale
<1>. QED
  BY <1>1, <1>2, DrainedKeeps

\* SInv from its parts.
LEMMA Assemble ==
  ASSUME IInv, SInv, NEW g \in G, GoFrame(g), ChanFrame(g), CloseFrame(g),
         \A h \in G : GInv(h)', Keeps(g)', \A c \in Channel : Drained(c)'
  PROVE  SInv'
<1>1. \A h \in G : Keeps(h)'
  BY KeepsOther
<1>. QED
  BY <1>1 DEF SInv

\* The same for a step of a goroutine that passes by and closes nothing.
LEMMA PassByAll ==
  ASSUME IInv, SInv, NEW g \in G, GoFrame(g), ChanFrame(g), Alone(g), DropsStale,
         UNCHANGED closed, selectDone'[g] = selectDone[g],
         pc[g] \notin Waiting, pc'[g] \notin Waiting, pc'[g] # "throw", pc[g] # "closing",
         wake[g] # {} => pc'[g] \in {"closing", "ready"} /\ op'[g] = op[g], Keeps(g)'
  PROVE  SInv'
<1>1. CloseFrame(g)
  BY DEF CloseFrame
<1>2. \A h \in G : GInv(h)'
  BY PassBy
<1>3. \A h \in G : pc[h] = "closing" => pc'[h] = "closing" /\ op'[h] = op[h]
  BY DEF Alone
<1>4. \A c \in Channel : Drained(c)'
  BY <1>3, DrainedStale
<1>. QED
  BY <1>1, <1>2, <1>4, Assemble

-----------------------------------------------------------------------------
(* Steps of goroutines that pass by.                                       *)

\* g goes from one point where it does not wait to another, and changes only the
\* buffer, its slot and its locals.
LEMMA PassSimple ==
  ASSUME IInv, SInv, NEW g \in G, GoFrame(g), ChanFrame(g), DropsStale,
         UNCHANGED <<op, lockorder, pos, selectDone, param, success, wake, closed>>,
         pc[g] \notin Waiting \cup {"closing", "ready"},
         NEW l \in (ChanPC \cup {"idle"}) \ {"closing"}, pc' = [pc EXCEPT ![g] = l]
  PROVE  SInv'
<1>0. pc \in [G -> PC]
  BY DEF IInv, TypeOK, RunOK
<1>1. pc'[g] = l /\ \A h \in G \ {g} : pc'[h] = pc[h]
  BY <1>0
<1>2. Alone(g)
  BY <1>1 DEF Alone
<1>3. pc'[g] \notin Waiting /\ pc'[g] # "throw" /\ Keeps(g)'
  BY <1>1 DEF ChanPC, Waiting, Keeps
<1>4. wake[g] = {}
  BY DEF SInv, GInv, Wakes
<1>. QED
  BY <1>2, <1>3, <1>4, PassByAll

LEMMA SameQueues ==
  ASSUME UNCHANGED <<recvq, sendq>>
  PROVE  DropsStale
BY DEF DropsStale

\* The first dequeue of a send or a receive that finds nobody.
LEMMA NobodyDrops ==
  ASSUME TypeOK, NEW c \in Channel, NoReceiver(c) \/ NoSender(c)
  PROVE  DropsStale
<1>1. DOMAIN recvq = Channel /\ DOMAIN sendq = Channel
  BY DEF TypeOK, QueueOK
<1>2. CASE NoReceiver(c)
  BY <1>1, <1>2 DEF NoReceiver, dequeue, Rest, DropsStale
<1>3. CASE NoSender(c)
  BY <1>1, <1>3 DEF NoSender, dequeue, Rest, DropsStale
<1>. QED
  BY <1>2, <1>3

LEMMA PassChansend ==
  ASSUME IInv, SInv, NEW g \in G,
         \/ sendClosed(g) \/ sendFull(g) \/ sendFullFirst(g) \/ sendClosedLast(g)
         \/ chansendClosed(g) \/ chansendBuffer(g) \/ chansendFail(g)
  PROVE  SInv'
<1>1. GoFrame(g) /\ ChanFrame(g)
  BY StepChansend DEF Chansend
<1>2. UNCHANGED <<op, lockorder, pos, selectDone, param, success, wake, closed>>
  BY DEF sendClosed, sendFull, sendFullFirst, sendClosedLast, chansendClosed, chansendBuffer,
         chansendFail, Enter, bufsend, chanVars, wakeVars, selVars, bufVars
<1>3. pc[g] \in ChanPC \ {"closing"}
  BY DEF sendClosed, sendFull, sendFullFirst, sendClosedLast, chansendClosed, chansendBuffer,
         chansendFail, Enter, ChanPC
<1>4. \E l \in (ChanPC \cup {"idle"}) \ {"closing"} : pc' = [pc EXCEPT ![g] = l]
  BY DEF sendClosed, sendFull, sendFullFirst, sendClosedLast, chansendClosed, chansendBuffer,
         chansendFail, Goto, Return, ChanPC
<1>5. Ch(g) \in Channel /\ TypeOK
  BY <1>3 DEF IInv, OpInv, OpFits
<1>6. DropsStale
  <2>1. CASE \/ sendClosed(g) \/ sendFull(g) \/ sendFullFirst(g) \/ sendClosedLast(g)
             \/ chansendClosed(g)
    BY <2>1, SameQueues DEF sendClosed, sendFull, sendFullFirst, sendClosedLast,
       chansendClosed, chanVars, queueVars
  <2>2. CASE chansendBuffer(g) \/ chansendFail(g)
    BY <1>5, <2>2, NobodyDrops DEF chansendBuffer, chansendFail
  <2>. QED
    BY <2>1, <2>2
<1>. QED
  BY <1>1, <1>2, <1>3, <1>4, <1>6, PassSimple DEF ChanPC, Waiting

LEMMA PassChanrecv ==
  ASSUME IInv, SInv, NEW g \in G,
         \/ recvEmpty(g) \/ recvClosed(g) \/ recvRecheck(g)
         \/ chanrecvClosed(g) \/ chanrecvBuffer(g) \/ chanrecvFail(g)
  PROVE  SInv'
<1>1. GoFrame(g) /\ ChanFrame(g)
  BY StepChanrecv DEF Chanrecv
<1>2. UNCHANGED <<op, lockorder, pos, selectDone, param, success, wake, closed>>
  BY DEF recvEmpty, recvClosed, recvRecheck, chanrecvClosed, chanrecvBuffer,
         chanrecvFail, Enter, bufrecv, chanVars, wakeVars, selVars, bufVars
<1>3. pc[g] \in ChanPC \ {"closing"}
  BY DEF recvEmpty, recvClosed, recvRecheck, chanrecvClosed, chanrecvBuffer,
         chanrecvFail, Enter, ChanPC
<1>4. \E l \in (ChanPC \cup {"idle"}) \ {"closing"} : pc' = [pc EXCEPT ![g] = l]
  BY DEF recvEmpty, recvClosed, recvRecheck, chanrecvClosed, chanrecvBuffer,
         chanrecvFail, Goto, Return, ChanPC
<1>5. Ch(g) \in Channel /\ TypeOK
  BY <1>3 DEF IInv, OpInv, OpFits
<1>6. DropsStale
  <2>1. CASE \/ recvEmpty(g) \/ recvClosed(g) \/ recvRecheck(g) \/ chanrecvClosed(g)
    BY <2>1, SameQueues DEF recvEmpty, recvClosed, recvRecheck, chanrecvClosed,
       chanVars, queueVars
  <2>2. CASE chanrecvBuffer(g) \/ chanrecvFail(g)
    BY <1>5, <2>2, NobodyDrops, SameQueues DEF chanrecvBuffer, chanrecvFail, queueVars
  <2>. QED
    BY <2>1, <2>2
<1>. QED
  BY <1>1, <1>2, <1>3, <1>4, <1>6, PassSimple DEF ChanPC, Waiting

\* closechan on a closed channel, operations on the nil channel.
LEMMA PassOther ==
  ASSUME IInv, SInv, NEW g \in G, closechanClosed(g) \/ nilchan(g)
  PROVE  SInv'
<1>1. GoFrame(g) /\ ChanFrame(g)
  BY StepClosechan, StepOther DEF Closechan
<1>2. UNCHANGED <<op, lockorder, pos, selectDone, param, success, wake, closed, recvq, sendq>>
  BY DEF closechanClosed, nilchan, chanVars, wakeVars, selVars
<1>3. pc[g] \in {"lock", "nil"} /\ pc' = [pc EXCEPT ![g] = "idle"]
  BY DEF closechanClosed, nilchan, Return, Goto
<1>. QED
  BY <1>1, <1>2, <1>3, SameQueues, PassSimple DEF Waiting, ChanPC

\* The cases of pass 1 that complete with nobody, and the default.
LEMMA PassPass1 ==
  ASSUME IInv, SInv, NEW g \in G,
         \/ \E i \in DOMAIN op[g].cases : \/ selectBufrecv(g, i) \/ selectRclose(g, i)
                                          \/ selectBufsend(g, i) \/ selectSclose(g, i)
         \/ selectDefault(g)
  PROVE  SInv'
<1>1. GoFrame(g) /\ ChanFrame(g)
  BY StepPass1 DEF SelectPass1
<1>2. UNCHANGED <<op, lockorder, pos, selectDone, param, success, wake, closed>>
  BY DEF selectBufrecv, selectRclose, selectBufsend, selectSclose, selectDefault, Poll,
         bufsend, bufrecv, wakeVars, selVars
<1>3. pc[g] = "sellock" /\ pc' = [pc EXCEPT ![g] = "idle"]
  BY DEF selectBufrecv, selectRclose, selectBufsend, selectSclose, selectDefault, Poll, NoCase,
         Return, Goto
<1>4. DropsStale
  <2>1. CASE selectDefault(g)
    BY <2>1, SameQueues DEF selectDefault, queueVars
  <2>2. CASE \E i \in DOMAIN op[g].cases : selectSclose(g, i)
    BY <2>2, SameQueues DEF selectSclose, queueVars
  <2>3. ASSUME NEW i \in DOMAIN op[g].cases,
               selectBufrecv(g, i) \/ selectRclose(g, i) \/ selectBufsend(g, i)
        PROVE  DropsStale
    <3>1. CaseChan(g, i) # Nil
      BY <2>3 DEF selectBufrecv, selectRclose, selectBufsend, Poll
    <3>2. CaseChan(g, i) \in Channel /\ TypeOK
      BY <3>1, CasePlace DEF IInv
    <3>. QED
      BY <2>3, <3>2, NobodyDrops DEF selectBufrecv, selectRclose, selectBufsend
  <2>. QED
    BY <2>1, <2>2, <2>3
<1>. QED
  BY <1>1, <1>2, <1>3, <1>4, PassSimple DEF Waiting, ChanPC

\* A case that cannot proceed is not closed.
LEMMA PassNext ==
  ASSUME IInv, SInv, NEW g \in G, NEW i \in DOMAIN op[g].cases, selectNext(g, i)
  PROVE  SInv'
<1>1. GoFrame(g) /\ ChanFrame(g)
  BY StepPass1 DEF SelectPass1
<1>2. UNCHANGED <<op, lockorder, pos, selectDone, param, success, wake, closed, pc>>
  BY DEF selectNext, Poll
<1>3. /\ pc[g] = "sellock" /\ CaseChan(g, i) # Nil /\ ~closed[CaseChan(g, i)]
      /\ polled' = [polled EXCEPT ![g] = @ \cup {i}]
  BY DEF selectNext, Poll
<1>4. CaseChan(g, i) \in Channel /\ TypeOK /\ polled \in [G -> SUBSET Nat]
  BY <1>3, CasePlace DEF IInv, TypeOK, SelOK
<1>5. DropsStale
  BY <1>4, NobodyDrops DEF selectNext
<1>6. Alone(g)
  BY <1>2 DEF Alone
<1>7. wake[g] = {}
  BY <1>3 DEF SInv, GInv, Wakes
<1>8. Keeps(g)'
  <2>1. Keeps(g) /\ polled'[g] = polled[g] \cup {i}
    BY <1>3, <1>4 DEF SInv
  <2>2. \A j : CaseChan(g, j)' = CaseChan(g, j)
    BY <1>2 DEF CaseChan
  <2>. QED
    BY <1>2, <1>3, <2>1, <2>2 DEF Keeps
<1>. QED
  BY <1>1, <1>2, <1>3, <1>5, <1>6, <1>7, <1>8, PassByAll DEF Waiting

\* Calls.
LEMMA PassCall ==
  ASSUME IInv, SInv, NEW g \in G, NEW o \in Ops,
         CallChan(g, o) \/ CallNil(g, o) \/ CallSelect(g, o)
  PROVE  SInv'
<1>0. /\ pc \in [G -> PC] /\ pos \in [G -> Nat] /\ op \in [G -> Ops \cup {NoOp}]
      /\ polled \in [G -> SUBSET Nat] /\ lockorder \in [G -> Seq(Nat)]
  BY DEF IInv, TypeOK, RunOK, SelOK
<1>1. GoFrame(g) /\ ChanFrame(g)
  BY StepCall
<1>2. /\ UNCHANGED <<selectDone, param, success, wake, closed, recvq, sendq>>
      /\ pc[g] = "idle" /\ op' = [op EXCEPT ![g] = o]
  BY DEF CallChan, CallNil, CallSelect, Call, chanVars, wakeVars
<1>3. PICK l \in (ChanPC \cup {"nil", "sellock"}) \ {"closing"} : pc' = [pc EXCEPT ![g] = l]
  BY DEF CallChan, CallNil, CallSelect, Goto, ChanPC
<1>4. pc'[g] = l /\ \A h \in G \ {g} : pc'[h] = pc[h] /\ op'[h] = op[h]
  BY <1>0, <1>2, <1>3
<1>5. \A h \in G \ {g} : lockorder'[h] = lockorder[h] /\ pos'[h] = pos[h]
  BY <1>1 DEF GoFrame
<1>6. Alone(g)
  BY <1>2, <1>4, <1>5 DEF Alone
<1>7. Keeps(g)'
  <2>1. CASE l = "sellock"
    <3>1. polled' = [polled EXCEPT ![g] = {}]
      <4>1. CallSelect(g, o)
        BY <1>3, <1>4, <2>1, <1>0 DEF CallChan, CallNil, Goto
      <4>. QED
        BY <4>1 DEF CallSelect
    <3>2. polled'[g] = {}
      BY <1>0, <3>1
    <3>. QED
      BY <1>4, <2>1, <3>2 DEF Keeps
  <2>2. CASE l # "sellock"
    BY <1>4, <2>2 DEF Keeps, ChanPC
  <2>. QED
    BY <2>1, <2>2
<1>8. wake[g] = {}
  BY <1>2 DEF SInv, GInv, Wakes
<1>9. l \notin Waiting /\ l # "throw"
  BY DEF Waiting, ChanPC
<1>. QED
  BY <1>1, <1>2, <1>4, <1>6, <1>7, <1>8, <1>9, SameQueues, PassByAll DEF Waiting

\* sellock, before pass 1.
LEMMA PassSellock ==
  ASSUME IInv, SInv, NEW g \in G, sellock(g), pc[g] = "sellock"
  PROVE  SInv'
<1>0. pos \in [G -> Nat]
  BY DEF IInv, TypeOK, SelOK
<1>1. GoFrame(g) /\ ChanFrame(g)
  BY StepSellock
<1>2. /\ UNCHANGED <<op, lockorder, selectDone, param, success, wake, closed, pc, recvq, sendq,
                    polled>>
      /\ pos' = [pos EXCEPT ![g] = @ + 1]
  BY DEF sellock, wakeVars, queueVars
<1>3. Alone(g)
  BY <1>0, <1>2 DEF Alone
<1>4. Keeps(g)'
  <2>1. Keeps(g) /\ \A j : CaseChan(g, j)' = CaseChan(g, j)
    BY <1>2 DEF SInv, CaseChan
  <2>. QED
    BY <1>2, <2>1 DEF Keeps
<1>5. wake[g] = {}
  BY DEF SInv, GInv, Wakes
<1>. QED
  BY <1>1, <1>2, <1>3, <1>4, <1>5, SameQueues, PassByAll DEF Waiting

-----------------------------------------------------------------------------
(* closechan, except for the waiters it releases.                          *)

LEMMA CloseBegin ==
  ASSUME IInv, SInv, NEW g \in G, closechan(g)
  PROVE  SInv'
<1>0. /\ pc \in [G -> PC] /\ closed \in [Channel -> BOOLEAN]
      /\ pc[g] = "lock" /\ op[g].kind = "close" /\ lock[Ch(g)] = NoG
      /\ closed' = [closed EXCEPT ![Ch(g)] = TRUE] /\ pc' = [pc EXCEPT ![g] = "closing"]
      /\ UNCHANGED <<recvq, sendq, op, lockorder, pos, selectDone, param, success, wake>>
  BY DEF IInv, TypeOK, RunOK, BufOK, closechan, Goto, queueVars, wakeVars, selVars
<1>1. GoFrame(g) /\ ChanFrame(g)
  BY StepClosechan DEF Closechan
<1>2. /\ Ch(g) \in Channel /\ Ch(g)' = Ch(g) /\ closed'[Ch(g)]
      /\ \A c \in Channel \ {Ch(g)} : closed'[c] = closed[c]
      /\ pc'[g] = "closing" /\ \A h \in G \ {g} : pc'[h] = pc[h]
  BY <1>0 DEF IInv, OpInv, OpFits, ChanPC, Ch, CaseChan
<1>3. CloseFrame(g)
  BY <1>0, <1>2 DEF CloseFrame
<1>4. Alone(g)
  BY <1>0, <1>2 DEF Alone
<1>5. wake[g] = {}
  BY <1>0 DEF SInv, GInv, Wakes
<1>6. \A h \in G : GInv(h)'
  BY <1>0, <1>2, <1>4, <1>5, SameQueues, PassBy DEF Waiting
<1>7. ASSUME NEW c \in Channel PROVE Drained(c)'
  <2>1. CASE c = Ch(g)
    <3>1. NoDup(recvq[c])' /\ NoDup(sendq[c])'
      BY <1>0 DEF SInv, Drained, NoDup
    <3>. QED
      BY <1>2, <2>1, <3>1 DEF Drained
  <2>2. CASE c # Ch(g)
    BY <1>0, <1>2, <2>2, SameQueues, DrainedStale
  <2>. QED
    BY <2>1, <2>2
<1>8. Keeps(g)'
  BY <1>0, <1>2 DEF Keeps
<1>. QED
  BY <1>1, <1>3, <1>6, <1>7, <1>8, Assemble

LEMMA CloseEnd ==
  ASSUME IInv, SInv, NEW g \in G, closechanUnlock(g)
  PROVE  SInv'
<1>. DEFINE l == IF wake[g] = {} THEN "idle" ELSE "ready"
<1>0. /\ pc \in [G -> PC] /\ DOMAIN recvq = Channel /\ DOMAIN sendq = Channel
      /\ pc[g] = "closing" /\ Live(recvq[Ch(g)]) = {} /\ Live(sendq[Ch(g)]) = {}
      /\ recvq' = dequeue(recvq, Ch(g)) /\ sendq' = dequeue(sendq, Ch(g))
      /\ pc' = [pc EXCEPT ![g] = l]
      /\ UNCHANGED <<closed, op, lockorder, pos, selectDone, param, success, wake>>
  BY DEF IInv, TypeOK, RunOK, QueueOK, closechanUnlock, Goto, queueVars, wakeVars, selVars
<1>1. GoFrame(g) /\ ChanFrame(g)
  BY StepClosechan DEF Closechan
<1>2. /\ Ch(g) \in Channel /\ pc'[g] = l /\ \A h \in G \ {g} : pc'[h] = pc[h]
      /\ recvq'[Ch(g)] = <<>> /\ sendq'[Ch(g)] = <<>>
      /\ \A c \in Channel \ {Ch(g)} : recvq'[c] = recvq[c] /\ sendq'[c] = sendq[c]
  BY <1>0 DEF IInv, OpInv, OpFits, ChanPC, dequeue, Rest
<1>3. CloseFrame(g) /\ DropsStale
  BY <1>0, <1>2 DEF CloseFrame, DropsStale
<1>4. Alone(g)
  BY <1>0, <1>2 DEF Alone
<1>6. \A h \in G : GInv(h)'
  BY <1>0, <1>2, <1>3, <1>4, PassBy DEF Waiting
<1>7. ASSUME NEW c \in Channel PROVE Drained(c)'
  <2>0. (NoDup(recvq[c])' <=> NoDup(recvq'[c])) /\ (NoDup(sendq[c])' <=> NoDup(sendq'[c]))
    BY DEF NoDup
  <2>1. CASE c = Ch(g)
    BY <1>2, <2>0, <2>1 DEF Drained, NoDup
  <2>2. CASE c # Ch(g)
    <3>1. Drained(c) /\ recvq'[c] = recvq[c] /\ sendq'[c] = sendq[c]
      BY <1>2, <2>2 DEF SInv
    <3>2. \A h \in G : pc[h] = "closing" /\ Ch(h) = c => pc'[h] = "closing" /\ Ch(h)' = c
      BY <1>0, <1>2, <2>2 DEF Ch, CaseChan
    <3>. QED
      BY <1>0, <2>0, <3>1, <3>2 DEF Drained
  <2>. QED
    BY <2>1, <2>2
<1>8. Keeps(g)'
  BY <1>2 DEF Keeps
<1>. QED
  BY <1>1, <1>3, <1>6, <1>7, <1>8, Assemble

-----------------------------------------------------------------------------
(* Taking a sudog to be woken.                                             *)

\* A send or a receive has one case.
LEMMA SingleCase ==
  ASSUME TypeOK, NEW y \in G, ~IsSelect(y), NEW j \in DOMAIN op[y].cases
  PROVE  j = 1
<1>1. op[y] \in Ops \cup {NoOp} /\ op[y].kind # "select"
  BY DEF TypeOK, RunOK, IsSelect
<1>2. op[y] \in Ops => Len(op[y].cases) = 1
  BY <1>1, OpsAssumption
<1>3. op[y] = NoOp => Len(op[y].cases) = 0
  BY DEF NoOp
<1>4. op[y].cases \in Seq(Case)
  BY OpType
<1>5. Len(op[y].cases) \in {0, 1}
  BY <1>1, <1>2, <1>3
<1>. QED
  BY <1>4, <1>5

\* The sudog dequeue() returns is of a goroutine that is parked and that nobody
\* has taken: a select that is enqueueing or unlinking has the channel locked.
LEMMA LiveParked ==
  ASSUME IInv, SInv, NEW g \in G, NEW c \in Channel, NEW dir \in Dir,
         NEW y \in G, NEW i \in Nat, lock[c] \in {NoG, g}, pc[g] \notin Waiting,
         InQ(c, dir, <<y, i>>), ~Stale(<<y, i>>)
  PROVE  y # g /\ pc[y] = "park" /\ ~Chosen(y)
<1>0. /\ Sudogs(y) /\ Won(y) /\ Keeps(y) /\ Holds(y) /\ OpFits(y) /\ y # NoG
      /\ selectDone[y] \in BOOLEAN /\ pos[y] \in Nat /\ Len(lockorder[y]) \in Nat
  BY GAssumption DEF SInv, GInv, IInv, OpInv, LockInv, TypeOK, WakeOK, SelOK
<1>a. /\ pc[y] \in Waiting
      /\ i \in DOMAIN op[y].cases /\ op[y].cases[i] = [c |-> c, dir |-> dir]
      /\ ~Picked(<<y, i>>)
      /\ ~IsSelect(y) => pc[y] = "park"
      /\ Reached(y, i)
  BY <1>0 DEF Sudogs
<1>1. /\ pc[y] \in Waiting /\ i \in DOMAIN op[y].cases /\ CaseChan(y, i) = c
      /\ ~Picked(<<y, i>>) /\ (~IsSelect(y) => pc[y] = "park")
  BY <1>a DEF CaseChan
<1>2. y # g
  BY <1>1
<1>3. CASE ~IsSelect(y)
  <2>2. \A j \in DOMAIN op[y].cases : j = 1
    BY <1>3, SingleCase DEF IInv
  <2>3. ASSUME NEW h \in G, NEW s \in wake[h], s[1] = y PROVE FALSE
    <3>1. s \in Sudog /\ s[2] \in DOMAIN op[y].cases
      BY <2>3 DEF IInv, TypeOK, WakeOK, SInv, GInv, Wakes
    <3>2. s = <<y, i>>
      BY <1>1, <2>2, <2>3, <3>1 DEF Sudog
    <3>. QED
      BY <1>1, <3>2 DEF Picked
  <2>. QED
    BY <1>1, <1>2, <1>3, <2>3 DEF Chosen
<1>4. CASE IsSelect(y)
  <2>1. pc[y] \in {"pass2", "park", "pass3"} /\ ~Chosen(y)
    BY <1>0, <1>1, <1>4 DEF Stale, Won, Waiting
  <2>2. ASSUME NEW k \in 1..Len(lockorder[y]), lockorder[y][k] = i, lock[LockChan(y, k)] = y
        PROVE  FALSE
    BY <1>0, <1>1, <1>2, <1>4, <2>2, OrderPlace
  <2>3. pc[y] # "pass2"
    <3>1. ASSUME pc[y] = "pass2" PROVE FALSE
      <4>1. PICK k \in 1..Len(lockorder[y]) : lockorder[y][k] = i
        BY <1>0, <1>a, <3>1 DEF OpFits, Reached
      <4>. QED
        BY <1>0, <2>2, <3>1, <4>1 DEF Holds
    <3>. QED
      BY <3>1
  <2>4. pc[y] # "pass3"
    <3>1. ASSUME pc[y] = "pass3" PROVE FALSE
      <4>1. PICK k \in 1..Len(lockorder[y]) : lockorder[y][k] = i
        BY <1>0, <1>a, <3>1 DEF Reached
      <4>. QED
        BY <1>0, <2>2, <3>1, <4>1 DEF Keeps
    <3>. QED
      BY <3>1
  <2>. QED
    BY <1>2, <2>1, <2>3, <2>4
<1>. QED
  BY <1>3, <1>4

\* g takes the sudog <<y, i>>, which is in the queue of c for dir, and drops
\* stale ones at most besides.
Takes(g, c, dir, y, i) ==
  /\ pc[g] \notin Waiting /\ pc'[g] \in {"ready", "closing"}
  /\ \A h \in G \ {g} : pc'[h] = pc[h]
  /\ y # g /\ pc[y] = "park" /\ ~Chosen(y)
  /\ InQ(c, dir, <<y, i>>) /\ ~InQ(c, dir, <<y, i>>)'
  /\ wake'[g] = wake[g] \cup {<<y, i>>} /\ \A h \in G \ {g} : wake'[h] = wake[h]
  /\ selectDone'[y] = (selectDone[y] \/ IsSelect(y))
  /\ \A h \in G \ {y} : UNCHANGED <<selectDone[h], param[h], success[h]>>
  /\ op[g].kind = "close" => param'[y] = i /\ closed[c]
  /\ UNCHANGED <<op, closed, lockorder, pos>>
  /\ \A d \in Channel, e \in Dir, h \in G, j \in Nat :
       /\ InQ(d, e, <<h, j>>)' => InQ(d, e, <<h, j>>)
       /\ InQ(d, e, <<h, j>>) /\ ~Stale(<<h, j>>) /\ <<h, j>> # <<y, i>> =>
            InQ(d, e, <<h, j>>)'

LEMMA TakeSudog ==
  ASSUME IInv, SInv, NEW g \in G, NEW c \in Channel, NEW dir \in Dir, NEW y \in G, NEW i \in Nat,
         Takes(g, c, dir, y, i), NEW h \in G
  PROVE  GInv(h)'
<1>. USE DEF Takes
<1>0. /\ Sudogs(h) /\ Waits(h) /\ Won(h) /\ Woken(h) /\ Wakes(h)
      /\ Sudogs(y) /\ Won(y) /\ TypeOK
  BY DEF SInv, GInv, IInv
<1>a. /\ i \in DOMAIN op[y].cases /\ op[y].cases[i] = [c |-> c, dir |-> dir]
      /\ CaseChan(y, i) = c
  BY <1>0 DEF Sudogs, CaseChan
<1>b. \A s : Picked(s)' <=> Picked(s) \/ s = <<y, i>>
  BY DEF Picked
<1>c. \A x \in G : Chosen(x)' <=> Chosen(x) \/ x = y
  BY DEF Chosen
<1>d. \A x, j : /\ CaseChan(x, j)' = CaseChan(x, j) /\ CaseDir(x, j)' = CaseDir(x, j)
                /\ IsSelect(x)' = IsSelect(x) /\ Ch(x)' = Ch(x)
  BY DEF CaseChan, CaseDir, IsSelect, Ch
<1>e. ~Chosen(g)
  BY NotChosen DEF Waiting
<1>1. Sudogs(h)'
  <2>. SUFFICES ASSUME NEW d \in Channel, NEW e \in Dir, NEW j \in Nat, InQ(d, e, <<h, j>>)'
                PROVE  /\ pc'[h] \in Waiting
                       /\ j \in DOMAIN op'[h].cases /\ op'[h].cases[j] = [c |-> d, dir |-> e]
                       /\ ~Picked(<<h, j>>)'
                       /\ ~IsSelect(h)' => pc'[h] = "park"
                       /\ pc'[h] \in {"woken", "relock", "pass3"} => j # param'[h]
                       /\ Reached(h, j)'
    BY DEF Sudogs
  <2>1. InQ(d, e, <<h, j>>)
    OBVIOUS
  <2>2. /\ pc[h] \in Waiting
        /\ j \in DOMAIN op[h].cases /\ op[h].cases[j] = [c |-> d, dir |-> e]
        /\ ~Picked(<<h, j>>)
        /\ ~IsSelect(h) => pc[h] = "park"
        /\ pc[h] \in {"woken", "relock", "pass3"} => j # param[h]
        /\ Reached(h, j)
    BY <1>0, <2>1 DEF Sudogs
  <2>3. h # g /\ pc'[h] = pc[h]
    BY <2>2
  <2>4. <<h, j>> # <<y, i>>
    <3>1. ASSUME h = y, j = i PROVE FALSE
      <4>1. [c |-> c, dir |-> dir] = [c |-> d, dir |-> e]
        BY <1>a, <2>2, <3>1
      <4>2. d = c /\ e = dir
        BY <4>1
      <4>. QED
        BY <3>1, <4>2
    <3>. QED
      BY <3>1
  <2>5. Reached(h, j)'
    BY <2>2, <2>3 DEF Reached
  <2>6. pc[h] \in {"woken", "relock", "pass3"} => param'[h] = param[h]
    BY <2>2
  <2>. QED
    BY <1>b, <1>d, <2>2, <2>3, <2>4, <2>5, <2>6
<1>2. ASSUME NEW j \in DOMAIN op[h].cases, CaseChan(h, j) # Nil, Queued(h, j), h # y,
             pc[h] = "pass2" \/ (pc[h] = "park" /\ ~Chosen(h))
      PROVE  Queued(h, j)'
  <2>1. /\ CaseChan(h, j) \in Channel /\ CaseDir(h, j) \in Dir /\ j \in Nat
        /\ InQ(CaseChan(h, j), CaseDir(h, j), <<h, j>>)
    BY <1>0, <1>2, CasePlace
  <2>2. ~Stale(<<h, j>>)
    BY <1>2, StaleWon
  <2>3. \A d \in Channel, e \in Dir : InQ(d, e, <<h, j>>) => InQ(d, e, <<h, j>>)'
    BY <1>2, <2>1, <2>2
  <2>4. \A d \in Channel, e \in Dir : InQ(d, e, <<h, j>>)' <=> In(Queue(d, e)', <<h, j>>)
    BY DEF InQ, In
  <2>. QED
    BY <1>d, <2>1, <2>3, <2>4 DEF Queued, In, Queue
<1>3. Waits(h)'
  <2>0. pc'[h] \in {"park", "pass2"} => pc'[h] = pc[h]
    OBVIOUS
  <2>1. ASSUME pc'[h] = "park", ~Chosen(h)', NEW j \in DOMAIN op[h].cases, CaseChan(h, j) # Nil
        PROVE  Queued(h, j)'
    <3>1. pc[h] = "park" /\ ~Chosen(h) /\ h # y
      BY <1>c, <2>0, <2>1
    <3>. QED
      BY <1>0, <1>2, <2>1, <3>1 DEF Waits
  <2>2. ASSUME pc'[h] = "pass2", NEW j \in DOMAIN op[h].cases,
               \E k \in 1..pos[h] : lockorder[h][k] = j
        PROVE  Queued(h, j)'
    <3>0. pc[h] = "pass2" /\ h # y
      BY <2>0, <2>2
    <3>1. IsSelect(h) /\ pos[h] <= Len(lockorder[h]) /\ pos[h] \in Nat /\ Len(lockorder[h]) \in Nat
      BY <3>0 DEF IInv, OpInv, OpFits, TypeOK, SelOK
    <3>2. PICK k \in 1..Len(lockorder[h]) : lockorder[h][k] = j
      BY <2>2, <3>1
    <3>3. CaseChan(h, j) # Nil
      BY <3>1, <3>2, OrderPlace
    <3>4. Queued(h, j)
      BY <1>0, <2>2, <3>0 DEF Waits
    <3>. QED
      BY <1>2, <3>0, <3>3, <3>4
  <2>. QED
    BY <1>d, <2>1, <2>2 DEF Waits
<1>4. Won(h)'
  <2>1. CASE h = y
    BY <1>0, <1>c, <1>d, <2>1 DEF Won
  <2>2. CASE h # y
    <3>1. pc'[h] \in {"woken", "relock"} <=> pc[h] \in {"woken", "relock"}
      BY DEF Waiting
    <3>. QED
      BY <1>0, <1>c, <1>d, <2>2, <3>1 DEF Won
  <2>. QED
    BY <2>1, <2>2
<1>5. Woken(h)'
  <2>1. CASE h = g
    BY <2>1 DEF Woken
  <2>2. CASE h = y
    BY <1>0, <2>2 DEF Woken
  <2>3. CASE h # g /\ h # y
    BY <1>0, <1>d, <2>3 DEF Woken
  <2>. QED
    BY <2>1, <2>2, <2>3
<1>6. ASSUME NEW s \in wake'[h]
      PROVE  s \in wake[h] \/ (h = g /\ s = <<y, i>>)
  BY <1>6
<1>7. ASSUME NEW s \in wake[h]
      PROVE  /\ pc'[s[1]] = "park" /\ s[2] \in DOMAIN op'[s[1]].cases
             /\ CaseChan(s[1], s[2])' \in Channel
             /\ op'[h].kind = "close" =>
                  param'[s[1]] = s[2] /\ closed'[CaseChan(s[1], s[2])']
             /\ \A k \in G : \A t \in wake'[k] : s[1] = t[1] => h = k /\ s = t
  <2>1. s \in Sudog
    BY <1>0, <1>7 DEF TypeOK, WakeOK
  <2>2. PICK x \in G : x = s[1]
    BY <2>1 DEF Sudog
  <2>3. x # y /\ x # g
    BY <1>7, <1>e, <2>2 DEF Chosen
  <2>4. ASSUME NEW k \in G, NEW t \in wake'[k], s[1] = t[1] PROVE h = k /\ s = t
    <3>1. t \in wake[k]
      BY <2>2, <2>3, <2>4
    <3>. QED
      BY <1>0, <1>7, <2>4, <3>1 DEF Wakes
  <2>. QED
    BY <1>0, <1>7, <1>d, <2>2, <2>3, <2>4 DEF Wakes
<1>8. ASSUME h = g
      PROVE  /\ pc'[y] = "park" /\ i \in DOMAIN op'[y].cases
             /\ CaseChan(y, i)' \in Channel
             /\ op'[h].kind = "close" => param'[y] = i /\ closed'[CaseChan(y, i)']
             /\ \A k \in G : \A t \in wake'[k] : y = t[1] => h = k /\ <<y, i>> = t
  <2>1. ASSUME NEW k \in G, NEW t \in wake'[k], y = t[1] PROVE h = k /\ <<y, i>> = t
    <3>1. t \notin wake[k]
      BY <2>1 DEF Chosen
    <3>. QED
      BY <1>8, <3>1
  <2>. QED
    BY <1>8, <1>a, <1>d, <2>1
<1>9. Wakes(h)'
  <2>1. wake'[h] # {} => pc'[h] \in {"closing", "ready"}
    BY <1>0 DEF Wakes
  <2>2. <<y, i>>[1] = y /\ <<y, i>>[2] = i
    OBVIOUS
  <2>. QED
    BY <1>6, <1>7, <1>8, <2>1, <2>2 DEF Wakes
<1>. QED
  BY <1>1, <1>3, <1>4, <1>5, <1>9 DEF GInv

\* The whole step: dequeue() on the queue of c for dir returns a sudog, and the
\* other queues are left alone or lose stale ones.
TakesFrom(g, c, dir, l, sg) ==
  /\ lock[c] \in {NoG, g} /\ pc[g] \notin Waiting
  /\ Live(Queue(c, dir)) # {} /\ sg = Queue(c, dir)[First(Queue(c, dir))]
  /\ WinSelect(sg) /\ wake' = [wake EXCEPT ![g] = @ \cup {sg}]
  /\ pc' = [pc EXCEPT ![g] = l] /\ (pc[g] = "closing" <=> l = "closing")
  /\ \A h \in G : h # sg[1] => UNCHANGED <<param[h], success[h]>>
  /\ op[g].kind = "close" => param'[sg[1]] = sg[2] /\ closed[c]
  /\ UNCHANGED <<op, closed, lockorder, pos>>
  /\ Queue(c, dir)' = Rest(Queue(c, dir))
  /\ \A d \in Channel, e \in Dir : d # c \/ e # dir =>
       \/ Queue(d, e)' = Queue(d, e)
       \/ Live(Queue(d, e)) = {} /\ Queue(d, e)' = <<>>

LEMMA TakeStep ==
  ASSUME IInv, SInv, NEW g \in G, GoFrame(g), ChanFrame(g), NEW c \in Channel,
         NEW dir \in Dir, NEW l \in {"ready", "closing"}, NEW sg, TakesFrom(g, c, dir, l, sg)
  PROVE  SInv'
<1>. USE DEF TakesFrom
<1>0. /\ TypeOK /\ pc \in [G -> PC] /\ selectDone \in [G -> BOOLEAN]
      /\ wake \in [G -> SUBSET Sudog]
  BY DEF IInv, TypeOK, RunOK, WakeOK
<1>1. \A d \in Channel, e \in Dir : Queue(d, e) \in Seq(Sudog) /\ NoDup(Queue(d, e))
  BY <1>0 DEF Queue, TypeOK, QueueOK, SInv, Drained
<1>2. \A d \in Channel, e \in Dir : \A s : InQ(d, e, s)' <=> In(Queue(d, e)', s)
  BY DEF InQ, In
<1>. DEFINE q == Queue(c, dir)
<1>3. /\ NoDup(Rest(q)) /\ In(q, sg) /\ ~Stale(sg) /\ sg \in Sudog /\ ~In(Rest(q), sg)
      /\ \A s : In(Rest(q), s) => In(q, s)
      /\ \A s : In(q, s) /\ s # sg /\ ~Stale(s) => In(Rest(q), s)
  BY <1>1, RestFacts
<1>4. PICK y \in G, i \in Nat : sg = <<y, i>>
  BY <1>3 DEF Sudog
<1>5. y # g /\ pc[y] = "park" /\ ~Chosen(y) /\ InQ(c, dir, <<y, i>>) /\ ~InQ(c, dir, <<y, i>>)'
  <2>1. InQ(c, dir, <<y, i>>) /\ ~InQ(c, dir, <<y, i>>)'
    BY <1>2, <1>3, <1>4 DEF InQ
  <2>. QED
    BY <1>3, <1>4, <2>1, LiveParked
<1>6. ASSUME NEW d \in Channel, NEW e \in Dir, NEW s
      PROVE  /\ InQ(d, e, s)' => InQ(d, e, s)
             /\ InQ(d, e, s) /\ ~Stale(s) /\ s # sg => InQ(d, e, s)'
  <2>1. CASE d = c /\ e = dir
    BY <1>2, <1>3, <2>1 DEF InQ
  <2>2. CASE d # c \/ e # dir
    <3>1. CASE Queue(d, e)' = Queue(d, e)
      BY <1>2, <3>1 DEF InQ
    <3>2. CASE Live(Queue(d, e)) = {} /\ Queue(d, e)' = <<>>
      BY <1>2, <3>2 DEF InQ, In, Live
    <3>. QED
      BY <2>2, <3>1, <3>2
  <2>. QED
    BY <2>1, <2>2
<1>7. /\ wake'[g] = wake[g] \cup {<<y, i>>} /\ \A h \in G \ {g} : wake'[h] = wake[h]
      /\ pc'[g] = l /\ \A h \in G \ {g} : pc'[h] = pc[h]
      /\ selectDone'[y] = (selectDone[y] \/ IsSelect(y))
      /\ \A h \in G \ {y} : UNCHANGED <<selectDone[h], param[h], success[h]>>
      /\ op[g].kind = "close" => param'[y] = i /\ closed[c]
  BY <1>0, <1>4 DEF WinSelect
<1>8. \A h \in G : GInv(h)'
  <2>1. Takes(g, c, dir, y, i)
    BY <1>4, <1>5, <1>6, <1>7 DEF Takes
  <2>. QED
    BY <2>1, TakeSudog
<1>9. ASSUME NEW d \in Channel PROVE Drained(d)'
  <2>1. ASSUME NEW e \in Dir
        PROVE  NoDup(Queue(d, e)') /\ (Queue(d, e) = <<>> => Queue(d, e)' = <<>>)
    <3>1. CASE d = c /\ e = dir
      <4>1. q # <<>>
        BY <1>3 DEF In
      <4>. QED
        BY <1>3, <3>1, <4>1
    <3>2. CASE d # c \/ e # dir
      <4>1. Queue(d, e)' \in {Queue(d, e), <<>>}
        BY <3>2
      <4>. QED
        BY <1>1, <4>1 DEF NoDup
    <3>. QED
      BY <3>1, <3>2
  <2>2. /\ Queue(d, "send") = sendq[d] /\ Queue(d, "recv") = recvq[d]
        /\ Queue(d, "send")' = sendq'[d] /\ Queue(d, "recv")' = recvq'[d]
    BY DEF Queue
  <2>3. /\ NoDup(sendq'[d]) /\ (sendq[d] = <<>> => sendq'[d] = <<>>)
        /\ NoDup(recvq'[d]) /\ (recvq[d] = <<>> => recvq'[d] = <<>>)
    BY <2>1, <2>2 DEF Dir
  <2>4. \A h \in G : pc[h] = "closing" => pc'[h] = "closing" /\ op'[h] = op[h]
    BY <1>7
  <2>. QED
    BY <2>3, <2>4, DrainedKeeps
<1>10. Keeps(g)'
  <2>1. Keeps(g) /\ Ch(g)' = Ch(g)
    BY DEF SInv, Ch, CaseChan
  <2>. QED
    BY <1>7, <2>1 DEF Keeps
<1>11. CloseFrame(g)
  BY DEF CloseFrame
<1>. QED
  BY <1>8, <1>9, <1>10, <1>11, Assemble

\* send, in a chansend or a select ...
LEMMA TakeSend ==
  ASSUME IInv, SInv, NEW g \in G, GoFrame(g), ChanFrame(g), NEW c \in Channel, NEW i \in Nat,
         lock[c] \in {NoG, g}, pc[g] \in {"lock", "sellock"}, op[g].kind # "close",
         Live(recvq[c]) # {}, send(g, i, c), pc' = [pc EXCEPT ![g] = "ready"],
         UNCHANGED <<op, closed, lockorder, pos, param, success>>
  PROVE  SInv'
<1>. DEFINE sg == recvq[c][First(recvq[c])]
<1>1. /\ recvq' = dequeue(recvq, c) /\ WinSelect(sg) /\ wake' = [wake EXCEPT ![g] = {sg}]
      /\ sendq' = sendq
  BY DEF send
<1>2. wake[g] = {}
  BY DEF SInv, GInv, Wakes
<1>3. wake' = [wake EXCEPT ![g] = @ \cup {sg}]
  <2>1. wake[g] \cup {sg} = {sg}
    BY <1>2
  <2>. QED
    BY <1>1, <2>1
<1>4. DOMAIN recvq = Channel
  BY DEF IInv, TypeOK, QueueOK
<1>5. /\ Queue(c, "recv") = recvq[c] /\ Queue(c, "recv")' = Rest(Queue(c, "recv"))
      /\ \A d \in Channel, e \in Dir : d # c \/ e # "recv" => Queue(d, e)' = Queue(d, e)
  BY <1>1, <1>4 DEF Queue, Dir, dequeue
<1>6. "recv" \in Dir /\ "ready" \in {"ready", "closing"} /\ pc[g] \notin Waiting
  BY DEF Dir, Waiting
<1>. HIDE DEF sg
<1>7. sg = Queue(c, "recv")[First(Queue(c, "recv"))]
  BY <1>5 DEF sg
<1>8. TakesFrom(g, c, "recv", "ready", sg)
  BY <1>1, <1>3, <1>5, <1>6, <1>7 DEF TakesFrom
<1>. QED
  BY <1>6, <1>8, TakeStep

\* ... and recv.
LEMMA TakeRecv ==
  ASSUME IInv, SInv, NEW g \in G, GoFrame(g), ChanFrame(g), NEW c \in Channel,
         lock[c] \in {NoG, g}, pc[g] \in {"lock", "sellock"}, op[g].kind # "close",
         Live(sendq[c]) # {}, recv(g, c), pc' = [pc EXCEPT ![g] = "ready"],
         UNCHANGED <<op, closed, lockorder, pos, param, success>>
  PROVE  SInv'
<1>. DEFINE sg == sendq[c][First(sendq[c])]
<1>1. /\ sendq' = dequeue(sendq, c) /\ WinSelect(sg) /\ wake' = [wake EXCEPT ![g] = {sg}]
      /\ recvq' = recvq
  BY DEF recv
<1>2. wake[g] = {}
  BY DEF SInv, GInv, Wakes
<1>3. wake' = [wake EXCEPT ![g] = @ \cup {sg}]
  <2>1. wake[g] \cup {sg} = {sg}
    BY <1>2
  <2>. QED
    BY <1>1, <2>1
<1>4. DOMAIN sendq = Channel
  BY DEF IInv, TypeOK, QueueOK
<1>5. /\ Queue(c, "send") = sendq[c] /\ Queue(c, "send")' = Rest(Queue(c, "send"))
      /\ \A d \in Channel, e \in Dir : d # c \/ e # "send" => Queue(d, e)' = Queue(d, e)
  BY <1>1, <1>4 DEF Queue, Dir, dequeue
<1>6. "send" \in Dir /\ "ready" \in {"ready", "closing"} /\ pc[g] \notin Waiting
  BY DEF Dir, Waiting
<1>. HIDE DEF sg
<1>7. sg = Queue(c, "send")[First(Queue(c, "send"))]
  BY <1>5 DEF sg
<1>8. TakesFrom(g, c, "send", "ready", sg)
  BY <1>1, <1>3, <1>5, <1>6, <1>7 DEF TakesFrom
<1>. QED
  BY <1>6, <1>8, TakeStep

LEMMA TakeDirect ==
  ASSUME IInv, SInv, NEW g \in G, chansendDirect(g) \/ chanrecvDirect(g)
  PROVE  SInv'
<1>1. GoFrame(g) /\ ChanFrame(g)
  BY StepChansend, StepChanrecv DEF Chansend, Chanrecv
<1>2. pc[g] = "lock" /\ lock[Ch(g)] = NoG /\ op[g].kind = "chan"
  BY DEF chansendDirect, chanrecvDirect, Enter
<1>3. Ch(g) \in Channel
  BY <1>2 DEF IInv, OpInv, OpFits, ChanPC
<1>4. /\ pc' = [pc EXCEPT ![g] = "ready"]
      /\ UNCHANGED <<op, closed, lockorder, pos, param, success>>
  BY DEF chansendDirect, chanrecvDirect, Enter, Goto, selVars
<1>5. CASE chansendDirect(g)
  <2>1. send(g, 1, Ch(g)) /\ Live(recvq[Ch(g)]) # {} /\ 1 \in Nat
    BY <1>5 DEF chansendDirect
  <2>. QED
    BY <1>1, <1>2, <1>3, <1>4, <2>1, TakeSend
<1>6. CASE chanrecvDirect(g)
  BY <1>1, <1>2, <1>3, <1>4, <1>6, TakeRecv DEF chanrecvDirect
<1>. QED
  BY <1>5, <1>6

LEMMA TakeSelect ==
  ASSUME IInv, SInv, NEW g \in G, NEW i \in DOMAIN op[g].cases,
         selectSend(g, i) \/ selectRecv(g, i)
  PROVE  SInv'
<1>1. GoFrame(g) /\ ChanFrame(g)
  BY StepPass1 DEF SelectPass1
<1>2. Poll(g, i, "send") \/ Poll(g, i, "recv")
  BY DEF selectSend, selectRecv
<1>3. /\ CaseChan(g, i) \in Channel /\ lock[CaseChan(g, i)] = g
      /\ pc[g] = "sellock" /\ op[g].kind # "close"
  BY <1>2, PollLocked DEF Dir, IsSelect
<1>4. /\ pc' = [pc EXCEPT ![g] = "ready"]
      /\ UNCHANGED <<op, closed, lockorder, pos, param, success>>
  BY DEF selectSend, selectRecv, Poll, Goto
<1>5. CASE selectSend(g, i)
  <2>1. send(g, i, CaseChan(g, i)) /\ Live(recvq[CaseChan(g, i)]) # {} /\ i \in Nat
    BY <1>3, <1>5, OpType DEF selectSend, IInv
  <2>. QED
    BY <1>1, <1>3, <1>4, <2>1, TakeSend
<1>6. CASE selectRecv(g, i)
  BY <1>1, <1>3, <1>4, <1>6, TakeRecv DEF selectRecv
<1>. QED
  BY <1>5, <1>6

\* closechan releases a waiter.
LEMMA TakeClose ==
  ASSUME IInv, SInv, NEW g \in G, closechanRecvq(g) \/ closechanSendq(g)
  PROVE  SInv'
<1>0. /\ DOMAIN recvq = Channel /\ DOMAIN sendq = Channel /\ pc \in [G -> PC]
      /\ param \in [G -> Nat] /\ success \in [G -> BOOLEAN]
  BY DEF IInv, TypeOK, QueueOK, RunOK, WakeOK
<1>1. GoFrame(g) /\ ChanFrame(g)
  BY StepClosechan DEF Closechan
<1>2. pc[g] = "closing" /\ UNCHANGED <<op, closed, lockorder, pos, pc>>
  BY DEF closechanRecvq, closechanSendq, selVars
<1>3. PICK c \in Channel : c = Ch(g) /\ lock[c] = g /\ closed[c]
  BY <1>2 DEF IInv, OpInv, OpFits, LockInv, Holds, ChanPC, SInv, Keeps
<1>4. pc' = [pc EXCEPT ![g] = "closing"] /\ pc[g] \notin Waiting
  BY <1>0, <1>2 DEF Waiting
<1>5. ASSUME NEW sg \in Sudog, closeWaiter(g, sg)
      PROVE  /\ \A h \in G : h # sg[1] => UNCHANGED <<param[h], success[h]>>
             /\ param'[sg[1]] = sg[2]
             /\ WinSelect(sg) /\ wake' = [wake EXCEPT ![g] = @ \cup {sg}]
  BY <1>0, <1>5 DEF closeWaiter, Sudog
<1>6. CASE closechanRecvq(g)
  <2>. DEFINE sg == recvq[c][First(recvq[c])]
  <2>1. /\ Live(recvq[c]) # {} /\ closeWaiter(g, sg) /\ recvq' = dequeue(recvq, c)
        /\ sendq' = sendq
    BY <1>3, <1>6 DEF closechanRecvq
  <2>2. /\ Queue(c, "recv") = recvq[c] /\ Queue(c, "recv")' = Rest(Queue(c, "recv"))
        /\ \A d \in Channel, e \in Dir : d # c \/ e # "recv" => Queue(d, e)' = Queue(d, e)
    <3>1. recvq'[c] = Rest(recvq[c]) /\ \A d \in Channel \ {c} : recvq'[d] = recvq[d]
      BY <1>0, <1>3, <2>1 DEF dequeue
    <3>. QED
      BY <2>1, <3>1 DEF Queue, Dir
  <2>3. sg \in Sudog
    BY <1>3, <2>1, FirstLive DEF IInv, TypeOK, QueueOK
  <2>4. "recv" \in Dir /\ sg = Queue(c, "recv")[First(Queue(c, "recv"))]
    BY <2>2 DEF Dir
  <2>. HIDE DEF sg
  <2>5. TakesFrom(g, c, "recv", "closing", sg)
    BY <1>2, <1>3, <1>4, <1>5, <2>1, <2>2, <2>3, <2>4 DEF TakesFrom
  <2>. QED
    BY <1>1, <1>3, <2>4, <2>5, TakeStep
<1>7. CASE closechanSendq(g)
  <2>. DEFINE sg == sendq[c][First(sendq[c])]
  <2>1. /\ Live(recvq[c]) = {} /\ Live(sendq[c]) # {} /\ closeWaiter(g, sg)
        /\ recvq' = dequeue(recvq, c) /\ sendq' = dequeue(sendq, c)
    BY <1>3, <1>7 DEF closechanSendq
  <2>2. /\ Queue(c, "send") = sendq[c] /\ Queue(c, "send")' = Rest(Queue(c, "send"))
        /\ \A d \in Channel, e \in Dir : d # c \/ e # "send" =>
             \/ Queue(d, e)' = Queue(d, e)
             \/ Live(Queue(d, e)) = {} /\ Queue(d, e)' = <<>>
    <3>1. recvq'[c] = <<>>
      BY <1>0, <1>3, <2>1 DEF dequeue, Rest
    <3>2. \A d \in Channel \ {c} : recvq'[d] = recvq[d] /\ sendq'[d] = sendq[d]
      BY <1>0, <2>1 DEF dequeue
    <3>3. sendq'[c] = Rest(sendq[c])
      BY <1>0, <1>3, <2>1 DEF dequeue
    <3>. QED
      BY <2>1, <3>1, <3>2, <3>3 DEF Queue, Dir
  <2>3. sg \in Sudog
    BY <1>3, <2>1, FirstLive DEF IInv, TypeOK, QueueOK
  <2>4. "send" \in Dir /\ sg = Queue(c, "send")[First(Queue(c, "send"))]
    BY <2>2 DEF Dir
  <2>. HIDE DEF sg
  <2>5. TakesFrom(g, c, "send", "closing", sg)
    BY <1>2, <1>3, <1>4, <1>5, <2>1, <2>2, <2>3, <2>4 DEF TakesFrom
  <2>. QED
    BY <1>1, <1>3, <2>4, <2>5, TakeStep
<1>. QED
  BY <1>6, <1>7

-----------------------------------------------------------------------------
(* Waiting.                                                                *)

\* SInv after a step of g that takes no sudog, closes nothing and leaves closed
\* channels drained.
LEMMA WaitStep ==
  ASSUME IInv, SInv, NEW g \in G, GoFrame(g), ChanFrame(g), Alone(g), OthersQ(g),
         Chosen(g) => UNCHANGED <<pc[g], op[g], param[g]>>,
         UNCHANGED closed, pc[g] # "closing", GInv(g)', Keeps(g)',
         \A c \in Channel : /\ NoDup(recvq'[c]) /\ NoDup(sendq'[c])
                            /\ closed[c] => /\ recvq[c] = <<>> => recvq'[c] = <<>>
                                            /\ sendq[c] = <<>> => sendq'[c] = <<>>
  PROVE  SInv'
<1>1. CloseFrame(g)
  BY DEF CloseFrame
<1>2. \A h \in G : GInv(h)'
  BY OthersKeep
<1>3. \A h \in G : pc[h] = "closing" => pc'[h] = "closing" /\ op'[h] = op[h]
  BY DEF Alone
<1>4. \A c \in Channel : Drained(c)'
  BY <1>3, DrainedKeeps
<1>. QED
  BY <1>1, <1>2, <1>4, Assemble

\* The same if it leaves the queues alone.
LEMMA QuietStep ==
  ASSUME IInv, SInv, NEW g \in G, GoFrame(g), ChanFrame(g), Alone(g),
         Chosen(g) => UNCHANGED <<pc[g], op[g], param[g]>>,
         UNCHANGED <<closed, recvq, sendq>>, pc[g] # "closing", GInv(g)', Keeps(g)'
  PROVE  SInv'
<1>1. OthersQ(g)
  BY DEF OthersQ, InQ, In, Queue
<1>2. \A c \in Channel : NoDup(recvq'[c]) /\ NoDup(sendq'[c])
  BY DEF SInv, Drained
<1>. QED
  BY <1>1, <1>2, WaitStep

\* g enqueues the sudog of its case i, and drops stale ones at most besides.
Enqueues(g, c, dir, i) ==
  /\ Queue(c, dir)' = Append(Queue(c, dir), <<g, i>>)
  /\ \A d \in Channel, e \in Dir : d # c \/ e # dir =>
       \/ Queue(d, e)' = Queue(d, e)
       \/ Live(Queue(d, e)) = {} /\ Queue(d, e)' = <<>>

LEMMA EnqueueFacts ==
  ASSUME TypeOK, SInv, NEW g \in G, NEW c \in Channel, NEW dir \in Dir, NEW i \in Nat,
         Enqueues(g, c, dir, i), ~InQ(c, dir, <<g, i>>), ~closed[c]
  PROVE  /\ OthersQ(g) /\ InQ(c, dir, <<g, i>>)'
         /\ \A d \in Channel, e \in Dir, j \in Nat :
              /\ InQ(d, e, <<g, j>>)' => InQ(d, e, <<g, j>>) \/ (d = c /\ e = dir /\ j = i)
              /\ InQ(d, e, <<g, j>>) /\ ~Stale(<<g, j>>) => InQ(d, e, <<g, j>>)'
         /\ \A d \in Channel :
              /\ NoDup(recvq'[d]) /\ NoDup(sendq'[d])
              /\ closed[d] => /\ recvq[d] = <<>> => recvq'[d] = <<>>
                              /\ sendq[d] = <<>> => sendq'[d] = <<>>
<1>1. \A d \in Channel, e \in Dir : Queue(d, e) \in Seq(Sudog) /\ NoDup(Queue(d, e))
  BY DEF Queue, TypeOK, QueueOK, SInv, Drained
<1>2. \A d \in Channel, e \in Dir : \A s : InQ(d, e, s)' <=> In(Queue(d, e)', s)
  BY DEF InQ, In
<1>3. <<g, i>> \in Sudog
  BY DEF Sudog
<1>4. /\ \A s : In(Queue(c, dir)', s) <=> In(Queue(c, dir), s) \/ s = <<g, i>>
      /\ NoDup(Queue(c, dir)')
  BY <1>1, <1>3, AppendFacts DEF Enqueues, InQ
<1>5. ASSUME NEW d \in Channel, NEW e \in Dir, NEW s
      PROVE  /\ InQ(d, e, s)' => InQ(d, e, s) \/ (d = c /\ e = dir /\ s = <<g, i>>)
             /\ InQ(d, e, s) /\ ~Stale(s) => InQ(d, e, s)'
  <2>1. CASE d = c /\ e = dir
    BY <1>2, <1>4, <2>1 DEF InQ
  <2>2. CASE d # c \/ e # dir
    <3>1. CASE Queue(d, e)' = Queue(d, e)
      BY <1>2, <3>1 DEF InQ
    <3>2. CASE Live(Queue(d, e)) = {} /\ Queue(d, e)' = <<>>
      BY <1>2, <3>2 DEF InQ, In, Live
    <3>. QED
      BY <2>2, <3>1, <3>2 DEF Enqueues
  <2>. QED
    BY <2>1, <2>2
<1>6. OthersQ(g)
  BY <1>5 DEF OthersQ
<1>7. InQ(c, dir, <<g, i>>)'
  BY <1>2, <1>4
<1>8. ASSUME NEW d \in Channel, NEW e \in Dir
      PROVE  NoDup(Queue(d, e)') /\ (closed[d] /\ Queue(d, e) = <<>> => Queue(d, e)' = <<>>)
  <2>1. CASE d = c /\ e = dir
    BY <1>4, <2>1
  <2>2. CASE d # c \/ e # dir
    <3>1. Queue(d, e)' \in {Queue(d, e), <<>>}
      BY <2>2 DEF Enqueues
    <3>. QED
      BY <1>1, <3>1 DEF NoDup
  <2>. QED
    BY <2>1, <2>2
<1>9. \A d \in Channel : /\ Queue(d, "send") = sendq[d] /\ Queue(d, "recv") = recvq[d]
                         /\ Queue(d, "send")' = sendq'[d] /\ Queue(d, "recv")' = recvq'[d]
  BY DEF Queue
<1>10. "send" \in Dir /\ "recv" \in Dir
  BY DEF Dir
<1>11. \A d \in Channel :
         /\ NoDup(recvq'[d]) /\ NoDup(sendq'[d])
         /\ closed[d] => /\ recvq[d] = <<>> => recvq'[d] = <<>>
                         /\ sendq[d] = <<>> => sendq'[d] = <<>>
  BY <1>8, <1>9, <1>10
<1>. QED
  BY <1>5, <1>6, <1>7, <1>11

\* A chansend or chanrecv blocks.
LEMMA WaitBlock ==
  ASSUME IInv, SInv, NEW g \in G, chansendBlock(g) \/ chanrecvBlock(g)
  PROVE  SInv'
<1>0. /\ TypeOK /\ pc \in [G -> PC] /\ param \in [G -> Nat]
      /\ DOMAIN recvq = Channel /\ DOMAIN sendq = Channel
  BY DEF IInv, TypeOK, RunOK, WakeOK, QueueOK
<1>1. GoFrame(g) /\ ChanFrame(g)
  BY StepChansend, StepChanrecv DEF Chansend, Chanrecv
<1>2. /\ pc[g] = "lock" /\ op[g].kind = "chan" /\ lock[Ch(g)] = NoG /\ ~closed[Ch(g)]
      /\ pc' = [pc EXCEPT ![g] = "park"] /\ param' = [param EXCEPT ![g] = 0]
      /\ UNCHANGED <<closed, op, lockorder, pos, selectDone, success, wake>>
  BY DEF chansendBlock, chanrecvBlock, Enter, Goto, selVars
<1>3. PICK c \in Channel : c = Ch(g)
  BY <1>2 DEF IInv, OpInv, OpFits, ChanPC
<1>4. PICK dir \in Dir : dir = CaseDir(g, 1) /\ Enqueues(g, c, dir, 1)
  <2>1. CASE chansendBlock(g)
    <3>1. /\ CaseDir(g, 1) = "send" /\ Live(recvq[c]) = {}
          /\ recvq'[c] = <<>> /\ sendq'[c] = Append(sendq[c], <<g, 1>>)
          /\ \A d \in Channel \ {c} : recvq'[d] = recvq[d] /\ sendq'[d] = sendq[d]
      BY <1>0, <1>3, <2>1 DEF chansendBlock, Enter, enqueue, dequeue, Rest
    <3>. QED
      BY <3>1 DEF Enqueues, Queue, Dir
  <2>2. CASE chanrecvBlock(g)
    <3>1. /\ CaseDir(g, 1) = "recv" /\ Live(sendq[c]) = {}
          /\ sendq'[c] = <<>> /\ recvq'[c] = Append(recvq[c], <<g, 1>>)
          /\ \A d \in Channel \ {c} : recvq'[d] = recvq[d] /\ sendq'[d] = sendq[d]
      BY <1>0, <1>3, <2>2 DEF chanrecvBlock, Enter, enqueue, dequeue, Rest
    <3>. QED
      BY <3>1 DEF Enqueues, Queue, Dir
  <2>. QED
    BY <2>1, <2>2
<1>5. /\ \A i : i \in DOMAIN op[g].cases <=> i = 1
      /\ op[g].cases[1] = [c |-> c, dir |-> dir]
  <2>1. op[g] \in Ops /\ op[g].kind # "select"
    BY <1>0, <1>2 DEF TypeOK, RunOK, NoOp
  <2>2. Len(op[g].cases) = 1 /\ op[g].cases \in Seq(Case)
    BY <1>0, <2>1, OpsAssumption, OpType
  <2>3. \A i : i \in DOMAIN op[g].cases <=> i = 1
    BY <2>2
  <2>4. CaseChan(g, 1) # Nil
    BY <1>3, ChannelAssumption DEF Ch
  <2>5. op[g].cases[1] = [c |-> CaseChan(g, 1), dir |-> CaseDir(g, 1)]
    BY <1>0, <2>3, <2>4, CasePlace
  <2>. QED
    BY <1>3, <1>4, <2>3, <2>5 DEF Ch
<1>6. /\ Sudogs(g) /\ Won(g) /\ Wakes(g) /\ ~IsSelect(g) /\ ~Chosen(g) /\ wake[g] = {}
  <2>1. Sudogs(g) /\ Won(g) /\ Wakes(g)
    BY DEF SInv, GInv
  <2>2. ~IsSelect(g)
    BY <1>2 DEF IsSelect
  <2>. QED
    BY <1>2, <2>1, <2>2, NotChosen DEF Wakes
<1>7. \A d \in Channel, e \in Dir, j \in Nat : ~InQ(d, e, <<g, j>>)
  BY <1>2, <1>6 DEF Sudogs, Waiting
<1>8. /\ OthersQ(g) /\ InQ(c, dir, <<g, 1>>)'
      /\ \A d \in Channel, e \in Dir, j \in Nat :
           InQ(d, e, <<g, j>>)' => d = c /\ e = dir /\ j = 1
      /\ \A d \in Channel :
           /\ NoDup(recvq'[d]) /\ NoDup(sendq'[d])
           /\ closed[d] => /\ recvq[d] = <<>> => recvq'[d] = <<>>
                           /\ sendq[d] = <<>> => sendq'[d] = <<>>
  <2>1. 1 \in Nat /\ ~closed[c]
    BY <1>2, <1>3
  <2>. QED
    BY <1>0, <1>4, <1>7, <2>1, EnqueueFacts
<1>9. pc'[g] = "park" /\ \A h \in G \ {g} : pc'[h] = pc[h] /\ param'[h] = param[h]
  BY <1>0, <1>2
<1>10. Alone(g)
  BY <1>2, <1>9 DEF Alone
<1>11. /\ IsSelect(g)' = IsSelect(g) /\ (Chosen(g)' <=> Chosen(g))
       /\ \A s : Picked(s)' <=> Picked(s)
       /\ \A i : CaseChan(g, i)' = CaseChan(g, i) /\ CaseDir(g, i)' = CaseDir(g, i)
  BY <1>2 DEF IsSelect, Chosen, Picked, CaseChan, CaseDir
<1>12. Sudogs(g)'
  <2>1. ~Picked(<<g, 1>>)'
    BY <1>6, <1>11 DEF Picked, Chosen
  <2>2. Reached(g, 1)'
    BY <1>9 DEF Reached
  <2>. QED
    BY <1>2, <1>5, <1>8, <1>9, <2>1, <2>2 DEF Sudogs, Waiting
<1>13. Waits(g)'
  <2>1. Queued(g, 1)'
    <3>1. In(Queue(c, dir)', <<g, 1>>)
      BY <1>8 DEF InQ, In
    <3>. QED
      BY <1>3, <1>4, <1>11, <3>1 DEF Queued, In, Ch, Queue
  <2>. QED
    BY <1>2, <1>5, <1>9, <2>1 DEF Waits
<1>14. Won(g)' /\ Woken(g)' /\ Wakes(g)'
  BY <1>2, <1>6, <1>9, <1>11 DEF Won, Woken, Wakes
<1>15. Keeps(g)'
  BY <1>9 DEF Keeps
<1>. QED
  BY <1>1, <1>2, <1>6, <1>8, <1>10, <1>12, <1>13, <1>14, <1>15, WaitStep DEF GInv

-----------------------------------------------------------------------------
(* selectgo, from the end of pass 1 on.                                    *)

LEMMA SelfFacts ==
  ASSUME UNCHANGED <<op, wake>>, NEW g \in G
  PROVE  /\ IsSelect(g)' = IsSelect(g) /\ (Chosen(g)' <=> Chosen(g)) /\ Ch(g)' = Ch(g)
         /\ \A s : Picked(s)' <=> Picked(s)
         /\ \A i : CaseChan(g, i)' = CaseChan(g, i) /\ CaseDir(g, i)' = CaseDir(g, i)
BY DEF IsSelect, Chosen, Picked, CaseChan, CaseDir, Ch

\* Whoever has taken a sudog is not in a select.
LEMMA NoWake ==
  ASSUME SInv, NEW g \in G, pc[g] \notin {"closing", "ready"}
  PROVE  wake[g] = {}
BY DEF SInv, GInv, Wakes

LEMMA WakesNone ==
  ASSUME NEW g \in G, wake'[g] = {}
  PROVE  Wakes(g)'
BY DEF Wakes

\* A case has one place in the lock order.
LEMMA OrderInjective ==
  ASSUME IInv, NEW g \in G, IsSelect(g), NEW k \in 1..Len(lockorder[g]),
         NEW l \in 1..Len(lockorder[g]), lockorder[g][k] = lockorder[g][l]
  PROVE  k = l
<1>. DEFINE s == lockorder[g]
<1>1. s \in LockOrders(op[g].cases)
  BY DEF IInv, OpInv, OpFits
<1>3. \A a, b \in DOMAIN s : a < b => s[a] # s[b]
  BY <1>1 DEF LockOrders
<1>4. s \in Seq(Nat)
  BY DEF IInv, TypeOK, SelOK
<1>5. DOMAIN s = 1..Len(s)
  BY <1>4
<1>. HIDE DEF s
<1>6. ~(k < l) /\ ~(l < k) /\ k \in Nat /\ l \in Nat
  BY <1>3, <1>5 DEF s
<1>. QED
  BY <1>6

LEMMA WaitSelectBlock ==
  ASSUME IInv, SInv, NEW g \in G, selectBlock(g)
  PROVE  SInv'
<1>0. pc \in [G -> PC] /\ pos \in [G -> Nat]
  BY DEF IInv, TypeOK, RunOK, SelOK
<1>1. GoFrame(g) /\ ChanFrame(g)
  BY StepPass1 DEF SelectPass1
<1>2. /\ pc[g] = "sellock" /\ pos' = [pos EXCEPT ![g] = 0] /\ pc' = [pc EXCEPT ![g] = "pass2"]
      /\ UNCHANGED <<closed, recvq, sendq, op, selectDone, param, success, wake, lockorder, polled>>
  BY DEF selectBlock, NoCase, Goto, chanVars, wakeVars
<1>3. /\ pc'[g] = "pass2" /\ pos'[g] = 0
      /\ \A h \in G \ {g} : pc'[h] = pc[h] /\ pos'[h] = pos[h]
  BY <1>0, <1>2
<1>4. Alone(g)
  BY <1>2, <1>3 DEF Alone
<1>5. Sudogs(g) /\ Won(g) /\ Keeps(g) /\ wake[g] = {} /\ ~Chosen(g)
  BY <1>2, NoWake, NotChosen DEF SInv, GInv
<1>6. Sudogs(g)'
  <2>1. \A c \in Channel, d \in Dir, i \in Nat : ~InQ(c, d, <<g, i>>)
    BY <1>2, <1>5 DEF Sudogs, Waiting
  <2>2. \A c \in Channel, d \in Dir, i \in Nat : ~InQ(c, d, <<g, i>>)'
    BY <1>2, <2>1 DEF InQ, In, Queue
  <2>. QED
    BY <2>2 DEF Sudogs
<1>7. Waits(g)' /\ Woken(g)'
  BY <1>3 DEF Waits, Woken
<1>8. Won(g)' /\ Wakes(g)'
  BY <1>2, <1>3, <1>5, SelfFacts, WakesNone DEF Won
<1>9. Keeps(g)'
  BY <1>2, <1>3, <1>5, SelfFacts DEF Keeps
<1>. QED
  BY <1>1, <1>2, <1>4, <1>5, <1>6, <1>7, <1>8, <1>9, QuietStep DEF GInv

LEMMA WaitEnqueue ==
  ASSUME IInv, SInv, NEW g \in G, selectEnqueue(g)
  PROVE  SInv'
<1>0. /\ TypeOK /\ pos \in [G -> Nat] /\ DOMAIN recvq = Channel /\ DOMAIN sendq = Channel
      /\ Len(lockorder[g]) \in Nat /\ pos[g] \in Nat
  BY DEF IInv, TypeOK, SelOK, QueueOK
<1>1. GoFrame(g) /\ ChanFrame(g)
  BY StepEnqueue
<1>2. /\ pc[g] = "pass2" /\ pos[g] < Len(lockorder[g]) /\ pos' = [pos EXCEPT ![g] = @ + 1]
      /\ UNCHANGED <<closed, pc, op, selectDone, param, success, wake, lockorder, polled>>
  BY DEF selectEnqueue, wakeVars
<1>3. /\ pos'[g] = pos[g] + 1 /\ \A h \in G \ {g} : pos'[h] = pos[h]
      /\ IsSelect(g) /\ pos[g] + 1 \in 1..Len(lockorder[g])
  BY <1>0, <1>2, NextCase DEF IInv, OpInv, OpFits
<1>4. PICK i \in DOMAIN op[g].cases : i = lockorder[g][pos[g] + 1] /\ CaseChan(g, i) # Nil
  BY <1>3, OrderPlace
<1>5. PICK c \in Channel, dir \in Dir :
        c = CaseChan(g, i) /\ dir = CaseDir(g, i) /\ op[g].cases[i] = [c |-> c, dir |-> dir]
  BY <1>0, <1>4, CasePlace
<1>6. Enqueues(g, c, dir, i) /\ i \in Nat
  <2>1. i \in Nat
    BY <1>0, <1>4, CasePlace
  <2>2. CASE dir = "send"
    <3>1. sendq' = enqueue(sendq, c, <<g, i>>) /\ recvq' = recvq
      BY <1>4, <1>5, <2>2 DEF selectEnqueue
    <3>2. sendq'[c] = Append(sendq[c], <<g, i>>) /\ \A d \in Channel \ {c} : sendq'[d] = sendq[d]
      BY <1>0, <3>1 DEF enqueue
    <3>. QED
      BY <2>1, <2>2, <3>1, <3>2 DEF Enqueues, Queue, Dir
  <2>3. CASE dir = "recv"
    <3>1. recvq' = enqueue(recvq, c, <<g, i>>) /\ sendq' = sendq
      BY <1>4, <1>5, <2>3 DEF selectEnqueue
    <3>2. recvq'[c] = Append(recvq[c], <<g, i>>) /\ \A d \in Channel \ {c} : recvq'[d] = recvq[d]
      BY <1>0, <3>1 DEF enqueue
    <3>. QED
      BY <2>1, <2>3, <3>1, <3>2 DEF Enqueues, Queue, Dir
  <2>. QED
    BY <2>2, <2>3 DEF Dir
<1>7. Sudogs(g) /\ Waits(g) /\ Won(g) /\ Woken(g) /\ Keeps(g) /\ wake[g] = {} /\ ~Chosen(g)
  BY <1>2, NoWake, NotChosen DEF SInv, GInv
<1>8. ~closed[c]
  <2>1. i \in polled[g]
    BY <1>2, <1>4 DEF IInv, PolledInv, Polled
  <2>. QED
    BY <1>2, <1>5, <1>7, <2>1 DEF Keeps
<1>9. ~InQ(c, dir, <<g, i>>)
  <2>1. ASSUME InQ(c, dir, <<g, i>>) PROVE FALSE
    <3>1. Reached(g, i)
      BY <1>6, <1>7, <2>1 DEF Sudogs
    <3>2. PICK k \in 1..pos[g] : lockorder[g][k] = i
      BY <1>2, <3>1 DEF Reached
    <3>3. k \in 1..Len(lockorder[g]) /\ k # pos[g] + 1
      BY <1>0, <1>2
    <3>. QED
      BY <1>3, <1>4, <3>2, <3>3, OrderInjective
  <2>. QED
    BY <2>1
<1>10. /\ OthersQ(g) /\ InQ(c, dir, <<g, i>>)'
       /\ \A d \in Channel, e \in Dir, j \in Nat :
            /\ InQ(d, e, <<g, j>>)' => InQ(d, e, <<g, j>>) \/ (d = c /\ e = dir /\ j = i)
            /\ InQ(d, e, <<g, j>>) /\ ~Stale(<<g, j>>) => InQ(d, e, <<g, j>>)'
       /\ \A d \in Channel :
            /\ NoDup(recvq'[d]) /\ NoDup(sendq'[d])
            /\ closed[d] => /\ recvq[d] = <<>> => recvq'[d] = <<>>
                            /\ sendq[d] = <<>> => sendq'[d] = <<>>
  BY <1>0, <1>6, <1>8, <1>9, EnqueueFacts
<1>11. Alone(g)
  BY <1>2, <1>3 DEF Alone
<1>12. /\ IsSelect(g)' = IsSelect(g) /\ (Chosen(g)' <=> Chosen(g))
       /\ \A s : Picked(s)' <=> Picked(s)
       /\ \A j : CaseChan(g, j)' = CaseChan(g, j) /\ CaseDir(g, j)' = CaseDir(g, j)
  BY <1>2, SelfFacts
<1>13. Sudogs(g)'
  <2>1. ~Picked(<<g, i>>)'
    BY <1>7, <1>12 DEF Picked, Chosen
  <2>2. Reached(g, i)'
    BY <1>0, <1>2, <1>3, <1>4 DEF Reached
  <2>3. \A j : Reached(g, j) => Reached(g, j)'
    BY <1>0, <1>2, <1>3 DEF Reached
  <2>. SUFFICES ASSUME NEW d \in Channel, NEW e \in Dir, NEW j \in Nat, InQ(d, e, <<g, j>>)'
                PROVE  /\ pc'[g] \in Waiting
                       /\ j \in DOMAIN op'[g].cases /\ op'[g].cases[j] = [c |-> d, dir |-> e]
                       /\ ~Picked(<<g, j>>)'
                       /\ ~IsSelect(g)' => pc'[g] = "park"
                       /\ pc'[g] \in {"woken", "relock", "pass3"} => j # param'[g]
                       /\ Reached(g, j)'
    BY DEF Sudogs
  <2>4. CASE InQ(d, e, <<g, j>>)
    BY <1>2, <1>7, <1>12, <2>3, <2>4 DEF Sudogs
  <2>5. CASE d = c /\ e = dir /\ j = i
    BY <1>2, <1>3, <1>5, <1>12, <2>1, <2>2, <2>5 DEF Waiting
  <2>. QED
    BY <1>10, <2>4, <2>5
<1>14. Waits(g)'
  <2>1. ASSUME NEW j \in DOMAIN op[g].cases, NEW k \in 1..(pos[g] + 1), lockorder[g][k] = j
        PROVE  Queued(g, j)'
    <3>1. k \in 1..Len(lockorder[g])
      BY <1>0, <1>2
    <3>2. CaseChan(g, j) # Nil
      BY <1>3, <2>1, <3>1, OrderPlace
    <3>3. /\ CaseChan(g, j) \in Channel /\ CaseDir(g, j) \in Dir /\ j \in Nat
          /\ Queued(g, j) <=> InQ(CaseChan(g, j), CaseDir(g, j), <<g, j>>)
      BY <1>0, <3>2, CasePlace
    <3>4. \A d \in Channel, e \in Dir : InQ(d, e, <<g, j>>)' <=> In(Queue(d, e)', <<g, j>>)
      BY DEF InQ, In
    <3>5. \E d \in Channel, e \in Dir :
            d = CaseChan(g, j) /\ e = CaseDir(g, j) /\ InQ(d, e, <<g, j>>)'
      <4>1. CASE k = pos[g] + 1
        <5>1. j = i
          BY <1>4, <2>1, <4>1
        <5>. QED
          BY <1>5, <1>10, <5>1
      <4>2. CASE k # pos[g] + 1
        <5>1. k \in 1..pos[g]
          BY <1>0, <4>2
        <5>2. Queued(g, j)
          BY <1>2, <1>7, <2>1, <5>1 DEF Waits
        <5>3. ~Stale(<<g, j>>)
          BY <1>2, <3>3, StaleWon
        <5>. QED
          BY <1>10, <3>3, <5>2, <5>3
      <4>. QED
        BY <4>1, <4>2
    <3>. QED
      BY <1>12, <3>4, <3>5 DEF Queued, In, Queue
  <2>. QED
    BY <1>2, <1>3, <2>1 DEF Waits
<1>15. Won(g)' /\ Woken(g)' /\ Wakes(g)'
  BY <1>2, <1>7, <1>12, WakesNone DEF Won, Woken
<1>16. Keeps(g)'
  BY <1>2, <1>7, <1>12 DEF Keeps
<1>. QED
  BY <1>1, <1>2, <1>7, <1>10, <1>11, <1>13, <1>14, <1>15, <1>16, WaitStep DEF GInv

\* The cases that have a sudog, with their places in the lock order.
LEMMA SudogPlace ==
  ASSUME IInv, NEW g \in G, IsSelect(g), NEW i \in DOMAIN op[g].cases, CaseChan(g, i) # Nil
  PROVE  \E k \in 1..Len(lockorder[g]) : lockorder[g][k] = i
<1>1. lockorder[g] \in LockOrders(op[g].cases) /\ op[g].cases \in Seq(Case)
  BY OpType DEF IInv, OpInv, OpFits
<1>. QED
  BY <1>1, LockOrderCases DEF CaseChan

\* The sudogs of g after a step that leaves the queues alone.
LEMMA SudogsKeep ==
  ASSUME NEW g \in G, Sudogs(g), UNCHANGED <<op, wake, recvq, sendq>>,
         pc'[g] \in Waiting, ~IsSelect(g) => pc'[g] = "park",
         pc'[g] \in {"woken", "relock", "pass3"} =>
           pc[g] \in {"woken", "relock", "pass3"} /\ param'[g] = param[g],
         \A i \in DOMAIN op[g].cases, c \in Channel :
           CaseChan(g, i) = c /\ Reached(g, i) => Reached(g, i)'
  PROVE  Sudogs(g)'
<1>1. \A c \in Channel, dir \in Dir : \A s : InQ(c, dir, s)' <=> InQ(c, dir, s)
  BY DEF InQ, In, Queue
<1>2. IsSelect(g)' = IsSelect(g) /\ \A s : Picked(s)' <=> Picked(s)
  BY SelfFacts
<1>. SUFFICES ASSUME NEW d \in Channel, NEW e \in Dir, NEW j \in Nat, InQ(d, e, <<g, j>>)'
              PROVE  /\ pc'[g] \in Waiting
                     /\ j \in DOMAIN op'[g].cases /\ op'[g].cases[j] = [c |-> d, dir |-> e]
                     /\ ~Picked(<<g, j>>)'
                     /\ ~IsSelect(g)' => pc'[g] = "park"
                     /\ pc'[g] \in {"woken", "relock", "pass3"} => j # param'[g]
                     /\ Reached(g, j)'
  BY DEF Sudogs
<1>3. /\ j \in DOMAIN op[g].cases /\ op[g].cases[j] = [c |-> d, dir |-> e]
      /\ ~Picked(<<g, j>>) /\ Reached(g, j)
      /\ pc[g] \in {"woken", "relock", "pass3"} => j # param[g]
  BY <1>1 DEF Sudogs
<1>4. CaseChan(g, j) = d
  BY <1>3 DEF CaseChan
<1>. QED
  BY <1>2, <1>3, <1>4

LEMMA WaitPark ==
  ASSUME IInv, SInv, NEW g \in G, selectPark(g)
  PROVE  SInv'
<1>0. pc \in [G -> PC] /\ param \in [G -> Nat] /\ TypeOK
  BY DEF IInv, TypeOK, RunOK, WakeOK
<1>1. GoFrame(g) /\ ChanFrame(g)
  BY StepSelectgo DEF Selectgo
<1>2. /\ pc[g] = "pass2" /\ pos[g] = Len(lockorder[g]) /\ param' = [param EXCEPT ![g] = 0]
      /\ pc' = [pc EXCEPT ![g] = "park"]
      /\ UNCHANGED <<closed, recvq, sendq, op, selectDone, success, wake, lockorder, pos>>
  BY DEF selectPark, Goto, chanVars
<1>3. pc'[g] = "park" /\ \A h \in G \ {g} : pc'[h] = pc[h] /\ param'[h] = param[h]
  BY <1>0, <1>2
<1>4. Alone(g)
  BY <1>2, <1>3 DEF Alone
<1>5. /\ Sudogs(g) /\ Waits(g) /\ Won(g) /\ wake[g] = {} /\ ~Chosen(g) /\ IsSelect(g)
  BY <1>2, NoWake, NotChosen DEF SInv, GInv, IInv, OpInv, OpFits
<1>6. Sudogs(g)'
  BY <1>2, <1>3, <1>5, SudogsKeep DEF Reached, Waiting
<1>7. Waits(g)'
  <2>1. ASSUME NEW i \in DOMAIN op[g].cases, CaseChan(g, i) # Nil
        PROVE  Queued(g, i)
    BY <1>2, <1>5, <2>1, SudogPlace DEF Waits
  <2>2. \A i \in DOMAIN op[g].cases : Queued(g, i) => Queued(g, i)'
    BY <1>2 DEF Queued, Queue, CaseChan, CaseDir
  <2>. QED
    BY <1>2, <1>3, <2>1, <2>2, SelfFacts DEF Waits
<1>8. Won(g)' /\ Wakes(g)' /\ Woken(g)' /\ Keeps(g)'
  BY <1>2, <1>3, <1>5, SelfFacts, WakesNone DEF Won, Woken, Keeps, IsSelect
<1>. QED
  BY <1>1, <1>2, <1>4, <1>5, <1>6, <1>7, <1>8, QuietStep DEF GInv

LEMMA WaitCommit ==
  ASSUME IInv, SInv, NEW g \in G, selparkcommit(g)
  PROVE  SInv'
<1>1. GoFrame(g) /\ ChanFrame(g)
  BY StepCommit
<1>2. UNCHANGED <<closed, recvq, sendq, pc, op, selectDone, param, success, wake, lockorder, pos>>
  BY DEF selparkcommit, queueVars, wakeVars
<1>3. Alone(g)
  BY <1>2 DEF Alone
<1>4. /\ commit[g] # 0 /\ commit[g] <= Len(lockorder[g]) /\ IsSelect(g)
      /\ pc[g] \in {"park", "woken", "relock"}
      /\ pc[g] = "relock" =>
           \A k \in 1..pos[g], l \in commit[g]..Len(lockorder[g]) : LockChan(g, k) # LockChan(g, l)
      /\ pos[g] <= Len(lockorder[g]) \/ pc[g] # "relock"
      /\ Keeps(g) /\ GInv(g)
  BY DEF selparkcommit, IInv, CommitInv, Committing, OpInv, OpFits, SInv
<1>5. /\ pos[g] \in Nat /\ Len(lockorder[g]) \in Nat /\ commit[g] \in Nat
      /\ lock \in [Channel -> G \cup {NoG}]
  BY DEF IInv, TypeOK, SelOK, QueueOK
<1>6. GInv(g)'
  <2>1. \A c \in Channel, d \in Dir : \A s : InQ(c, d, s)' <=> InQ(c, d, s)
    BY <1>2 DEF InQ, In, Queue
  <2>2. \A i : Reached(g, i)' <=> Reached(g, i)
    BY <1>2 DEF Reached
  <2>3. \A i : Queued(g, i)' <=> Queued(g, i)
    BY <1>2 DEF Queued, Queue, CaseChan, CaseDir
  <2>4. \A h, i : CaseChan(h, i)' = CaseChan(h, i)
    BY <1>2 DEF CaseChan
  <2>5. Sudogs(g)'
    BY <1>2, <1>4, SudogsKeep, <2>2 DEF GInv, Waiting
  <2>6. Waits(g)' /\ Won(g)' /\ Woken(g)'
    BY <1>2, <1>4, <2>3, <2>4, SelfFacts DEF GInv, Waits, Won, Woken
  <2>7. Wakes(g)'
    BY <1>2, <1>4, <2>4 DEF GInv, Wakes
  <2>. QED
    BY <2>5, <2>6, <2>7 DEF GInv
<1>7. Keeps(g)'
  <2>1. ASSUME pc[g] = "relock", NEW k \in 1..pos[g]
        PROVE  lock'[LockChan(g, k)] = g
    <3>1. /\ k \in 1..Len(lockorder[g]) /\ commit[g] \in 1..Len(lockorder[g])
          /\ commit[g] \in commit[g]..Len(lockorder[g])
      BY <1>4, <1>5, <2>1
    <3>2. /\ LockChan(g, k) # LockChan(g, commit[g]) /\ lock[LockChan(g, k)] = g
      BY <1>4, <2>1, <3>1 DEF Keeps
    <3>3. LockChan(g, k) \in Channel
      BY <1>4, <3>1, LockOrderFacts DEF IInv
    <3>. QED
      BY <1>5, <3>2, <3>3 DEF selparkcommit
  <2>2. \A k : LockChan(g, k)' = LockChan(g, k)
    BY <1>2 DEF LockChan, CaseChan
  <2>. QED
    BY <1>2, <1>4, <2>1, <2>2 DEF Keeps
<1>. QED
  BY <1>1, <1>2, <1>3, <1>4, <1>6, <1>7, QuietStep

LEMMA WaitWoken ==
  ASSUME IInv, SInv, NEW g \in G, selectWoken(g)
  PROVE  SInv'
<1>0. pc \in [G -> PC] /\ pos \in [G -> Nat]
  BY DEF IInv, TypeOK, RunOK, SelOK
<1>1. GoFrame(g) /\ ChanFrame(g)
  BY StepSelectgo DEF Selectgo
<1>2. /\ pc[g] = "woken" /\ IsSelect(g) /\ pos' = [pos EXCEPT ![g] = 0]
      /\ pc' = [pc EXCEPT ![g] = "relock"]
      /\ UNCHANGED <<closed, recvq, sendq, op, selectDone, param, success, wake, lockorder>>
  BY DEF selectWoken, Goto, chanVars, wakeVars
<1>3. /\ pc'[g] = "relock" /\ pos'[g] = 0
      /\ \A h \in G \ {g} : pc'[h] = pc[h] /\ pos'[h] = pos[h]
  BY <1>0, <1>2
<1>4. Alone(g)
  BY <1>2, <1>3 DEF Alone
<1>5. Sudogs(g) /\ Won(g) /\ Woken(g) /\ wake[g] = {} /\ ~Chosen(g)
  BY <1>2, NoWake, NotChosen DEF SInv, GInv
<1>6. Sudogs(g)'
  BY <1>2, <1>3, <1>5, SudogsKeep DEF Reached, Waiting
<1>7. Waits(g)' /\ Won(g)' /\ Wakes(g)' /\ Woken(g)' /\ Keeps(g)'
  BY <1>2, <1>3, <1>5, SelfFacts, WakesNone DEF Waits, Won, Woken, Keeps
<1>. QED
  BY <1>1, <1>2, <1>4, <1>5, <1>6, <1>7, QuietStep DEF GInv

LEMMA WaitRelock ==
  ASSUME IInv, SInv, NEW g \in G, sellock(g), pc[g] = "relock"
  PROVE  SInv'
<1>0. /\ pos \in [G -> Nat] /\ pos[g] \in Nat /\ Len(lockorder[g]) \in Nat
      /\ lock \in [Channel -> G \cup {NoG}] /\ IsSelect(g) /\ pos[g] <= Len(lockorder[g])
  BY DEF IInv, TypeOK, SelOK, QueueOK, OpInv, OpFits
<1>1. GoFrame(g) /\ ChanFrame(g)
  BY StepSellock
<1>2. /\ pos[g] # Len(lockorder[g]) /\ pos' = [pos EXCEPT ![g] = @ + 1]
      /\ UNCHANGED <<closed, recvq, sendq, pc, op, selectDone, param, success, wake, lockorder>>
  BY DEF sellock, AllLocked, queueVars, wakeVars
<1>3. pos'[g] = pos[g] + 1 /\ \A h \in G \ {g} : pos'[h] = pos[h]
  BY <1>0, <1>2
<1>4. Alone(g)
  BY <1>2, <1>3 DEF Alone
<1>5. Sudogs(g) /\ Won(g) /\ Woken(g) /\ Keeps(g) /\ wake[g] = {} /\ ~Chosen(g)
  BY NoWake, NotChosen DEF SInv, GInv
<1>6. Sudogs(g)'
  BY <1>0, <1>2, <1>3, <1>5, SudogsKeep DEF Reached, Waiting
<1>7. Waits(g)' /\ Won(g)' /\ Wakes(g)' /\ Woken(g)'
  BY <1>2, <1>5, SelfFacts, WakesNone DEF Waits, Won, Woken
<1>8. Keeps(g)'
  <2>1. \A k : LockChan(g, k)' = LockChan(g, k)
    BY <1>2 DEF LockChan, CaseChan
  <2>2. \A k \in 1..(pos[g] + 1) : LockChan(g, k) \in Channel
    BY <1>0, <1>2, LockOrderFacts DEF IInv
  <2>3. \A k \in 1..pos[g] : lock[LockChan(g, k)] = g
    BY <1>5 DEF Keeps
  <2>4. ASSUME NEW k \in 1..(pos[g] + 1) PROVE lock'[LockChan(g, k)] = g
    <3>. DEFINE c == LockChan(g, pos[g] + 1)
    <3>1. \/ lock' = lock /\ pos[g] > 0 /\ LockChan(g, pos[g]) = c
          \/ lock' = [lock EXCEPT ![c] = g]
      BY DEF sellock
    <3>2. pos[g] + 1 \in 1..(pos[g] + 1) /\ (k # pos[g] + 1 => k \in 1..pos[g])
      BY <1>0
    <3>3. LockChan(g, k) \in Channel
      BY <2>2
    <3>4. CASE lock' = lock /\ pos[g] > 0 /\ LockChan(g, pos[g]) = c
      <4>1. pos[g] \in 1..pos[g]
        BY <1>0, <3>4
      <4>. QED
        BY <2>3, <3>2, <3>4, <4>1
    <3>5. CASE lock' = [lock EXCEPT ![c] = g]
      BY <1>0, <2>3, <3>2, <3>3, <3>5
    <3>. QED
      BY <3>1, <3>4, <3>5
  <2>. QED
    BY <1>2, <1>3, <2>1, <2>4 DEF Keeps
<1>. QED
  BY <1>1, <1>2, <1>4, <1>5, <1>6, <1>7, <1>8, QuietStep DEF GInv

LEMMA WaitRelocked ==
  ASSUME IInv, SInv, NEW g \in G, selectRelocked(g)
  PROVE  SInv'
<1>0. /\ pc \in [G -> PC] /\ pos \in [G -> Nat] /\ selectDone \in [G -> BOOLEAN]
      /\ Len(lockorder[g]) \in Nat
  BY DEF IInv, TypeOK, RunOK, SelOK, WakeOK
<1>1. GoFrame(g) /\ ChanFrame(g)
  BY StepSelectgo DEF Selectgo
<1>2. /\ pc[g] = "relock" /\ pos[g] = Len(lockorder[g]) /\ pos' = [pos EXCEPT ![g] = 0]
      /\ pc' = [pc EXCEPT ![g] = "pass3"] /\ selectDone' = [selectDone EXCEPT ![g] = FALSE]
      /\ UNCHANGED <<closed, recvq, sendq, lock, op, param, success, wake, lockorder>>
  BY DEF selectRelocked, Goto, AllLocked, chanVars
<1>3. /\ pc'[g] = "pass3" /\ pos'[g] = 0 /\ selectDone'[g] = FALSE
      /\ \A h \in G \ {g} : /\ pc'[h] = pc[h] /\ pos'[h] = pos[h]
                            /\ selectDone'[h] = selectDone[h]
  BY <1>0, <1>2
<1>4. Alone(g)
  BY <1>2, <1>3 DEF Alone
<1>5. /\ Sudogs(g) /\ Woken(g) /\ Keeps(g) /\ wake[g] = {} /\ ~Chosen(g) /\ IsSelect(g)
  BY <1>2, NoWake, NotChosen DEF SInv, GInv, IInv, OpInv, OpFits
<1>6. Sudogs(g)'
  <2>1. ASSUME NEW i \in DOMAIN op[g].cases, NEW c \in Channel, CaseChan(g, i) = c
        PROVE  Reached(g, i)'
    <3>1. PICK k \in 1..Len(lockorder[g]) : lockorder[g][k] = i
      BY <1>5, <2>1, SudogPlace, ChannelAssumption
    <3>2. k \in (pos'[g] + 1)..Len(lockorder'[g]) /\ lockorder'[g][k] = i
      BY <1>0, <1>2, <1>3, <3>1
    <3>. QED
      BY <1>3, <3>2 DEF Reached
  <2>. QED
    BY <1>2, <1>3, <1>5, <2>1, SudogsKeep DEF Waiting
<1>7. Waits(g)' /\ Won(g)' /\ Wakes(g)' /\ Woken(g)'
  BY <1>2, <1>3, <1>5, SelfFacts, WakesNone DEF Waits, Won, Woken
<1>8. Keeps(g)'
  <2>1. \A k : LockChan(g, k)' = LockChan(g, k)
    BY <1>2 DEF LockChan, CaseChan
  <2>. QED
    BY <1>2, <1>3, <1>5, <2>1 DEF Keeps
<1>. QED
  BY <1>1, <1>2, <1>4, <1>5, <1>6, <1>7, <1>8, QuietStep DEF GInv

\* Pass 3 unlinks the sudog of a case, unless it is the one that won.
LEMMA WaitDequeue ==
  ASSUME IInv, SInv, NEW g \in G, selectDequeue(g)
  PROVE  SInv'
<1>0. /\ TypeOK /\ pos \in [G -> Nat] /\ DOMAIN recvq = Channel /\ DOMAIN sendq = Channel
      /\ Len(lockorder[g]) \in Nat /\ pos[g] \in Nat
  BY DEF IInv, TypeOK, SelOK, QueueOK
<1>1. GoFrame(g) /\ ChanFrame(g)
  BY StepSelectgo DEF Selectgo
<1>2. /\ pc[g] = "pass3" /\ pos[g] < Len(lockorder[g]) /\ pos' = [pos EXCEPT ![g] = @ + 1]
      /\ UNCHANGED <<closed, lock, pc, op, selectDone, param, success, wake, lockorder>>
  BY DEF selectDequeue, wakeVars
<1>3. /\ pos'[g] = pos[g] + 1 /\ \A h \in G \ {g} : pos'[h] = pos[h]
      /\ IsSelect(g) /\ pos[g] + 1 \in 1..Len(lockorder[g])
  BY <1>0, <1>2, NextCase DEF IInv, OpInv, OpFits
<1>4. PICK i \in DOMAIN op[g].cases : i = lockorder[g][pos[g] + 1] /\ CaseChan(g, i) # Nil
  BY <1>3, OrderPlace
<1>5. PICK c \in Channel, dir \in Dir :
        /\ c = CaseChan(g, i) /\ dir = CaseDir(g, i) /\ op[g].cases[i] = [c |-> c, dir |-> dir]
        /\ <<g, i>> \in Sudog
  BY <1>0, <1>4, CasePlace DEF Sudog
<1>6. /\ \A d \in Channel, e \in Dir : d # c \/ e # dir => Queue(d, e)' = Queue(d, e)
      /\ \/ i = param[g] /\ Queue(c, dir)' = Queue(c, dir)
         \/ Queue(c, dir)' = dequeueSudoG(Queue(c, dir), <<g, i>>)
  <2>1. CASE i = param[g]
    BY <1>4, <2>1 DEF selectDequeue, queueVars, Queue
  <2>2. CASE i # param[g] /\ dir = "send"
    <3>1. /\ sendq' = [sendq EXCEPT ![c] = dequeueSudoG(@, <<g, i>>)] /\ recvq' = recvq
      BY <1>4, <1>5, <2>2 DEF selectDequeue
    <3>2. /\ sendq'[c] = dequeueSudoG(sendq[c], <<g, i>>)
          /\ \A d \in Channel \ {c} : sendq'[d] = sendq[d]
      BY <1>0, <3>1
    <3>. QED
      BY <2>2, <3>1, <3>2 DEF Queue, Dir
  <2>3. CASE i # param[g] /\ dir = "recv"
    <3>1. /\ recvq' = [recvq EXCEPT ![c] = dequeueSudoG(@, <<g, i>>)] /\ sendq' = sendq
      BY <1>4, <1>5, <2>3 DEF selectDequeue
    <3>2. /\ recvq'[c] = dequeueSudoG(recvq[c], <<g, i>>)
          /\ \A d \in Channel \ {c} : recvq'[d] = recvq[d]
      BY <1>0, <3>1
    <3>. QED
      BY <2>3, <3>1, <3>2 DEF Queue, Dir
  <2>. QED
    BY <2>1, <2>2, <2>3 DEF Dir
<1>7. \A d \in Channel, e \in Dir : Queue(d, e) \in Seq(Sudog) /\ NoDup(Queue(d, e))
  BY <1>0 DEF Queue, TypeOK, QueueOK, SInv, Drained
<1>8. \A d \in Channel, e \in Dir : \A s : InQ(d, e, s)' <=> In(Queue(d, e)', s)
  BY DEF InQ, In
<1>9. /\ \A s : In(dequeueSudoG(Queue(c, dir), <<g, i>>), s) <=>
                In(Queue(c, dir), s) /\ s # <<g, i>>
      /\ NoDup(dequeueSudoG(Queue(c, dir), <<g, i>>))
      /\ Queue(c, dir) = <<>> => dequeueSudoG(Queue(c, dir), <<g, i>>) = <<>>
  BY <1>5, <1>7, UnlinkFacts, UnlinkWithin
<1>10. ASSUME NEW d \in Channel, NEW e \in Dir, NEW s
       PROVE  /\ InQ(d, e, s)' => /\ InQ(d, e, s)
                                  /\ d # c \/ e # dir \/ s # <<g, i>> \/ i = param[g]
              /\ InQ(d, e, s) /\ s # <<g, i>> => InQ(d, e, s)'
  <2>1. CASE d = c /\ e = dir
    BY <1>6, <1>8, <1>9, <2>1 DEF InQ
  <2>2. CASE d # c \/ e # dir
    BY <1>6, <1>8, <2>2 DEF InQ
  <2>. QED
    BY <2>1, <2>2
<1>11. OthersQ(g)
  BY <1>10 DEF OthersQ
<1>12. ASSUME NEW d \in Channel, NEW e \in Dir
       PROVE  NoDup(Queue(d, e)') /\ (Queue(d, e) = <<>> => Queue(d, e)' = <<>>)
  <2>1. CASE d = c /\ e = dir
    BY <1>6, <1>7, <1>9, <2>1
  <2>2. CASE d # c \/ e # dir
    BY <1>6, <1>7, <2>2
  <2>. QED
    BY <2>1, <2>2
<1>13. \A d \in Channel : /\ NoDup(recvq'[d]) /\ NoDup(sendq'[d])
                          /\ recvq[d] = <<>> => recvq'[d] = <<>>
                          /\ sendq[d] = <<>> => sendq'[d] = <<>>
  <2>1. \A d \in Channel : /\ Queue(d, "send") = sendq[d] /\ Queue(d, "recv") = recvq[d]
                           /\ Queue(d, "send")' = sendq'[d] /\ Queue(d, "recv")' = recvq'[d]
    BY DEF Queue
  <2>2. "send" \in Dir /\ "recv" \in Dir
    BY DEF Dir
  <2>. QED
    BY <1>12, <2>1, <2>2
<1>14. Alone(g)
  BY <1>2, <1>3 DEF Alone
<1>15. Sudogs(g) /\ Won(g) /\ Woken(g) /\ Keeps(g) /\ wake[g] = {} /\ ~Chosen(g)
  BY <1>2, NoWake, NotChosen DEF SInv, GInv
<1>16. Sudogs(g)'
  <2>. SUFFICES ASSUME NEW d \in Channel, NEW e \in Dir, NEW j \in Nat, InQ(d, e, <<g, j>>)'
                PROVE  /\ pc'[g] \in Waiting
                       /\ j \in DOMAIN op'[g].cases /\ op'[g].cases[j] = [c |-> d, dir |-> e]
                       /\ ~Picked(<<g, j>>)'
                       /\ ~IsSelect(g)' => pc'[g] = "park"
                       /\ pc'[g] \in {"woken", "relock", "pass3"} => j # param'[g]
                       /\ Reached(g, j)'
    BY DEF Sudogs
  <2>1. /\ j \in DOMAIN op[g].cases /\ op[g].cases[j] = [c |-> d, dir |-> e]
        /\ ~Picked(<<g, j>>) /\ Reached(g, j) /\ j # param[g]
    <3>1. InQ(d, e, <<g, j>>)
      BY <1>10
    <3>. QED
      BY <1>2, <1>15, <3>1 DEF Sudogs
  <2>2. j # i
    <3>1. ASSUME j = i PROVE FALSE
      <4>1. [c |-> c, dir |-> dir] = [c |-> d, dir |-> e]
        BY <1>5, <2>1, <3>1
      <4>2. d = c /\ e = dir
        BY <4>1
      <4>. QED
        BY <1>10, <2>1, <3>1, <4>2
    <3>. QED
      BY <3>1
  <2>3. Reached(g, j)'
    <3>1. PICK k \in (pos[g] + 1)..Len(lockorder[g]) : lockorder[g][k] = j
      BY <1>2, <2>1 DEF Reached
    <3>2. k # pos[g] + 1
      BY <1>4, <2>2, <3>1
    <3>3. k \in (pos'[g] + 1)..Len(lockorder'[g]) /\ lockorder'[g][k] = j
      BY <1>0, <1>2, <1>3, <3>1, <3>2
    <3>. QED
      BY <1>2, <3>3 DEF Reached
  <2>. QED
    BY <1>2, <1>3, <2>1, <2>3, SelfFacts DEF Waiting
<1>17. Waits(g)' /\ Won(g)' /\ Woken(g)' /\ Wakes(g)'
  BY <1>2, <1>15, SelfFacts, WakesNone DEF Waits, Won, Woken
<1>18. Keeps(g)'
  <2>1. \A k : LockChan(g, k)' = LockChan(g, k)
    BY <1>2 DEF LockChan, CaseChan
  <2>. QED
    BY <1>2, <1>15, <2>1 DEF Keeps
<1>. QED
  BY <1>1, <1>2, <1>11, <1>13, <1>14, <1>15, <1>16, <1>17, <1>18, WaitStep DEF GInv

\* An operation that was woken returns: it has no sudog left, and does not throw.
LEMMA Leave ==
  ASSUME IInv, SInv, NEW g \in G, GoFrame(g), ChanFrame(g),
         \A c \in Channel, dir \in Dir, i \in Nat : ~InQ(c, dir, <<g, i>>), ~selectDone[g],
         pc[g] \in {"woken", "pass3"}, pc' = [pc EXCEPT ![g] = "idle"],
         param' = [param EXCEPT ![g] = 0],
         UNCHANGED <<closed, recvq, sendq, op, selectDone, success, wake, lockorder, pos>>
  PROVE  SInv'
<1>0. pc \in [G -> PC] /\ param \in [G -> Nat]
  BY DEF IInv, TypeOK, RunOK, WakeOK
<1>1. pc'[g] = "idle" /\ \A h \in G \ {g} : pc'[h] = pc[h] /\ param'[h] = param[h]
  BY <1>0
<1>2. Alone(g)
  BY <1>1 DEF Alone
<1>3. wake[g] = {} /\ ~Chosen(g)
  BY NoWake, NotChosen
<1>4. Sudogs(g)'
  <2>1. \A c \in Channel, d \in Dir, i \in Nat : ~InQ(c, d, <<g, i>>)'
    BY DEF InQ, In, Queue
  <2>. QED
    BY <2>1 DEF Sudogs
<1>5. Waits(g)' /\ Won(g)' /\ Woken(g)' /\ Wakes(g)' /\ Keeps(g)'
  BY <1>1, <1>3, SelfFacts, WakesNone DEF Waits, Won, Woken, Keeps
<1>. QED
  BY <1>2, <1>3, <1>4, <1>5, QuietStep DEF GInv

LEMMA LeaveChan ==
  ASSUME IInv, SInv, NEW g \in G, chansendWoken(g) \/ chanrecvWoken(g)
  PROVE  SInv'
<1>1. GoFrame(g) /\ ChanFrame(g)
  BY StepChansend, StepChanrecv DEF Chansend, Chanrecv
<1>2. /\ pc[g] = "woken" /\ op[g].kind = "chan" /\ param' = [param EXCEPT ![g] = 0]
      /\ UNCHANGED <<closed, recvq, sendq, op, selectDone, success, wake, lockorder, pos>>
  BY DEF chansendWoken, chanrecvWoken, chanVars, selVars
<1>3. Sudogs(g) /\ Won(g) /\ Woken(g) /\ ~IsSelect(g)
  BY <1>2 DEF SInv, GInv, IsSelect
<1>4. success[g] \/ closed[Ch(g)]
  BY <1>2, <1>3 DEF Woken
<1>5. pc' = [pc EXCEPT ![g] = "idle"]
  BY <1>4 DEF chansendWoken, chanrecvWoken, Return, Goto
<1>6. \A c \in Channel, dir \in Dir, i \in Nat : ~InQ(c, dir, <<g, i>>)
  BY <1>2, <1>3 DEF Sudogs
<1>7. ~selectDone[g]
  BY <1>3 DEF Won
<1>. QED
  BY <1>1, <1>2, <1>5, <1>6, <1>7, Leave

LEMMA LeaveSelect ==
  ASSUME IInv, SInv, NEW g \in G, selectFinish(g)
  PROVE  SInv'
<1>0. Len(lockorder[g]) \in Nat /\ op[g].cases \in Seq(Case)
  BY OpType DEF IInv, TypeOK, SelOK
<1>1. GoFrame(g) /\ ChanFrame(g)
  BY StepSelectgo DEF Selectgo
<1>2. /\ pc[g] = "pass3" /\ pos[g] = Len(lockorder[g])
      /\ UNCHANGED <<closed, recvq, sendq, op, selectDone, success, wake, lockorder, pos>>
  BY DEF selectFinish, queueVars, selVars
<1>3. Sudogs(g) /\ Won(g) /\ Woken(g) /\ IsSelect(g) /\ ~Chosen(g)
  BY <1>2, NotChosen DEF SInv, GInv, IInv, OpInv, OpFits
<1>4. param[g] # 0
  BY <1>0, <1>2, <1>3 DEF Woken
<1>5. pc' = [pc EXCEPT ![g] = "idle"] /\ param' = [param EXCEPT ![g] = 0]
  BY <1>4 DEF selectFinish, Return, Goto
<1>6. ASSUME NEW c \in Channel, NEW dir \in Dir, NEW i \in Nat, InQ(c, dir, <<g, i>>)
      PROVE  FALSE
  <2>1. Reached(g, i)
    BY <1>3, <1>6 DEF Sudogs
  <2>2. PICK k \in (pos[g] + 1)..Len(lockorder[g]) : lockorder[g][k] = i
    BY <1>2, <2>1 DEF Reached
  <2>. QED
    BY <1>0, <1>2, <2>2
<1>7. ~selectDone[g]
  BY <1>2, <1>3 DEF Won
<1>. QED
  BY <1>1, <1>2, <1>5, <1>6, <1>7, Leave

-----------------------------------------------------------------------------
(* goready.                                                                *)

\* g readies the goroutine of the sudog <<y, i>>, one of those it has taken.
Readies(g, y, i) ==
  /\ pc[g] = "ready" /\ <<y, i>> \in wake[g]
  /\ wake'[g] = wake[g] \ {<<y, i>>} /\ \A h \in G \ {g} : wake'[h] = wake[h]
  /\ pc'[y] = "woken" /\ pc'[g] = (IF wake[g] = {<<y, i>>} THEN "idle" ELSE "ready")
  /\ \A h \in G \ {g, y} : pc'[h] = pc[h]
  /\ param'[y] = i /\ (success'[y] \/ op[g].kind = "close")
  /\ \A h \in G \ {y} : UNCHANGED <<param[h], success[h]>>
  /\ UNCHANGED <<closed, recvq, sendq, op, selectDone, lockorder, pos>>

LEMMA ReadySudog ==
  ASSUME IInv, SInv, NEW g \in G, NEW y \in G, NEW i \in Nat, Readies(g, y, i), NEW h \in G
  PROVE  GInv(h)'
<1>. USE DEF Readies
<1>0. /\ Sudogs(h) /\ Waits(h) /\ Won(h) /\ Woken(h) /\ Wakes(h) /\ TypeOK
      /\ Sudogs(y) /\ Won(y) /\ Woken(y) /\ Wakes(g)
  BY DEF SInv, GInv, IInv
<1>1. <<y, i>>[1] = y /\ <<y, i>>[2] = i
  OBVIOUS
<1>2. /\ y # g /\ pc[y] = "park" /\ i \in DOMAIN op[y].cases /\ CaseChan(y, i) \in Channel
      /\ op[g].kind = "close" => closed[CaseChan(y, i)]
      /\ \A k \in G : \A t \in wake[k] : y = t[1] => g = k /\ <<y, i>> = t
  BY <1>0, <1>1 DEF Wakes
<1>3. ASSUME NEW k \in G, NEW t
      PROVE  t \in wake'[k] <=> t \in wake[k] /\ t # <<y, i>>
  <2>1. CASE k = g
    BY <2>1
  <2>2. CASE k # g
    <3>1. <<y, i>> \notin wake[k]
      BY <1>1, <1>2, <2>2
    <3>. QED
      BY <2>2, <3>1
  <2>. QED
    BY <2>1, <2>2
<1>4. \A s : Picked(s)' <=> Picked(s) /\ s # <<y, i>>
  BY <1>3 DEF Picked
<1>5. Picked(<<y, i>>) /\ Chosen(y)
  BY <1>1 DEF Picked, Chosen
<1>6. \A x \in G : Chosen(x)' <=> Chosen(x) /\ x # y
  <2>1. ASSUME NEW x \in G PROVE Chosen(x)' => Chosen(x) /\ x # y
    BY <1>1, <1>2, <1>3 DEF Chosen
  <2>2. ASSUME NEW x \in G, x # y PROVE Chosen(x) => Chosen(x)'
    BY <1>1, <1>3, <2>2 DEF Chosen
  <2>. QED
    BY <2>1, <2>2
<1>7. \A x, j : /\ CaseChan(x, j)' = CaseChan(x, j) /\ CaseDir(x, j)' = CaseDir(x, j)
                /\ IsSelect(x)' = IsSelect(x) /\ Ch(x)' = Ch(x)
  BY DEF CaseChan, CaseDir, IsSelect, Ch
<1>8. \A c \in Channel, d \in Dir : \A s : InQ(c, d, s)' <=> InQ(c, d, s)
  BY DEF InQ, In, Queue
<1>9. pc'[g] \in {"idle", "ready"} /\ ~Chosen(g)
  BY NotChosen
<1>10. Sudogs(h)'
  <2>. SUFFICES ASSUME NEW d \in Channel, NEW e \in Dir, NEW j \in Nat, InQ(d, e, <<h, j>>)'
                PROVE  /\ pc'[h] \in Waiting
                       /\ j \in DOMAIN op'[h].cases /\ op'[h].cases[j] = [c |-> d, dir |-> e]
                       /\ ~Picked(<<h, j>>)'
                       /\ ~IsSelect(h)' => pc'[h] = "park"
                       /\ pc'[h] \in {"woken", "relock", "pass3"} => j # param'[h]
                       /\ Reached(h, j)'
    BY DEF Sudogs
  <2>1. /\ pc[h] \in Waiting
        /\ j \in DOMAIN op[h].cases /\ op[h].cases[j] = [c |-> d, dir |-> e]
        /\ ~Picked(<<h, j>>)
        /\ ~IsSelect(h) => pc[h] = "park"
        /\ pc[h] \in {"woken", "relock", "pass3"} => j # param[h]
        /\ Reached(h, j)
    BY <1>0, <1>8 DEF Sudogs
  <2>2. h # g
    BY <2>1 DEF Waiting
  <2>3. CASE h = y
    <3>1. j # i
      BY <1>5, <2>1, <2>3
    <3>2. IsSelect(y)
      BY <1>0, <1>2, <2>1, <2>3, <3>1, SingleCase
    <3>3. Reached(h, j)'
      BY <2>3 DEF Reached
    <3>. QED
      BY <1>4, <1>7, <2>1, <2>3, <3>1, <3>2, <3>3 DEF Waiting
  <2>4. CASE h # y
    <3>1. Reached(h, j)'
      BY <2>1, <2>2, <2>4 DEF Reached
    <3>. QED
      BY <1>4, <1>7, <2>1, <2>2, <2>4, <3>1
  <2>. QED
    BY <2>3, <2>4
<1>11. Waits(h)'
  <2>1. CASE h = y \/ h = g
    BY <1>9, <2>1 DEF Waits
  <2>2. CASE h # y /\ h # g
    <3>1. \A j : Queued(h, j)' <=> Queued(h, j)
      BY <1>7 DEF Queued, Queue
    <3>. QED
      BY <1>0, <1>6, <1>7, <2>2, <3>1 DEF Waits
  <2>. QED
    BY <2>1, <2>2
<1>12. Won(h)'
  <2>1. CASE h = y
    BY <1>0, <1>5, <1>7, <2>1 DEF Won
  <2>2. CASE h # y
    BY <1>0, <1>6, <1>7, <1>9, <2>2 DEF Won
  <2>. QED
    BY <2>1, <2>2
<1>13. Woken(h)'
  <2>1. CASE h = y
    <3>1. ~IsSelect(y) => i = 1
      BY <1>0, <1>2, SingleCase
    <3>2. ~IsSelect(y) => Ch(y) \in Channel /\ (success'[y] \/ closed[Ch(y)])
      BY <1>2, <3>1 DEF Ch
    <3>. QED
      BY <1>0, <1>2, <1>7, <2>1, <3>2 DEF Woken
  <2>2. CASE h = g
    BY <1>9, <2>2 DEF Woken
  <2>3. CASE h # y /\ h # g
    BY <1>0, <1>7, <2>3 DEF Woken
  <2>. QED
    BY <2>1, <2>2, <2>3
<1>14. Wakes(h)'
  <2>1. wake'[h] # {} => pc'[h] \in {"closing", "ready"}
    <3>1. CASE h = g
      BY <3>1
    <3>2. CASE h # g
      <4>1. wake'[h] = wake[h] /\ (wake[h] # {} => pc[h] \in {"closing", "ready"})
        BY <1>0, <3>2 DEF Wakes
      <4>2. pc[h] \in {"closing", "ready"} => h # y
        BY <1>2
      <4>. QED
        BY <3>2, <4>1, <4>2
    <3>. QED
      BY <3>1, <3>2
  <2>2. ASSUME NEW s \in wake'[h]
        PROVE  /\ pc'[s[1]] = "park" /\ s[2] \in DOMAIN op'[s[1]].cases
               /\ CaseChan(s[1], s[2])' \in Channel
               /\ op'[h].kind = "close" =>
                    param'[s[1]] = s[2] /\ closed'[CaseChan(s[1], s[2])']
               /\ \A k \in G : \A t \in wake'[k] : s[1] = t[1] => h = k /\ s = t
    <3>1. s \in wake[h] /\ s # <<y, i>>
      BY <1>3, <2>2
    <3>2. s \in Sudog
      BY <1>0, <3>1 DEF TypeOK, WakeOK
    <3>3. PICK x \in G : x = s[1]
      BY <3>2 DEF Sudog
    <3>4. x # y /\ x # g
      BY <1>2, <1>9, <3>1, <3>3 DEF Chosen
    <3>5. \A k \in G : \A t \in wake'[k] : s[1] = t[1] => h = k /\ s = t
      BY <1>0, <1>3, <3>1 DEF Wakes
    <3>. QED
      BY <1>0, <1>7, <3>1, <3>3, <3>4, <3>5 DEF Wakes
  <2>. QED
    BY <2>1, <2>2 DEF Wakes
<1>. QED
  BY <1>10, <1>11, <1>12, <1>13, <1>14 DEF GInv

LEMMA ReadyStep ==
  ASSUME IInv, SInv, NEW g \in G, goready(g)
  PROVE  SInv'
<1>0. /\ pc \in [G -> PC] /\ param \in [G -> Nat] /\ success \in [G -> BOOLEAN]
      /\ wake \in [G -> SUBSET Sudog]
  BY DEF IInv, TypeOK, RunOK, WakeOK
<1>1. GoFrame(g) /\ ChanFrame(g)
  BY StepOther
<1>2. PICK sg \in wake[g] :
        /\ wake' = [wake EXCEPT ![g] = @ \ {sg}]
        /\ pc' = [pc EXCEPT ![sg[1]] = "woken",
                            ![g] = IF wake[g] = {sg} THEN "idle" ELSE "ready"]
        /\ IF op[g].kind = "close"
             THEN UNCHANGED <<param, success>>
             ELSE /\ param' = [param EXCEPT ![sg[1]] = sg[2]]
                  /\ success' = [success EXCEPT ![sg[1]] = TRUE]
  BY DEF goready
<1>3. PICK y \in G, i \in Nat : sg = <<y, i>>
  BY <1>0, <1>2 DEF Sudog
<1>4. /\ pc[g] = "ready"
      /\ UNCHANGED <<closed, recvq, sendq, op, selectDone, lockorder, pos>>
  BY DEF goready, chanVars, selVars
<1>5. pc[y] = "park" /\ y # g /\ (op[g].kind = "close" => param[y] = i)
  BY <1>2, <1>3, <1>4 DEF SInv, GInv, Wakes
<1>6. Readies(g, y, i)
  <2>1. /\ wake'[g] = wake[g] \ {<<y, i>>} /\ \A h \in G \ {g} : wake'[h] = wake[h]
    BY <1>0, <1>2, <1>3
  <2>2. /\ pc'[y] = "woken" /\ pc'[g] = (IF wake[g] = {<<y, i>>} THEN "idle" ELSE "ready")
        /\ \A h \in G \ {g, y} : pc'[h] = pc[h]
    BY <1>0, <1>2, <1>3, <1>5
  <2>3. /\ param'[y] = i /\ (success'[y] \/ op[g].kind = "close")
        /\ \A h \in G \ {y} : UNCHANGED <<param[h], success[h]>>
    BY <1>0, <1>2, <1>3, <1>5
  <2>. QED
    BY <1>2, <1>3, <1>4, <2>1, <2>2, <2>3 DEF Readies
<1>7. \A h \in G : GInv(h)'
  BY <1>6, ReadySudog
<1>8. Keeps(g)' /\ CloseFrame(g)
  BY <1>4, <1>6 DEF Keeps, CloseFrame, Readies
<1>9. \A h \in G : pc[h] = "closing" => pc'[h] = "closing" /\ op'[h] = op[h]
  BY <1>4, <1>5, <1>6 DEF Readies
<1>10. \A c \in Channel : Drained(c)'
  BY <1>4, <1>9, SameQueues, DrainedStale
<1>. QED
  BY <1>1, <1>7, <1>8, <1>10, Assemble

-----------------------------------------------------------------------------
(* The invariant.                                                          *)

LEMMA SInvInit == Init => SInv
<1>. SUFFICES ASSUME Init PROVE SInv
  OBVIOUS
<1>1. /\ \A g \in G : /\ pc[g] = "idle" /\ wake[g] = {} /\ ~selectDone[g]
      /\ \A c \in Channel : recvq[c] = <<>> /\ sendq[c] = <<>> /\ ~closed[c]
  BY DEF Init
<1>2. \A c \in Channel, dir \in Dir : \A s : ~InQ(c, dir, s)
  BY <1>1 DEF InQ, In, Queue
<1>3. \A g \in G : ~Chosen(g)
  BY <1>1 DEF Chosen
<1>4. ASSUME NEW g \in G PROVE GInv(g) /\ Keeps(g)
  BY <1>1, <1>2, <1>3 DEF GInv, Sudogs, Waits, Won, Woken, Wakes, Keeps
<1>5. \A c \in Channel : Drained(c)
  BY <1>1 DEF Drained, NoDup
<1>. QED
  BY <1>4, <1>5 DEF SInv

\* Every step preserves it.
LEMMA SInvNext == IInv /\ SInv /\ [Next]_vars => SInv'
<1>. SUFFICES ASSUME IInv, SInv, [Next]_vars PROVE SInv'
  OBVIOUS
<1>1. ASSUME NEW g \in G, NEW o \in Ops, CallChan(g, o) \/ CallNil(g, o) \/ CallSelect(g, o)
      PROVE  SInv'
  BY <1>1, PassCall
<1>2. ASSUME NEW g \in G, Chansend(g) PROVE SInv'
  BY <1>2, PassChansend, TakeDirect, WaitBlock, LeaveChan DEF Chansend
<1>3. ASSUME NEW g \in G, Chanrecv(g) PROVE SInv'
  BY <1>3, PassChanrecv, TakeDirect, WaitBlock, LeaveChan DEF Chanrecv
<1>4. ASSUME NEW g \in G, Closechan(g) PROVE SInv'
  BY <1>4, PassOther, CloseBegin, TakeClose, CloseEnd DEF Closechan
<1>5. ASSUME NEW g \in G, SelectPass1(g) PROVE SInv'
  BY <1>5, PassPass1, PassNext, TakeSelect, WaitSelectBlock DEF SelectPass1
<1>6. ASSUME NEW g \in G, sellock(g) PROVE SInv'
  <2>1. pc[g] \in {"sellock", "relock"}
    BY <1>6 DEF sellock
  <2>. QED
    BY <1>6, <2>1, PassSellock, WaitRelock
<1>7. ASSUME NEW g \in G, Selectgo(g) PROVE SInv'
  BY <1>5, <1>6, <1>7, WaitEnqueue, WaitPark, WaitCommit, WaitWoken, WaitRelocked, WaitDequeue,
     LeaveSelect DEF Selectgo
<1>8. ASSUME NEW g \in G, goready(g) \/ nilchan(g) PROVE SInv'
  BY <1>8, ReadyStep, PassOther
<1>9. CASE UNCHANGED vars
  <2>1. UNCHANGED <<closed, recvq, sendq, lock, pc, op, selectDone, param, success, wake,
                    lockorder, pos, polled>>
    BY <1>9 DEF vars, chanVars, wakeVars, selVars
  <2>2. \A c, dir : Queue(c, dir)' = Queue(c, dir)
    BY <2>1 DEF Queue
  <2>3. \A g, i : CaseChan(g, i)' = CaseChan(g, i) /\ CaseDir(g, i)' = CaseDir(g, i)
    BY <2>1 DEF CaseChan, CaseDir
  <2>. QED
    BY <2>1, <2>2, <2>3 DEF SInv, GInv, Sudogs, Waits, Won, Woken, Wakes, Keeps, Drained, InQ, In,
       Picked, Chosen, Reached, Queued, IsSelect, Ch, LockChan, NoDup
<1>. QED
  BY <1>1, <1>2, <1>3, <1>4, <1>7, <1>8, <1>9 DEF Next, Run

\* SInv is an invariant of the specification, next to IInv.
THEOREM SudogInvariant == Spec => [](IInv /\ SInv)
<1>1. Init => IInv /\ SInv
  BY IInvInit, SInvInit
<1>2. IInv /\ SInv /\ [Next]_vars => (IInv /\ SInv)'
  BY IInvNext, SInvNext
<1>. QED
  BY <1>1, <1>2, PTL DEF Spec

\* goready finds its goroutine parked, and nobody else readies it: the race of
\* several dequeues for the sudogs of one select has one winner, and ready()
\* does not throw.
THEOREM ReadyOnceCorrect == Spec => []ReadyOnce
<1>1. SInv => ReadyOnce
  BY DEF SInv, GInv, Wakes, ReadyOnce
<1>. QED
  BY <1>1, SudogInvariant, PTL

\* A parked goroutine that nobody has taken is in the queue of each channel it
\* waits for, and its select can still be won.
THEOREM NoLostWaiterCorrect == Spec => []NoLostWaiter
<1>1. SInv => NoLostWaiter
  <2>. SUFFICES ASSUME SInv, NEW g \in G, pc[g] = "park", ~Chosen(g)
                PROVE  /\ ~selectDone[g]
                       /\ \A i \in DOMAIN op[g].cases : CaseChan(g, i) # Nil => Queued(g, i)
    BY DEF NoLostWaiter
  <2>1. Won(g) /\ Waits(g)
    BY DEF SInv, GInv
  <2>. QED
    BY <2>1 DEF Won, Waits
<1>. QED
  BY <1>1, SudogInvariant, PTL

\* A sudog in a queue is of a case its goroutine still waits for, once.
THEOREM NoDanglingSudogCorrect == Spec => []NoDanglingSudog
<1>1. IInv /\ SInv => NoDanglingSudog
  <2>. SUFFICES ASSUME IInv, SInv, NEW c \in Channel, NEW dir \in Dir,
                       NEW k \in DOMAIN Queue(c, dir)
                PROVE  LET g == Queue(c, dir)[k][1]
                           i == Queue(c, dir)[k][2]
                       IN  /\ pc[g] \in {"pass2", "park", "woken", "relock", "pass3"}
                           /\ i \in DOMAIN op[g].cases /\ op[g].cases[i] = [c |-> c, dir |-> dir]
                           /\ \A l \in DOMAIN Queue(c, dir) : Queue(c, dir)[l] = <<g, i>> => l = k
    BY DEF NoDanglingSudog
  <2>1. Queue(c, dir) \in Seq(Sudog) /\ NoDup(Queue(c, dir))
    BY DEF Queue, IInv, TypeOK, QueueOK, SInv, Drained
  <2>2. PICK g \in G, i \in Nat : Queue(c, dir)[k] = <<g, i>>
    BY <2>1 DEF Sudog
  <2>3. InQ(c, dir, <<g, i>>) /\ Sudogs(g)
    BY <2>2 DEF InQ, In, SInv, GInv
  <2>4. /\ pc[g] \in Waiting
        /\ i \in DOMAIN op[g].cases /\ op[g].cases[i] = [c |-> c, dir |-> dir]
    BY <2>3 DEF Sudogs
  <2>5. \A l \in DOMAIN Queue(c, dir) : Queue(c, dir)[l] = <<g, i>> => l = k
    BY <2>1, <2>2 DEF NoDup
  <2>. QED
    BY <2>2, <2>4, <2>5 DEF Waiting
<1>. QED
  BY <1>1, SudogInvariant, PTL

\* Once the closechan that closed a channel has unlocked it, nobody is queued there.
THEOREM ClosedDrainedCorrect == Spec => []ClosedDrained
<1>1. IInv /\ SInv => ClosedDrained
  <2>1. IInv => \A h \in G : pc[h] = "closing" => lock[Ch(h)] = h
    BY DEF IInv, LockInv, Holds
  <2>. QED
    BY <2>1 DEF SInv, Drained, ClosedDrained
<1>. QED
  BY <1>1, SudogInvariant, PTL

\* The throws of chansend and selectgo on a bad wakeup are unreachable.
THEOREM NoThrowCorrect == Spec => []NoThrow
<1>1. SInv => NoThrow
  BY DEF SInv, GInv, Woken, NoThrow
<1>. QED
  BY <1>1, SudogInvariant, PTL

-----------------------------------------------------------------------------
(* What the operations return: the refinement of ChanSpec.                 *)

FastSend == {"sendClosed", "sendFull", "sendFullFirst", "sendClosedLast"}
FastRecv == {"recvEmpty", "recvClosed", "recvRecheck"}

\* The fast paths are those of non-blocking operations, "nil" is for the nil
\* channel, and who has been woken, or is about to be, knows by which case and how.
CallFits(g) ==
  /\ pc[g] \in FastSend => op[g].kind = "chan" /\ ~op[g].block /\ CaseDir(g, 1) = "send"
  /\ pc[g] \in FastRecv => op[g].kind = "chan" /\ ~op[g].block /\ CaseDir(g, 1) = "recv"
  /\ pc[g] = "nil" => ~IsSelect(g) /\ Ch(g) = Nil
  /\ pc[g] = "recvRecheck" => closed[Ch(g)]
  /\ pc[g] = "woken" => param[g] \in DOMAIN op[g].cases
  /\ op[g].kind = "close" => \A s \in wake[g] : ~success[s[1]]

\* The slot of the k-th of the elements that start at r in a buffer of n slots, and
\* the m elements from r on.
Slot(r, k, n)    == (r + k - 1) % n
Ring(b, r, m, n) == [k \in 1..m |-> b[Slot(r, k, n)]]

\* A channel with waiting receivers is empty, closed or not, and sendx is the slot
\* behind the last of the qcount elements of the buffer.
Indexed(c) == dataqsiz[c] > 0 => sendx[c] = Slot(recvx[c], qcount[c] + 1, dataqsiz[c])
BufFits(c) == (recvq[c] # <<>> => qcount[c] = 0) /\ Indexed(c)

LInv == (\A g \in G : CallFits(g)) /\ (\A c \in Channel : BufFits(c))

-----------------------------------------------------------------------------
(* The kinds of steps.                                                     *)

\* g acts alone: it takes no sudog and wakes nobody.
Solo(g) ==
  /\ UNCHANGED <<wake, success>> /\ (wake[g] # {} => op'[g] = op[g])
  /\ \A h \in G \ {g} : UNCHANGED <<pc[h], op[h], ret[h], calls[h], param[h]>>

\* The steps in which g takes a sudog.
TakeStepOf(g) ==
  \/ chansendDirect(g) \/ chanrecvDirect(g) \/ closechanRecvq(g) \/ closechanSendq(g)
  \/ \E i \in DOMAIN op[g].cases : selectSend(g, i) \/ selectRecv(g, i)

CallStep(g) == \E o \in Ops : CallChan(g, o) \/ CallNil(g, o) \/ CallSelect(g, o)

LEMMA StepKinds ==
  ASSUME IInv, SInv, NEW g \in G, CallStep(g) \/ Run(g)
  PROVE  Solo(g) \/ TakeStepOf(g) \/ goready(g)
<1>0. /\ DOMAIN pc = G /\ DOMAIN op = G /\ DOMAIN ret = G /\ DOMAIN calls = G /\ DOMAIN param = G
      /\ (wake[g] # {} => pc[g] \in {"closing", "ready"})
  BY DEF IInv, TypeOK, RunOK, WakeOK, SInv, GInv, Wakes
<1>1. CASE CallStep(g)
  BY <1>0, <1>1 DEF CallStep, CallChan, CallNil, CallSelect, Call, Goto, wakeVars, Solo
<1>2. CASE Chansend(g)
  <2>1. CASE sendClosed(g) \/ sendFull(g) \/ sendFullFirst(g) \/ sendClosedLast(g)
    BY <1>0, <2>1 DEF sendClosed, sendFull, sendFullFirst, sendClosedLast, Goto, Return, wakeVars,
       Solo
  <2>2. CASE chansendClosed(g) \/ chansendBuffer(g) \/ chansendFail(g) \/ chansendBlock(g)
    BY <1>0, <2>2 DEF chansendClosed, chansendBuffer, chansendFail, chansendBlock, Enter, bufsend,
       Goto, Return, Solo
  <2>3. CASE chansendWoken(g)
    BY <1>0, <2>3 DEF chansendWoken, Goto, Return, Solo
  <2>. QED
    BY <1>2, <2>1, <2>2, <2>3 DEF Chansend, TakeStepOf
<1>3. CASE Chanrecv(g)
  <2>1. CASE recvEmpty(g) \/ recvClosed(g) \/ recvRecheck(g)
    BY <1>0, <2>1 DEF recvEmpty, recvClosed, recvRecheck, Goto, Return, wakeVars, Solo
  <2>2. CASE chanrecvClosed(g) \/ chanrecvBuffer(g) \/ chanrecvFail(g) \/ chanrecvBlock(g)
    BY <1>0, <2>2 DEF chanrecvClosed, chanrecvBuffer, chanrecvFail, chanrecvBlock, Enter, bufrecv,
       Goto, Return, Solo
  <2>3. CASE chanrecvWoken(g)
    BY <1>0, <2>3 DEF chanrecvWoken, Goto, Return, Solo
  <2>. QED
    BY <1>3, <2>1, <2>2, <2>3 DEF Chanrecv, TakeStepOf
<1>4. CASE Closechan(g)
  <2>1. CASE closechanClosed(g) \/ closechan(g) \/ closechanUnlock(g)
    BY <1>0, <2>1 DEF closechanClosed, closechan, closechanUnlock, Goto, Return, wakeVars, Solo
  <2>. QED
    BY <1>4, <2>1 DEF Closechan, TakeStepOf
<1>5. CASE SelectPass1(g)
  <2>1. ASSUME NEW i \in DOMAIN op[g].cases,
               \/ selectBufrecv(g, i) \/ selectRclose(g, i) \/ selectBufsend(g, i)
               \/ selectSclose(g, i) \/ selectNext(g, i)
        PROVE  Solo(g)
    BY <1>0, <2>1 DEF selectBufrecv, selectRclose, selectBufsend, selectSclose, selectNext, Poll,
       bufsend, bufrecv, Goto, Return, Solo
  <2>2. CASE selectDefault(g) \/ selectBlock(g)
    BY <1>0, <2>2 DEF selectDefault, selectBlock, Goto, Return, wakeVars, Solo
  <2>. QED
    BY <1>5, <2>1, <2>2 DEF SelectPass1, TakeStepOf
<1>6. CASE sellock(g) \/ selectEnqueue(g) \/ selparkcommit(g) \/ selectDequeue(g)
  BY <1>6 DEF sellock, selectEnqueue, selparkcommit, selectDequeue, wakeVars, Solo
<1>7. CASE selectPark(g) \/ selectWoken(g) \/ selectRelocked(g) \/ selectFinish(g)
  BY <1>0, <1>7 DEF selectPark, selectWoken, selectRelocked, selectFinish, Goto, Return, wakeVars,
     Solo
<1>8. CASE nilchan(g)
  BY <1>0, <1>8 DEF nilchan, Goto, Return, wakeVars, Solo
<1>. QED
  BY <1>1, <1>2, <1>3, <1>4, <1>5, <1>6, <1>7, <1>8 DEF Run, Selectgo

\* The waiter that dequeue() returns from the queue of c for dir.
Waiter(g, c, dir, y, i) ==
  /\ Queue(c, dir)[First(Queue(c, dir))] = <<y, i>>
  /\ y # g /\ pc[y] = "park" /\ ~Chosen(y) /\ op[y].kind \in {"chan", "select"}
  /\ i \in DOMAIN op[y].cases /\ op[y].cases[i] = [c |-> c, dir |-> dir]

LEMMA FirstWaiter ==
  ASSUME IInv, SInv, NEW g \in G, NEW c \in Channel, NEW dir \in Dir, lock[c] \in {NoG, g},
         pc[g] \notin Waiting, Live(Queue(c, dir)) # {}
  PROVE  \E y \in G, i \in Nat : Waiter(g, c, dir, y, i)
<1>. DEFINE q == Queue(c, dir)
<1>1. q \in Seq(Sudog) /\ NoDup(q)
  BY DEF Queue, IInv, TypeOK, QueueOK, SInv, Drained
<1>. HIDE DEF q
<1>2. In(q, q[First(q)]) /\ ~Stale(q[First(q)]) /\ q[First(q)] \in Sudog
  BY <1>1, RestFacts DEF q
<1>3. PICK y \in G, i \in Nat : q[First(q)] = <<y, i>>
  BY <1>2 DEF Sudog
<1>4. InQ(c, dir, <<y, i>>)
  BY <1>2, <1>3 DEF InQ, q
<1>5. y # g /\ pc[y] = "park" /\ ~Chosen(y)
  BY <1>2, <1>3, <1>4, LiveParked
<1>6. Sudogs(y) /\ Woken(y)
  BY DEF SInv, GInv
<1>7. i \in DOMAIN op[y].cases /\ op[y].cases[i] = [c |-> c, dir |-> dir]
  BY <1>4, <1>6 DEF Sudogs
<1>. QED
  BY <1>3, <1>5, <1>6, <1>7 DEF Woken, Waiter, q

-----------------------------------------------------------------------------
(* The fast paths and the woken.                                           *)

\* A closed channel stays closed, and only closechan closes one.
LEMMA ClosedStays ==
  ASSUME IInv, NEW g \in G, CallStep(g) \/ Run(g)
  PROVE  UNCHANGED closed \/ closechan(g)
<1>1. CASE CallStep(g) \/ goready(g) \/ nilchan(g)
  BY <1>1 DEF CallStep, CallChan, CallNil, CallSelect, Call, goready, nilchan, chanVars
<1>2. CASE Chansend(g)
  BY <1>2 DEF Chansend, sendClosed, sendFull, sendFullFirst, sendClosedLast, chansendClosed,
     chansendDirect, chansendBuffer, chansendFail, chansendBlock, chansendWoken, Enter, chanVars
<1>3. CASE Chanrecv(g)
  BY <1>3 DEF Chanrecv, recvEmpty, recvClosed, recvRecheck, chanrecvClosed,
     chanrecvDirect, chanrecvBuffer, chanrecvFail, chanrecvBlock, chanrecvWoken, Enter, chanVars
<1>4. CASE Closechan(g)
  BY <1>4 DEF Closechan, closechanClosed, closechanRecvq, closechanSendq, closechanUnlock, chanVars
<1>5. CASE SelectPass1(g)
  BY <1>5 DEF SelectPass1, selectRecv, selectBufrecv, selectRclose, selectSend, selectBufsend,
     selectSclose, selectNext, selectDefault, selectBlock, Poll, chanVars
<1>6. CASE Selectgo(g)
  BY <1>5, <1>6 DEF Selectgo, sellock, selectEnqueue, selectPark, selparkcommit, selectWoken,
     selectRelocked, selectDequeue, selectFinish, chanVars
<1>. QED
  BY <1>1, <1>2, <1>3, <1>4, <1>6 DEF Run

LEMMA ClosedMonotone ==
  ASSUME IInv, NEW g \in G, CallStep(g) \/ Run(g), NEW c \in Channel, closed[c]
  PROVE  closed'[c]
<1>1. CASE closechan(g)
  BY <1>1 DEF closechan, IInv, TypeOK, BufOK
<1>. QED
  BY <1>1, ClosedStays

\* The other goroutines, when g acts alone.
LEMMA FitsOther ==
  ASSUME IInv, LInv, NEW g \in G, CallStep(g) \/ Run(g), Solo(g), NEW h \in G \ {g}
  PROVE  CallFits(h)'
<1>1. UNCHANGED <<pc[h], op[h], param[h], wake, success>> /\ CallFits(h)
  BY DEF Solo, LInv
<1>2. IsSelect(h)' = IsSelect(h) /\ Ch(h)' = Ch(h) /\ CaseDir(h, 1)' = CaseDir(h, 1)
  BY <1>1 DEF IsSelect, Ch, CaseChan, CaseDir
<1>3. pc[h] = "recvRecheck" => Ch(h) \in Channel
  BY DEF IInv, OpInv, OpFits, ChanPC
<1>. QED
  BY <1>1, <1>2, <1>3, ClosedMonotone DEF CallFits

\* g, when it is neither on the fast path nor just woken.
LEMMA FitsSelf ==
  ASSUME LInv, NEW g \in G, Solo(g), pc'[g] \notin FastSend \cup FastRecv \cup {"nil", "woken"}
  PROVE  CallFits(g)'
<1>1. /\ UNCHANGED <<wake, success>> /\ (wake[g] # {} => op'[g] = op[g]) /\ CallFits(g)
  BY DEF Solo, LInv
<1>2. op'[g].kind = "close" => \A s \in wake'[g] : ~success'[s[1]]
  BY <1>1 DEF CallFits
<1>. QED
  BY <1>2 DEF CallFits, FastSend, FastRecv

\* A call puts g where its operation belongs.
LEMMA FitsCall ==
  ASSUME IInv, SInv, LInv, NEW g \in G, CallStep(g)
  PROVE  CallFits(g)'
<1>0. /\ pc \in [G -> PC] /\ op \in [G -> Ops \cup {NoOp}] /\ wake[g] = {} /\ UNCHANGED wake
  BY DEF IInv, TypeOK, RunOK, SInv, GInv, Wakes, CallStep, CallChan, CallNil, CallSelect, Call,
     wakeVars
<1>1. PICK o \in Ops : CallChan(g, o) \/ CallNil(g, o) \/ CallSelect(g, o)
  BY DEF CallStep
<1>2. /\ op'[g] = o /\ CaseDir(g, 1)' = o.cases[1].dir /\ Ch(g)' = o.cases[1].c
      /\ IsSelect(g)' = (o.kind = "select")
  BY <1>0, <1>1 DEF CallChan, CallNil, CallSelect, Call, CaseDir, Ch, CaseChan, IsSelect
<1>3. CASE CallChan(g, o)
  <2>1. \/ pc'[g] = "lock"
        \/ /\ pc'[g] \in {"sendClosed", "sendFullFirst"}
           /\ o.kind = "chan" /\ ~o.block /\ o.cases[1].dir = "send"
        \/ /\ pc'[g] = "recvEmpty"
           /\ o.kind = "chan" /\ ~o.block /\ o.cases[1].dir = "recv"
    BY <1>0, <1>3 DEF CallChan, Goto
  <2>. QED
    BY <1>0, <1>2, <2>1 DEF CallFits, FastSend, FastRecv
<1>4. CASE CallNil(g, o)
  <2>1. pc'[g] = "nil" /\ o.kind # "select" /\ o.cases[1].c = Nil
    BY <1>0, <1>4 DEF CallNil, Goto
  <2>. QED
    BY <1>0, <1>2, <2>1 DEF CallFits, FastSend, FastRecv
<1>5. CASE CallSelect(g, o)
  <2>1. pc'[g] = "sellock"
    BY <1>0, <1>5 DEF CallSelect, Goto
  <2>. QED
    BY <1>0, <1>2, <2>1 DEF CallFits, FastSend, FastRecv
<1>. QED
  BY <1>1, <1>3, <1>4, <1>5

\* A step along the fast path.
LEMMA FitsFast ==
  ASSUME IInv, LInv, NEW g \in G, Solo(g),
         \/ sendClosed(g) \/ sendFull(g) \/ sendFullFirst(g) \/ sendClosedLast(g)
         \/ recvEmpty(g) \/ recvClosed(g) \/ recvRecheck(g)
  PROVE  CallFits(g)'
<1>0. pc \in [G -> PC] /\ CallFits(g)
  BY DEF IInv, TypeOK, RunOK, LInv
<1>1. UNCHANGED <<op, closed, wake, success>> /\ Ch(g)' = Ch(g) /\ CaseDir(g, 1)' = CaseDir(g, 1)
  BY DEF sendClosed, sendFull, sendFullFirst, sendClosedLast, recvEmpty, recvClosed, recvRecheck,
     chanVars, Ch, CaseDir, CaseChan, Solo
<1>2. \/ pc[g] \in FastSend /\ pc'[g] \in FastSend \cup {"lock", "idle"}
      \/ pc[g] \in FastRecv /\ pc'[g] \in FastRecv \cup {"lock", "idle"}
  BY <1>0 DEF sendClosed, sendFull, sendFullFirst, sendClosedLast, recvEmpty, recvClosed,
     recvRecheck, Goto, Return, FastSend, FastRecv
<1>3. pc'[g] = "recvRecheck" => closed[Ch(g)]
  BY <1>0 DEF sendClosed, sendFull, sendFullFirst, sendClosedLast, recvEmpty, recvClosed,
     recvRecheck, Goto, Return
<1>. QED
  BY <1>0, <1>1, <1>2, <1>3 DEF CallFits, FastSend, FastRecv

\* Every other step of a goroutine that acts alone leads elsewhere.
LEMMA FitsAlone ==
  ASSUME IInv, SInv, LInv, NEW g \in G, CallStep(g) \/ Run(g), Solo(g),
         ~TakeStepOf(g), ~goready(g)
  PROVE  \A h \in G : CallFits(h)'
<1>0. pc \in [G -> PC] /\ CallFits(g) /\ Own(g)
  BY OwnNow DEF IInv, TypeOK, RunOK, LInv
<1>1. CASE \/ sendClosed(g) \/ sendFull(g) \/ sendFullFirst(g) \/ sendClosedLast(g)
           \/ recvEmpty(g) \/ recvClosed(g) \/ recvRecheck(g)
  BY <1>1, FitsFast, FitsOther
<1>2. CASE CallStep(g)
  BY <1>2, FitsCall, FitsOther
<1>3. CASE selparkcommit(g)
  <2>1. UNCHANGED <<pc, op, closed, wake, success, param>>
    BY <1>3 DEF selparkcommit, wakeVars
  <2>2. CallFits(g)'
    BY <1>0, <2>1 DEF CallFits, CaseDir, IsSelect, Ch, CaseChan
  <2>. QED
    BY <2>2, FitsOther
<1>4. CASE pc'[g] \notin FastSend \cup FastRecv \cup {"nil", "woken"}
  BY <1>4, FitsSelf, FitsOther
<1>5. CASE \/ chansendClosed(g) \/ chansendBuffer(g) \/ chansendFail(g) \/ chansendBlock(g)
           \/ chansendWoken(g)
  BY <1>0, <1>4, <1>5 DEF chansendClosed, chansendBuffer, chansendFail, chansendBlock,
     chansendWoken, Goto, Return, FastSend, FastRecv
<1>6. CASE \/ chanrecvClosed(g) \/ chanrecvBuffer(g) \/ chanrecvFail(g) \/ chanrecvBlock(g)
           \/ chanrecvWoken(g)
  BY <1>0, <1>4, <1>6 DEF chanrecvClosed, chanrecvBuffer, chanrecvFail, chanrecvBlock,
     chanrecvWoken, Goto, Return, FastSend, FastRecv
<1>7. CASE closechanClosed(g) \/ closechan(g) \/ closechanUnlock(g) \/ nilchan(g)
  BY <1>0, <1>4, <1>7 DEF closechanClosed, closechan, closechanUnlock, nilchan, Goto, Return,
     FastSend, FastRecv
<1>8. CASE SelectPass1(g)
  <2>1. ASSUME NEW i \in DOMAIN op[g].cases,
               \/ selectBufrecv(g, i) \/ selectRclose(g, i) \/ selectBufsend(g, i)
               \/ selectSclose(g, i) \/ selectNext(g, i)
        PROVE  pc'[g] \in {"idle", "sellock"}
    BY <1>0, <2>1 DEF selectBufrecv, selectRclose, selectBufsend, selectSclose, selectNext, Poll,
       Goto, Return
  <2>2. CASE selectDefault(g) \/ selectBlock(g)
    BY <1>0, <1>4, <2>2 DEF selectDefault, selectBlock, NoCase, Goto, Return, FastSend, FastRecv
  <2>3. pc'[g] \in {"idle", "sellock"} => pc'[g] \notin FastSend \cup FastRecv \cup {"nil", "woken"}
    BY DEF FastSend, FastRecv
  <2>. QED
    BY <1>4, <1>8, <2>1, <2>2, <2>3 DEF SelectPass1, TakeStepOf
<1>9. CASE \/ sellock(g) \/ selectEnqueue(g) \/ selectPark(g) \/ selectWoken(g)
           \/ selectRelocked(g) \/ selectDequeue(g) \/ selectFinish(g)
  BY <1>0, <1>4, <1>9 DEF sellock, selectEnqueue, selectPark, selectWoken, selectRelocked,
     selectDequeue, selectFinish, Goto, Return, FastSend, FastRecv
<1>. QED
  BY <1>1, <1>2, <1>3, <1>5, <1>6, <1>7, <1>8, <1>9 DEF Run, Chansend, Chanrecv, Closechan,
     Selectgo, TakeStepOf

-----------------------------------------------------------------------------
(* Taking a waiter.                                                        *)

\* What a step that takes the waiter <<y, i>> does, apart from the channel.
TakesOne(g, c, dir, y, i) ==
  /\ Waiter(g, c, dir, y, i) /\ pc[g] \in {"lock", "sellock", "closing"}
  /\ wake'[g] = wake[g] \cup {<<y, i>>} /\ \A h \in G \ {g} : wake'[h] = wake[h]
  /\ \A h \in G \ {g} : UNCHANGED <<pc[h], ret[h]>>
  /\ \A h \in G \ {y} : UNCHANGED <<param[h], success[h]>>
  /\ UNCHANGED <<op, calls, closed>>
  /\ \/ op[g].kind # "close" /\ pc'[g] = "ready" /\ success'[y] = success[y]
     \/ op[g].kind = "close" /\ pc'[g] = "closing" /\ pc[g] = "closing" /\ ~success'[y]

\* send hands case k's element to a receiver ...
LEMMA SendTakes ==
  ASSUME IInv, SInv, NEW g \in G, NEW c \in Channel, NEW k \in Nat, lock[c] \in {NoG, g},
         pc[g] \in {"lock", "sellock"}, op[g].kind # "close", Live(recvq[c]) # {},
         send(g, k, c), pc' = [pc EXCEPT ![g] = "ready"],
         ret' = [ret EXCEPT ![g] = Done(k, TRUE)], UNCHANGED <<op, calls, closed, param, success>>
  PROVE  \E y \in G, i \in Nat :
           /\ TakesOne(g, c, "recv", y, i) /\ elem' = [elem EXCEPT ![y] = Val(g, k)]
           /\ UNCHANGED bufVars
<1>0. /\ DOMAIN pc = G /\ DOMAIN ret = G /\ DOMAIN wake = G
      /\ (wake[g] # {} => pc[g] \in {"closing", "ready"})
  BY DEF IInv, TypeOK, RunOK, WakeOK, SInv, GInv, Wakes
<1>1. "recv" \in Dir /\ pc[g] \notin Waiting /\ Queue(c, "recv") = recvq[c]
  BY DEF Dir, Waiting, Queue
<1>2. PICK y \in G, i \in Nat : Waiter(g, c, "recv", y, i)
  BY <1>1, FirstWaiter
<1>3. recvq[c][First(recvq[c])] = <<y, i>>
  BY <1>1, <1>2 DEF Waiter
<1>4. /\ wake' = [wake EXCEPT ![g] = {<<y, i>>}] /\ elem' = [elem EXCEPT ![y] = Val(g, k)]
      /\ UNCHANGED bufVars
  BY <1>3 DEF send
<1>5. TakesOne(g, c, "recv", y, i)
  <2>1. wake'[g] = wake[g] \cup {<<y, i>>} /\ \A h \in G \ {g} : wake'[h] = wake[h]
    BY <1>0, <1>4
  <2>. QED
    BY <1>0, <1>2, <2>1 DEF TakesOne
<1>. QED
  BY <1>4, <1>5

\* ... recv takes one of a sender ...
LEMMA RecvTakes ==
  ASSUME IInv, SInv, NEW g \in G, NEW c \in Channel, NEW k \in Nat, lock[c] \in {NoG, g},
         pc[g] \in {"lock", "sellock"}, op[g].kind # "close", Live(sendq[c]) # {},
         recv(g, c), pc' = [pc EXCEPT ![g] = "ready"],
         ret' = [ret EXCEPT ![g] = Done(k, TRUE)], UNCHANGED <<op, calls, closed, param, success>>
  PROVE  \E y \in G, i \in Nat :
           /\ TakesOne(g, c, "send", y, i)
           /\ sendq[c][First(sendq[c])] = <<y, i>>
<1>0. /\ DOMAIN pc = G /\ DOMAIN ret = G /\ DOMAIN wake = G
      /\ (wake[g] # {} => pc[g] \in {"closing", "ready"})
  BY DEF IInv, TypeOK, RunOK, WakeOK, SInv, GInv, Wakes
<1>1. "send" \in Dir /\ pc[g] \notin Waiting /\ Queue(c, "send") = sendq[c]
  BY DEF Dir, Waiting, Queue
<1>2. PICK y \in G, i \in Nat : Waiter(g, c, "send", y, i)
  BY <1>1, FirstWaiter
<1>3. sendq[c][First(sendq[c])] = <<y, i>>
  BY <1>1, <1>2 DEF Waiter
<1>4. wake' = [wake EXCEPT ![g] = {<<y, i>>}]
  BY <1>3 DEF recv
<1>5. TakesOne(g, c, "send", y, i)
  <2>1. wake'[g] = wake[g] \cup {<<y, i>>} /\ \A h \in G \ {g} : wake'[h] = wake[h]
    BY <1>0, <1>4
  <2>. QED
    BY <1>0, <1>2, <2>1 DEF TakesOne
<1>. QED
  BY <1>3, <1>5

\* ... and closechan releases one or the other.
LEMMA CloseTakes ==
  ASSUME IInv, SInv, NEW g \in G, closechanRecvq(g) \/ closechanSendq(g)
  PROVE  /\ Ch(g) \in Channel /\ closed[Ch(g)] /\ UNCHANGED <<bufVars, ret>>
         /\ \E y \in G, i \in Nat :
              \/ /\ TakesOne(g, Ch(g), "recv", y, i) /\ elem' = [elem EXCEPT ![y] = Zero]
                 /\ recvq[Ch(g)] # <<>>
              \/ TakesOne(g, Ch(g), "send", y, i) /\ UNCHANGED elem
<1>0. /\ DOMAIN pc = G /\ DOMAIN ret = G /\ DOMAIN wake = G
      /\ DOMAIN param = G /\ DOMAIN success = G
  BY DEF IInv, TypeOK, RunOK, WakeOK
<1>1. pc[g] = "closing" /\ UNCHANGED <<op, calls, closed, pc, bufVars, ret>>
  BY DEF closechanRecvq, closechanSendq
<1>2. /\ Ch(g) \in Channel /\ lock[Ch(g)] = g /\ closed[Ch(g)] /\ pc[g] \notin Waiting
      /\ op[g].kind = "close"
  BY <1>1 DEF IInv, OpInv, OpFits, LockInv, Holds, ChanPC, SInv, Keeps, Waiting
<1>3. ASSUME NEW dir \in Dir, NEW y \in G, NEW i \in Nat, Waiter(g, Ch(g), dir, y, i),
             closeWaiter(g, <<y, i>>)
      PROVE  TakesOne(g, Ch(g), dir, y, i)
  BY <1>0, <1>1, <1>2, <1>3 DEF TakesOne, closeWaiter
<1>4. CASE closechanRecvq(g)
  <2>1. "recv" \in Dir /\ Queue(Ch(g), "recv") = recvq[Ch(g)] /\ Live(recvq[Ch(g)]) # {}
    BY <1>4 DEF Dir, Queue, closechanRecvq
  <2>2. PICK y \in G, i \in Nat : Waiter(g, Ch(g), "recv", y, i)
    BY <1>2, <2>1, FirstWaiter
  <2>3. recvq[Ch(g)][First(recvq[Ch(g)])] = <<y, i>>
    BY <2>1, <2>2 DEF Waiter
  <2>4. closeWaiter(g, <<y, i>>) /\ elem' = [elem EXCEPT ![y] = Zero]
    BY <1>4, <2>3 DEF closechanRecvq
  <2>5. recvq[Ch(g)] # <<>>
    BY <2>1 DEF Live
  <2>. QED
    BY <1>1, <1>2, <1>3, <2>1, <2>2, <2>4, <2>5
<1>5. CASE closechanSendq(g)
  <2>1. "send" \in Dir /\ Queue(Ch(g), "send") = sendq[Ch(g)] /\ Live(sendq[Ch(g)]) # {}
    BY <1>5 DEF Dir, Queue, closechanSendq
  <2>2. PICK y \in G, i \in Nat : Waiter(g, Ch(g), "send", y, i)
    BY <1>2, <2>1, FirstWaiter
  <2>3. sendq[Ch(g)][First(sendq[Ch(g)])] = <<y, i>>
    BY <2>1, <2>2 DEF Waiter
  <2>4. closeWaiter(g, <<y, i>>) /\ UNCHANGED elem
    BY <1>5, <2>3 DEF closechanSendq
  <2>. QED
    BY <1>1, <1>2, <1>3, <2>1, <2>2, <2>4
<1>. QED
  BY <1>4, <1>5

\* The send and the receive steps that take a waiter.
LEMMA SendStep ==
  ASSUME IInv, SInv, NEW g \in G, NEW k \in DOMAIN op[g].cases,
         (k = 1 /\ chansendDirect(g)) \/ selectSend(g, k)
  PROVE  /\ CaseChan(g, k) \in Channel /\ CaseDir(g, k) = "send" /\ k \in Nat
         /\ lock[CaseChan(g, k)] \in {NoG, g} /\ pc[g] \in {"lock", "sellock"}
         /\ op[g].kind \in {"chan", "select"} /\ ~closed[CaseChan(g, k)]
         /\ Live(recvq[CaseChan(g, k)]) # {} /\ send(g, k, CaseChan(g, k))
         /\ pc' = [pc EXCEPT ![g] = "ready"] /\ ret' = [ret EXCEPT ![g] = Done(k, TRUE)]
         /\ UNCHANGED <<op, calls, closed, param, success>>
<1>1. CASE k = 1 /\ chansendDirect(g)
  <2>1. /\ pc[g] = "lock" /\ op[g].kind = "chan" /\ lock[Ch(g)] = NoG /\ CaseDir(g, 1) = "send"
        /\ ~closed[Ch(g)] /\ Live(recvq[Ch(g)]) # {} /\ send(g, 1, Ch(g))
        /\ pc' = [pc EXCEPT ![g] = "ready"] /\ ret' = [ret EXCEPT ![g] = Done(1, TRUE)]
        /\ UNCHANGED <<op, calls, closed, param, success>>
    BY <1>1 DEF chansendDirect, Enter, Goto
  <2>2. Ch(g) \in Channel /\ CaseChan(g, k) = Ch(g)
    BY <1>1, <2>1 DEF IInv, OpInv, OpFits, ChanPC, Ch
  <2>. QED
    BY <1>1, <2>1, <2>2
<1>2. CASE selectSend(g, k)
  <2>1. /\ Poll(g, k, "send") /\ CaseDir(g, k) = "send"
        /\ ~closed[CaseChan(g, k)] /\ Live(recvq[CaseChan(g, k)]) # {}
        /\ send(g, k, CaseChan(g, k))
        /\ pc' = [pc EXCEPT ![g] = "ready"] /\ ret' = [ret EXCEPT ![g] = Done(k, TRUE)]
        /\ UNCHANGED <<op, calls, closed, param, success>>
    BY <1>2 DEF selectSend, Poll, Goto
  <2>2. /\ CaseChan(g, k) \in Channel /\ lock[CaseChan(g, k)] = g
        /\ pc[g] = "sellock" /\ op[g].kind = "select"
    BY <2>1, PollLocked DEF Dir, IsSelect
  <2>3. k \in Nat
    BY OpType DEF IInv
  <2>. QED
    BY <2>1, <2>2, <2>3
<1>. QED
  BY <1>1, <1>2

LEMMA RecvStep ==
  ASSUME IInv, SInv, NEW g \in G, NEW k \in DOMAIN op[g].cases,
         (k = 1 /\ chanrecvDirect(g)) \/ selectRecv(g, k)
  PROVE  /\ CaseChan(g, k) \in Channel /\ CaseDir(g, k) = "recv" /\ k \in Nat
         /\ lock[CaseChan(g, k)] \in {NoG, g} /\ pc[g] \in {"lock", "sellock"}
         /\ op[g].kind \in {"chan", "select"} /\ ~closed[CaseChan(g, k)]
         /\ Live(sendq[CaseChan(g, k)]) # {} /\ recv(g, CaseChan(g, k))
         /\ pc' = [pc EXCEPT ![g] = "ready"] /\ ret' = [ret EXCEPT ![g] = Done(k, TRUE)]
         /\ UNCHANGED <<op, calls, closed, param, success>>
<1>1. CASE k = 1 /\ chanrecvDirect(g)
  <2>1. /\ pc[g] = "lock" /\ op[g].kind = "chan" /\ lock[Ch(g)] = NoG /\ CaseDir(g, 1) = "recv"
        /\ ~closed[Ch(g)] /\ Live(sendq[Ch(g)]) # {} /\ recv(g, Ch(g))
        /\ pc' = [pc EXCEPT ![g] = "ready"] /\ ret' = [ret EXCEPT ![g] = Done(1, TRUE)]
        /\ UNCHANGED <<op, calls, closed, param, success>>
    BY <1>1 DEF chanrecvDirect, Enter, Goto
  <2>2. Ch(g) \in Channel /\ CaseChan(g, k) = Ch(g)
    BY <1>1, <2>1 DEF IInv, OpInv, OpFits, ChanPC, Ch
  <2>. QED
    BY <1>1, <2>1, <2>2
<1>2. CASE selectRecv(g, k)
  <2>1. /\ Poll(g, k, "recv") /\ CaseDir(g, k) = "recv"
        /\ Live(sendq[CaseChan(g, k)]) # {}
        /\ recv(g, CaseChan(g, k))
        /\ pc' = [pc EXCEPT ![g] = "ready"] /\ ret' = [ret EXCEPT ![g] = Done(k, TRUE)]
        /\ UNCHANGED <<op, calls, closed, param, success>>
    BY <1>2 DEF selectRecv, Poll, Goto
  <2>2. /\ CaseChan(g, k) \in Channel /\ lock[CaseChan(g, k)] = g
        /\ pc[g] = "sellock" /\ op[g].kind = "select"
    BY <2>1, PollLocked DEF Dir, IsSelect
  <2>3. k \in Nat
    BY OpType DEF IInv
  <2>4. ~closed[CaseChan(g, k)]
    <3>1. sendq[CaseChan(g, k)] # <<>>
      BY <2>1 DEF Live
    <3>2. \A h \in G : pc[h] = "closing" => lock[Ch(h)] = h
      BY DEF IInv, LockInv, Holds
    <3>. QED
      BY <2>2, <3>1, <3>2 DEF SInv, Drained
  <2>. QED
    BY <2>1, <2>2, <2>3, <2>4
<1>. QED
  BY <1>1, <1>2

\* A send or a receive has its one case.
LEMMA OneCase ==
  ASSUME IInv, NEW g \in G, op[g].kind \in {"chan", "close"}
  PROVE  1 \in DOMAIN op[g].cases
<1>1. op[g] \in Ops \cup {NoOp} /\ op[g].cases \in Seq(Case)
  BY OpType DEF IInv, TypeOK, RunOK
<1>2. op[g] # NoOp
  BY DEF NoOp
<1>3. Len(op[g].cases) = 1
  BY <1>1, <1>2, OpsAssumption
<1>. QED
  BY <1>1, <1>3

\* Every step that takes a waiter.
LEMMA TakeFacts ==
  ASSUME IInv, SInv, NEW g \in G, TakeStepOf(g)
  PROVE  \E c \in Channel, dir \in Dir, y \in G, i \in Nat : TakesOne(g, c, dir, y, i)
<1>0. "send" \in Dir /\ "recv" \in Dir
  BY DEF Dir
<1>1. ASSUME NEW k \in DOMAIN op[g].cases, (k = 1 /\ chansendDirect(g)) \/ selectSend(g, k)
      PROVE  \E c \in Channel, y \in G, i \in Nat : TakesOne(g, c, "recv", y, i)
  <2>. DEFINE c == CaseChan(g, k)
  <2>1. PICK y \in G, i \in Nat : TakesOne(g, c, "recv", y, i)
    BY <1>1, SendStep, SendTakes, ZenonT(40)
  <2>. QED
    BY <1>1, <2>1, SendStep
<1>2. ASSUME NEW k \in DOMAIN op[g].cases, (k = 1 /\ chanrecvDirect(g)) \/ selectRecv(g, k)
      PROVE  \E c \in Channel, y \in G, i \in Nat : TakesOne(g, c, "send", y, i)
  <2>. DEFINE c == CaseChan(g, k)
  <2>1. PICK y \in G, i \in Nat : TakesOne(g, c, "send", y, i)
    BY <1>2, RecvStep, RecvTakes, ZenonT(40)
  <2>. QED
    BY <1>2, <2>1, RecvStep
<1>3. chansendDirect(g) \/ chanrecvDirect(g) => 1 \in DOMAIN op[g].cases
  BY OneCase DEF chansendDirect, chanrecvDirect, Enter
<1>. QED
  BY <1>0, <1>1, <1>2, <1>3, CloseTakes DEF TakeStepOf

LEMMA FitsTake ==
  ASSUME IInv, SInv, LInv, NEW g \in G, TakeStepOf(g)
  PROVE  \A h \in G : CallFits(h)'
<1>1. PICK c \in Channel, dir \in Dir, y \in G, i \in Nat : TakesOne(g, c, dir, y, i)
  BY TakeFacts
<1>. TAKE h \in G
<1>2. CallFits(h) /\ pc[y] = "park" /\ pc[g] # "park" /\ wake \in [G -> SUBSET Sudog]
  BY <1>1 DEF LInv, TakesOne, Waiter, IInv, TypeOK, WakeOK
<1>3. UNCHANGED <<op, closed>> /\ (pc'[h] = pc[h] \/ pc'[h] \in {"ready", "closing"})
  BY <1>1 DEF TakesOne
<1>4. h # y => param'[h] = param[h]
  BY <1>1 DEF TakesOne
<1>5. op[h].kind = "close" => \A s \in wake'[h] : ~success'[s[1]]
  <2>. SUFFICES ASSUME op[h].kind = "close", NEW s \in wake'[h] PROVE ~success'[s[1]]
    OBVIOUS
  <2>1. s \in wake[h] \/ (h = g /\ s = <<y, i>>)
    BY <1>1 DEF TakesOne
  <2>2. s \in Sudog
    BY <1>2, <2>1 DEF Sudog
  <2>3. s[1] \in G
    BY <2>2 DEF Sudog
  <2>4. CASE s[1] # y
    BY <1>1, <1>2, <2>1, <2>3, <2>4 DEF TakesOne, CallFits
  <2>5. CASE s[1] = y
    <3>1. s \notin wake[h]
      BY <1>1, <2>5 DEF TakesOne, Waiter, Chosen
    <3>. QED
      BY <1>1, <2>1, <2>5, <3>1 DEF TakesOne
  <2>. QED
    BY <2>4, <2>5
<1>6. IsSelect(h)' = IsSelect(h) /\ Ch(h)' = Ch(h) /\ CaseDir(h, 1)' = CaseDir(h, 1)
  BY <1>3 DEF IsSelect, Ch, CaseChan, CaseDir
<1>. QED
  BY <1>2, <1>3, <1>4, <1>5, <1>6 DEF CallFits, FastSend, FastRecv

\* goready publishes what the waiter will find.
LEMMA FitsReady ==
  ASSUME IInv, SInv, LInv, NEW g \in G, goready(g)
  PROVE  \A h \in G : CallFits(h)'
<1>0. /\ pc \in [G -> PC] /\ param \in [G -> Nat] /\ success \in [G -> BOOLEAN]
      /\ wake \in [G -> SUBSET Sudog] /\ Wakes(g)
  BY DEF IInv, TypeOK, RunOK, WakeOK, SInv, GInv
<1>1. PICK sg \in wake[g] :
        /\ wake' = [wake EXCEPT ![g] = @ \ {sg}]
        /\ pc' = [pc EXCEPT ![sg[1]] = "woken",
                            ![g] = IF wake[g] = {sg} THEN "idle" ELSE "ready"]
        /\ IF op[g].kind = "close"
             THEN UNCHANGED <<param, success>>
             ELSE /\ param' = [param EXCEPT ![sg[1]] = sg[2]]
                  /\ success' = [success EXCEPT ![sg[1]] = TRUE]
  BY DEF goready
<1>2. pc[g] = "ready" /\ UNCHANGED <<op, closed>>
  BY DEF goready, chanVars
<1>3. PICK y \in G, i \in Nat : sg = <<y, i>>
  BY <1>0, <1>1 DEF Sudog
<1>4. /\ pc[y] = "park" /\ y # g /\ i \in DOMAIN op[y].cases /\ (op[g].kind = "close" => param[y] = i)
      /\ \A h \in G : \A t \in wake[h] : t[1] = y => g = h /\ t = sg
  BY <1>0, <1>1, <1>2, <1>3 DEF Wakes
<1>. TAKE h \in G
<1>5. CallFits(h)
  BY DEF LInv
<1>6. IsSelect(h)' = IsSelect(h) /\ Ch(h)' = Ch(h) /\ CaseDir(h, 1)' = CaseDir(h, 1)
  BY <1>2 DEF IsSelect, Ch, CaseChan, CaseDir
<1>7. /\ pc'[h] = pc[h] \/ pc'[h] \in {"idle", "ready"} \/ (h = y /\ pc'[h] = "woken")
      /\ h # y => param'[h] = param[h]
      /\ param'[y] = i
  BY <1>0, <1>1, <1>2, <1>3, <1>4
<1>8. op[h].kind = "close" => \A s \in wake'[h] : ~success'[s[1]]
  <2>. SUFFICES ASSUME op[h].kind = "close", NEW s \in wake'[h] PROVE ~success'[s[1]]
    OBVIOUS
  <2>1. s \in wake[h] /\ (h = g => s # sg)
    BY <1>0, <1>1
  <2>2. s[1] \in G /\ s[1] # y
    <3>1. s \in Sudog
      BY <1>0, <2>1
    <3>. QED
      BY <1>4, <2>1, <3>1 DEF Sudog
  <2>3. success'[s[1]] = success[s[1]]
    BY <1>0, <1>1, <1>3, <2>2
  <2>. QED
    BY <1>5, <2>1, <2>3 DEF CallFits
<1>. QED
  BY <1>2, <1>4, <1>5, <1>6, <1>7, <1>8 DEF CallFits, FastSend, FastRecv

-----------------------------------------------------------------------------
(* The circular buffer.                                                    *)

\* An index of at most one lap, modulo the size of the buffer.
LEMMA ModLap ==
  ASSUME NEW n \in Nat, n > 0, NEW x \in Nat, x < n + n
  PROVE  x % n = IF x < n THEN x ELSE x - n
OBVIOUS

\* The steps that put an element into the buffer, take one out, and do both.
PushStep(g) == chansendBuffer(g) \/ \E i \in DOMAIN op[g].cases : selectBufsend(g, i)
PopStep(g)  == chanrecvBuffer(g) \/ \E i \in DOMAIN op[g].cases : selectBufrecv(g, i)
SwapStep(g) == chanrecvDirect(g) \/ \E i \in DOMAIN op[g].cases : selectRecv(g, i)

LEMMA BufferSteps ==
  ASSUME IInv, NEW g \in G, CallStep(g) \/ Run(g)
  PROVE  UNCHANGED bufVars \/ PushStep(g) \/ PopStep(g) \/ SwapStep(g)
<1>1. CASE CallStep(g) \/ goready(g) \/ nilchan(g)
  BY <1>1 DEF CallStep, CallChan, CallNil, CallSelect, Call, goready, nilchan, chanVars, bufVars
<1>2. CASE Chansend(g)
  BY <1>2 DEF Chansend, sendClosed, sendFull, sendFullFirst, sendClosedLast, chansendClosed,
     chansendDirect, send, chansendFail, chansendBlock, chansendWoken, chanVars, bufVars, PushStep
<1>3. CASE Chanrecv(g)
  BY <1>3 DEF Chanrecv, recvEmpty, recvClosed, recvRecheck, chanrecvClosed,
     chanrecvFail, chanrecvBlock, chanrecvWoken, chanVars, bufVars, PopStep, SwapStep
<1>4. CASE Closechan(g)
  BY <1>4 DEF Closechan, closechanClosed, closechan, closechanRecvq, closechanSendq,
     closechanUnlock, chanVars, bufVars
<1>5. CASE SelectPass1(g)
  BY <1>5 DEF SelectPass1, selectRclose, selectSend, send,
     selectSclose, selectNext, selectDefault, selectBlock, chanVars, bufVars, PushStep, PopStep,
     SwapStep
<1>6. CASE Selectgo(g)
  BY <1>5, <1>6 DEF Selectgo, sellock, selectEnqueue, selectPark, selparkcommit, selectWoken,
     selectRelocked, selectDequeue, selectFinish, chanVars, bufVars
<1>. QED
  BY <1>1, <1>2, <1>3, <1>4, <1>6 DEF Run

LEMMA PushFacts ==
  ASSUME IInv, NEW g \in G, PushStep(g)
  PROVE  \E k \in DOMAIN op[g].cases, c \in Channel :
           /\ CaseChan(g, k) = c /\ CaseDir(g, k) = "send" /\ k \in Nat
           /\ ~closed[c] /\ qcount[c] < dataqsiz[c] /\ bufsend(g, k, c)
           /\ pc[g] \in {"lock", "sellock"} /\ op[g].kind \in {"chan", "select"}
           /\ pc' = [pc EXCEPT ![g] = "idle"] /\ ret' = [ret EXCEPT ![g] = Done(k, TRUE)]
           /\ UNCHANGED <<closed, op, calls>>
<1>1. CASE chansendBuffer(g)
  <2>1. /\ CaseDir(g, 1) = "send" /\ ~closed[Ch(g)] /\ qcount[Ch(g)] < dataqsiz[Ch(g)]
        /\ bufsend(g, 1, Ch(g)) /\ pc[g] = "lock" /\ op[g].kind = "chan"
        /\ pc' = [pc EXCEPT ![g] = "idle"] /\ ret' = [ret EXCEPT ![g] = Done(1, TRUE)]
        /\ UNCHANGED <<closed, op, calls>>
    BY <1>1 DEF chansendBuffer, Enter, Return, Goto
  <2>2. Ch(g) \in Channel /\ CaseChan(g, 1) = Ch(g) /\ 1 \in DOMAIN op[g].cases
    BY <2>1, OneCase DEF IInv, OpInv, OpFits, ChanPC, Ch
  <2>. QED
    BY <2>1, <2>2
<1>2. ASSUME NEW i \in DOMAIN op[g].cases, selectBufsend(g, i)
      PROVE  /\ CaseChan(g, i) \in Channel /\ CaseDir(g, i) = "send" /\ i \in Nat
             /\ ~closed[CaseChan(g, i)] /\ qcount[CaseChan(g, i)] < dataqsiz[CaseChan(g, i)]
             /\ bufsend(g, i, CaseChan(g, i))
             /\ pc[g] = "sellock" /\ op[g].kind = "select"
             /\ pc' = [pc EXCEPT ![g] = "idle"] /\ ret' = [ret EXCEPT ![g] = Done(i, TRUE)]
             /\ UNCHANGED <<closed, op, calls>>
  <2>1. Poll(g, i, "send")
    BY <1>2 DEF selectBufsend
  <2>2. /\ CaseChan(g, i) \in Channel /\ pc[g] = "sellock" /\ op[g].kind = "select"
    BY <2>1, PollLocked DEF Dir, IsSelect
  <2>3. i \in Nat
    BY OpType DEF IInv
  <2>. QED
    BY <1>2, <2>2, <2>3 DEF selectBufsend, Poll, Return, Goto
<1>. QED
  BY <1>1, <1>2 DEF PushStep

LEMMA PopFacts ==
  ASSUME IInv, NEW g \in G, PopStep(g)
  PROVE  \E k \in DOMAIN op[g].cases, c \in Channel :
           /\ CaseChan(g, k) = c /\ CaseDir(g, k) = "recv" /\ k \in Nat
           /\ qcount[c] > 0 /\ bufrecv(g, c) /\ UNCHANGED recvq
           /\ pc[g] \in {"lock", "sellock"} /\ op[g].kind \in {"chan", "select"}
           /\ pc' = [pc EXCEPT ![g] = "idle"] /\ ret' = [ret EXCEPT ![g] = Done(k, TRUE)]
           /\ UNCHANGED <<closed, op, calls>>
<1>1. CASE chanrecvBuffer(g)
  <2>1. /\ CaseDir(g, 1) = "recv" /\ qcount[Ch(g)] > 0
        /\ bufrecv(g, Ch(g)) /\ pc[g] = "lock" /\ op[g].kind = "chan" /\ UNCHANGED recvq
        /\ pc' = [pc EXCEPT ![g] = "idle"] /\ ret' = [ret EXCEPT ![g] = Done(1, TRUE)]
        /\ UNCHANGED <<closed, op, calls>>
    BY <1>1 DEF chanrecvBuffer, Enter, Return, Goto, NoSender, queueVars
  <2>2. Ch(g) \in Channel /\ CaseChan(g, 1) = Ch(g) /\ 1 \in DOMAIN op[g].cases
    BY <2>1, OneCase DEF IInv, OpInv, OpFits, ChanPC, Ch
  <2>. QED
    BY <2>1, <2>2
<1>2. ASSUME NEW i \in DOMAIN op[g].cases, selectBufrecv(g, i)
      PROVE  /\ CaseChan(g, i) \in Channel /\ CaseDir(g, i) = "recv" /\ i \in Nat
             /\ qcount[CaseChan(g, i)] > 0
             /\ bufrecv(g, CaseChan(g, i)) /\ UNCHANGED recvq
             /\ pc[g] = "sellock" /\ op[g].kind = "select"
             /\ pc' = [pc EXCEPT ![g] = "idle"] /\ ret' = [ret EXCEPT ![g] = Done(i, TRUE)]
             /\ UNCHANGED <<closed, op, calls>>
  <2>1. Poll(g, i, "recv")
    BY <1>2 DEF selectBufrecv
  <2>2. /\ CaseChan(g, i) \in Channel /\ pc[g] = "sellock" /\ op[g].kind = "select"
    BY <2>1, PollLocked DEF Dir, IsSelect
  <2>3. i \in Nat
    BY OpType DEF IInv
  <2>. QED
    BY <1>2, <2>2, <2>3 DEF selectBufrecv, Poll, Return, Goto, NoSender
<1>. QED
  BY <1>1, <1>2 DEF PopStep

\* A receive that finds a waiting sender: the channel is open and full.
LEMMA SwapFacts ==
  ASSUME IInv, SInv, NEW g \in G, NEW k \in DOMAIN op[g].cases,
         (k = 1 /\ chanrecvDirect(g)) \/ selectRecv(g, k)
  PROVE  qcount[CaseChan(g, k)] = dataqsiz[CaseChan(g, k)]
<1>. DEFINE c == CaseChan(g, k)
<1>1. c \in Channel /\ ~closed[c] /\ Live(sendq[c]) # {}
  BY RecvStep
<1>2. sendq[c] # <<>>
  BY <1>1 DEF Live
<1>. HIDE DEF c
<1>3. ~(qcount[c] < dataqsiz[c]) /\ qcount[c] \in Nat /\ qcount[c] <= dataqsiz[c]
  BY <1>1, <1>2 DEF IInv, WaitqInvariant, WaitqOK, TypeOK, BufOK
<1>. QED
  BY <1>1, <1>3, SizeAssumption DEF c

\* Only an open channel gets waiting receivers.
LEMMA RecvqGrows ==
  ASSUME IInv, SInv, NEW g \in G, CallStep(g) \/ Run(g), NEW c \in Channel, recvq[c] = <<>>
  PROVE  recvq'[c] = <<>> \/ ~closed'[c]
<1>0. DOMAIN recvq = Channel /\ Rest(<<>>) = <<>>
  BY DEF IInv, TypeOK, QueueOK, Rest, Live
<1>1. CASE CallStep(g) \/ goready(g) \/ nilchan(g)
  BY <1>1 DEF CallStep, CallChan, CallNil, CallSelect, Call, goready, nilchan, chanVars
<1>2. CASE Chansend(g)
  BY <1>0, <1>2 DEF Chansend, sendClosed, sendFull, sendFullFirst, sendClosedLast, chansendClosed,
     chansendDirect, send, chansendBuffer, chansendFail, chansendBlock, NoReceiver, dequeue,
     chansendWoken, chanVars, queueVars
<1>3. CASE Chanrecv(g)
  <2>1. CASE chanrecvBlock(g)
    <3>1. ~closed[Ch(g)] /\ UNCHANGED closed /\ recvq' = enqueue(recvq, Ch(g), <<g, 1>>)
      BY <2>1 DEF chanrecvBlock, Enter
    <3>. QED
      BY <1>0, <3>1 DEF enqueue
  <2>. QED
    BY <1>0, <1>3, <2>1 DEF Chanrecv, recvEmpty, recvClosed, recvRecheck, chanrecvClosed,
       chanrecvDirect, recv, chanrecvBuffer, chanrecvFail, NoSender, chanrecvWoken, chanVars,
       queueVars
<1>4. CASE Closechan(g)
  <2>1. UNCHANGED recvq \/ recvq' = dequeue(recvq, Ch(g))
    BY <1>4 DEF Closechan, closechanClosed, closechan, closechanRecvq, closechanSendq,
       closechanUnlock, chanVars, queueVars
  <2>. QED
    BY <1>0, <2>1 DEF dequeue
<1>5. CASE SelectPass1(g)
  <2>1. ASSUME NEW i \in DOMAIN op[g].cases,
               \/ selectRecv(g, i) \/ selectBufrecv(g, i) \/ selectRclose(g, i)
               \/ selectSend(g, i) \/ selectBufsend(g, i) \/ selectSclose(g, i)
               \/ selectNext(g, i)
        PROVE  UNCHANGED recvq \/ recvq' = dequeue(recvq, CaseChan(g, i))
    BY <2>1 DEF selectRecv, recv, selectBufrecv, selectRclose, selectSend, send, selectBufsend,
       selectSclose, selectNext, NoSender, NoReceiver, queueVars
  <2>2. CASE selectDefault(g) \/ selectBlock(g)
    BY <2>2 DEF selectDefault, selectBlock, chanVars, queueVars
  <2>. QED
    BY <1>0, <1>5, <2>1, <2>2 DEF SelectPass1, dequeue
<1>6. CASE selectEnqueue(g)
  <2>. DEFINE i == lockorder[g][pos[g] + 1]
  <2>1. pc[g] = "pass2" /\ pos[g] < Len(lockorder[g]) /\ UNCHANGED closed
    BY <1>6 DEF selectEnqueue
  <2>2. IsSelect(g) /\ pos[g] + 1 \in 1..Len(lockorder[g])
    <3>1. IsSelect(g)
      BY <2>1 DEF IInv, OpInv, OpFits
    <3>. QED
      BY <2>1, <3>1, NextCase DEF IInv
  <2>3. i \in DOMAIN op[g].cases /\ CaseChan(g, i) # Nil
    BY <2>2, OrderPlace
  <2>4. ~closed[CaseChan(g, i)]
    BY <2>1, <2>3 DEF IInv, PolledInv, Polled, SInv, Keeps
  <2>5. UNCHANGED recvq \/ recvq' = enqueue(recvq, CaseChan(g, i), <<g, i>>)
    BY <1>6 DEF selectEnqueue
  <2>. QED
    BY <1>0, <2>1, <2>4, <2>5 DEF enqueue
<1>7. CASE selectDequeue(g)
  <2>1. \E d, s : recvq' \in {recvq, [recvq EXCEPT ![d] = dequeueSudoG(@, s)]}
    BY <1>7 DEF selectDequeue, queueVars
  <2>. QED
    BY <1>0, <2>1 DEF dequeueSudoG
<1>8. CASE Selectgo(g)
  BY <1>5, <1>6, <1>7, <1>8 DEF Selectgo, sellock, selectPark, selparkcommit, selectWoken,
     selectRelocked, selectFinish, chanVars, queueVars
<1>. QED
  BY <1>1, <1>2, <1>3, <1>4, <1>8 DEF Run

LEMMA SlotFacts ==
  ASSUME NEW n \in Nat, n > 0, NEW r \in 0..(n - 1), NEW k \in 1..(n + 1)
  PROVE  /\ Slot(r, k, n) = IF r + k - 1 < n THEN r + k - 1 ELSE r + k - 1 - n
         /\ Slot(r, k, n) \in 0..(n - 1)
<1>1. r + k - 1 \in Nat /\ r + k - 1 < n + n
  OBVIOUS
<1>2. (r + k - 1) % n = IF r + k - 1 < n THEN r + k - 1 ELSE r + k - 1 - n
  BY <1>1, ModLap
<1>. QED
  BY <1>1, <1>2 DEF Slot

LEMMA RingFacts ==
  ASSUME NEW n \in Nat, n > 0, NEW r \in 0..(n - 1), NEW m \in 0..n, NEW b \in [0..(n - 1) -> Elem]
  PROVE  /\ Ring(b, r, m, n) \in Seq(Elem) /\ Len(Ring(b, r, m, n)) = m
         /\ \A k \in 1..m : Ring(b, r, m, n)[k] = b[Slot(r, k, n)]
<1>1. \A k \in 1..m : b[Slot(r, k, n)] \in Elem
  BY SlotFacts
<1>. QED
  BY <1>1 DEF Ring

\* Two sequences are equal if their lengths and elements are.
LEMMA SameSeq ==
  ASSUME NEW s \in Seq(Elem), NEW t \in Seq(Elem), Len(s) = Len(t),
         \A k \in 1..Len(s) : s[k] = t[k]
  PROVE  s = t
OBVIOUS

\* Putting v behind the last element ...
LEMMA RingPush ==
  ASSUME NEW n \in Nat, n > 0, NEW r \in 0..(n - 1), NEW m \in 0..(n - 1),
         NEW b \in [0..(n - 1) -> Elem], NEW d \in [0..(n - 1) -> Elem],
         NEW v \in Elem, NEW s, s = Slot(r, m + 1, n), d[s] = v,
         \A k \in 0..(n - 1) : k # s => d[k] = b[k]
  PROVE  Ring(d, r, m + 1, n) = Append(Ring(b, r, m, n), v)
<1>. DEFINE old == Ring(b, r, m, n)
            new == Ring(d, r, m + 1, n)
<1>1. m \in 0..n /\ m + 1 \in 0..n /\ m + 1 \in 1..n
  OBVIOUS
<1>2. s = (IF r + m < n THEN r + m ELSE r + m - n) /\ s \in 0..(n - 1)
  <2>. DEFINE k == m + 1
  <2>1. k \in 1..(n + 1) /\ s = Slot(r, k, n)
    OBVIOUS
  <2>. HIDE DEF k
  <2>2. s = (IF r + k - 1 < n THEN r + k - 1 ELSE r + k - 1 - n) /\ s \in 0..(n - 1)
    BY <2>1, SlotFacts
  <2>. QED
    BY <2>2 DEF k
<1>4. old \in Seq(Elem) /\ Len(old) = m /\ \A k \in 1..m : old[k] = b[Slot(r, k, n)]
  BY <1>1, RingFacts
<1>5. new \in Seq(Elem) /\ Len(new) = m + 1 /\ \A k \in 1..(m + 1) : new[k] = d[Slot(r, k, n)]
  BY <1>1, RingFacts
<1>. HIDE DEF old, new
<1>6. ASSUME NEW k \in 1..(m + 1) PROVE new[k] = IF k <= m THEN old[k] ELSE v
  <2>. DEFINE x == Slot(r, k, n)
  <2>1. x = (IF r + k - 1 < n THEN r + k - 1 ELSE r + k - 1 - n) /\ x \in 0..(n - 1)
    <3>1. k \in 1..n
      OBVIOUS
    <3>. QED
      BY <3>1, SlotFacts
  <2>2. new[k] = d[x] /\ (k <= m => old[k] = b[x])
    BY <1>4, <1>5
  <2>. HIDE DEF x
  <2>3. k <= m => x # s
    BY <1>2, <2>1
  <2>4. ~(k <= m) => x = s
    BY <1>2, <2>1
  <2>. QED
    BY <2>1, <2>2, <2>3, <2>4
<1>7. /\ Append(old, v) \in Seq(Elem) /\ Len(Append(old, v)) = m + 1
      /\ \A k \in 1..(m + 1) : Append(old, v)[k] = IF k <= m THEN old[k] ELSE v
  BY <1>4
<1>8. new = Append(old, v)
  BY <1>5, <1>6, <1>7, SameSeq
<1>. QED
  BY <1>8 DEF new, old

\* ... taking the first one out ...
LEMMA RingPop ==
  ASSUME NEW n \in Nat, n > 0, NEW r \in 0..(n - 1), NEW m \in 1..n,
         NEW b \in [0..(n - 1) -> Elem], NEW d \in [0..(n - 1) -> Elem],
         \A k \in 0..(n - 1) : k # r => d[k] = b[k],
         NEW x \in 0..(n - 1), r + 1 = n => x = 0, r + 1 # n => x = r + 1
  PROVE  /\ Ring(b, r, m, n) # <<>> /\ Head(Ring(b, r, m, n)) = b[r]
         /\ Ring(d, x, m - 1, n) = Tail(Ring(b, r, m, n))
<1>. DEFINE old == Ring(b, r, m, n)
            new == Ring(d, x, m - 1, n)
<1>1. /\ m \in 0..n /\ m - 1 \in 0..n /\ 1 \in 1..m /\ 1 \in 1..n
  OBVIOUS
<1>2. old \in Seq(Elem) /\ Len(old) = m /\ \A k \in 1..m : old[k] = b[Slot(r, k, n)]
  BY <1>1, RingFacts
<1>3. new \in Seq(Elem) /\ Len(new) = m - 1 /\ \A k \in 1..(m - 1) : new[k] = d[Slot(x, k, n)]
  BY <1>1, RingFacts
<1>. HIDE DEF old, new
<1>4. ASSUME NEW k \in 1..(m - 1) PROVE new[k] = old[k + 1]
  <2>. DEFINE y == Slot(x, k, n)
              z == Slot(r, k + 1, n)
  <2>1. /\ k + 1 \in 1..m /\ k \in 1..(n + 1) /\ k + 1 \in 1..(n + 1)
        /\ r + (k + 1) - 1 = r + k
    OBVIOUS
  <2>2. y = (IF x + k - 1 < n THEN x + k - 1 ELSE x + k - 1 - n) /\ y \in 0..(n - 1)
    BY <1>1, <2>1, SlotFacts
  <2>a. z = IF r + (k + 1) - 1 < n THEN r + (k + 1) - 1 ELSE r + (k + 1) - 1 - n
    BY <2>1, SlotFacts
  <2>3. z = (IF r + k < n THEN r + k ELSE r + k - n)
    BY <2>a
  <2>4. new[k] = d[y] /\ old[k + 1] = b[z]
    BY <1>2, <1>3, <2>1
  <2>. HIDE DEF y, z
  <2>5. y = z /\ y # r
    <3>1. CASE r + 1 = n
      BY <2>2, <2>3, <3>1
    <3>2. CASE r + 1 # n
      BY <2>2, <2>3, <3>2
    <3>. QED
      BY <3>1, <3>2
  <2>. QED
    BY <2>2, <2>4, <2>5
<1>5. old # <<>> /\ Head(old) = b[r]
  <2>1. Slot(r, 1, n) = r
    <3>1. r + 1 - 1 = r /\ r < n
      OBVIOUS
    <3>. QED
      BY <1>1, <3>1, SlotFacts
  <2>. QED
    BY <1>1, <1>2, <2>1
<1>6. /\ Tail(old) \in Seq(Elem) /\ Len(Tail(old)) = m - 1
      /\ \A k \in 1..(m - 1) : Tail(old)[k] = old[k + 1]
  BY <1>2, <1>5
<1>7. new = Tail(old)
  BY <1>3, <1>4, <1>6, SameSeq
<1>. QED
  BY <1>5, <1>7 DEF new, old

\* ... and doing both in a full buffer.
LEMMA RingSwap ==
  ASSUME NEW n \in Nat, n > 0, NEW r \in 0..(n - 1),
         NEW b \in [0..(n - 1) -> Elem], NEW d \in [0..(n - 1) -> Elem], NEW v \in Elem,
         d[r] = v, \A k \in 0..(n - 1) : k # r => d[k] = b[k],
         NEW x \in 0..(n - 1), r + 1 = n => x = 0, r + 1 # n => x = r + 1
  PROVE  /\ Head(Append(Ring(b, r, n, n), v)) = b[r]
         /\ Ring(d, x, n, n) = Tail(Append(Ring(b, r, n, n), v))
<1>. DEFINE old == Ring(b, r, n, n)
            new == Ring(d, x, n, n)
            all == Append(old, v)
<1>1. n \in 0..n /\ 1 \in 1..n
  OBVIOUS
<1>2. old \in Seq(Elem) /\ Len(old) = n /\ \A k \in 1..n : old[k] = b[Slot(r, k, n)]
  BY <1>1, RingFacts
<1>3. new \in Seq(Elem) /\ Len(new) = n /\ \A k \in 1..n : new[k] = d[Slot(x, k, n)]
  BY <1>1, RingFacts
<1>. HIDE DEF old, new
<1>4. /\ all \in Seq(Elem) /\ Len(all) = n + 1
      /\ \A k \in 1..(n + 1) : all[k] = IF k <= n THEN old[k] ELSE v
  BY <1>2, SMTT(30)
<1>. HIDE DEF all
<1>5. ASSUME NEW k \in 1..n PROVE new[k] = all[k + 1]
  <2>. DEFINE y == Slot(x, k, n)
  <2>1. k + 1 \in 1..(n + 1) /\ k \in 1..(n + 1)
    OBVIOUS
  <2>2. y = (IF x + k - 1 < n THEN x + k - 1 ELSE x + k - 1 - n) /\ y \in 0..(n - 1) /\ new[k] = d[y]
    BY <1>1, <1>3, <2>1, SlotFacts
  <2>. HIDE DEF y
  <2>3. CASE k = n
    <3>1. y = r
      BY <2>2, <2>3
    <3>2. all[k + 1] = v
      BY <1>4, <2>1, <2>3
    <3>. QED
      BY <2>2, <3>1, <3>2
  <2>4. CASE k # n
    <3>. DEFINE z == Slot(r, k + 1, n)
    <3>1. k + 1 \in 1..n /\ r + (k + 1) - 1 = r + k
      BY <2>4
    <3>a. z = IF r + (k + 1) - 1 < n THEN r + (k + 1) - 1 ELSE r + (k + 1) - 1 - n
      BY <2>1, <3>1, SlotFacts
    <3>2. z = (IF r + k < n THEN r + k ELSE r + k - n)
      BY <3>a
    <3>3. all[k + 1] = b[z]
      BY <1>2, <1>4, <2>1, <3>1
    <3>. HIDE DEF z
    <3>4. y = z /\ y # r
      <4>1. CASE r + 1 = n
        BY <2>2, <2>4, <3>2, <4>1
      <4>2. CASE r + 1 # n
        BY <2>2, <2>4, <3>2, <4>2
      <4>. QED
        BY <4>1, <4>2
    <3>. QED
      BY <2>2, <3>3, <3>4
  <2>. QED
    BY <2>3, <2>4
<1>6. all # <<>> /\ Head(all) = b[r]
  <2>1. Slot(r, 1, n) = r
    <3>1. r + 1 - 1 = r /\ r < n
      OBVIOUS
    <3>. QED
      BY <1>1, <3>1, SlotFacts
  <2>2. all[1] = b[r]
    BY <1>1, <1>2, <1>4, <2>1
  <2>. QED
    BY <1>4, <2>2
<1>7. /\ Tail(all) \in Seq(Elem) /\ Len(Tail(all)) = n
      /\ \A k \in 1..n : Tail(all)[k] = all[k + 1]
  BY <1>4, <1>6
<1>8. new = Tail(all)
  BY <1>3, <1>5, <1>7, SameSeq
<1>. QED
  BY <1>6, <1>8 DEF new, old, all

\* The slot behind m elements.
LEMMA SlotNext ==
  ASSUME NEW n \in Nat, n > 0, NEW r \in 0..(n - 1), NEW m \in 0..n
  PROVE  Slot(r, m + 1, n) = IF r + m < n THEN r + m ELSE r + m - n
<1>1. m + 1 \in 1..(n + 1)
  OBVIOUS
<1>2. Slot(r, m + 1, n) = IF r + (m + 1) - 1 < n THEN r + (m + 1) - 1 ELSE r + (m + 1) - 1 - n
  BY <1>1, SlotFacts
<1>. QED
  BY <1>2

\* The types of the buffer of c.
LEMMA BufTypes ==
  ASSUME IInv, NEW c \in Channel
  PROVE  /\ dataqsiz[c] \in Nat /\ qcount[c] \in 0..dataqsiz[c]
         /\ buf[c] \in [0..(dataqsiz[c] - 1) -> Elem]
         /\ dataqsiz[c] > 0 => recvx[c] \in 0..(dataqsiz[c] - 1) /\ sendx[c] \in 0..(dataqsiz[c] - 1)
         /\ Contents(c) = Ring(buf[c], recvx[c], qcount[c], dataqsiz[c])
<1>1. /\ dataqsiz[c] \in Nat /\ qcount[c] \in Nat /\ qcount[c] <= dataqsiz[c]
      /\ buf[c] \in [0..(dataqsiz[c] - 1) -> Elem]
      /\ recvx[c] \in Index(c) /\ sendx[c] \in Index(c)
  BY SizeAssumption DEF IInv, TypeOK, BufOK
<1>2. Contents(c) = Ring(buf[c], recvx[c], qcount[c], dataqsiz[c])
  BY DEF Contents, Ring, Slot
<1>. QED
  BY <1>1, <1>2 DEF Index

\* The contents of a channel whose buffer is left alone.
LEMMA SameBuffer ==
  ASSUME NEW c \in Channel, UNCHANGED <<qcount[c], sendx[c], recvx[c], buf[c]>>
  PROVE  Contents(c)' = Contents(c) /\ (Indexed(c) => Indexed(c)')
BY DEF Contents, Indexed

LEMMA EmptyContents ==
  ASSUME IInv, NEW c \in Channel
  PROVE  /\ Contents(c) = <<>> <=> qcount[c] = 0
         /\ dataqsiz[c] > 0 => Len(Contents(c)) = qcount[c]
<1>1. dataqsiz[c] \in Nat /\ qcount[c] \in 0..dataqsiz[c]
  BY BufTypes
<1>2. CASE qcount[c] = 0
  <2>1. Contents(c) = <<>>
    BY <1>2 DEF Contents
  <2>. QED
    BY <1>2, <2>1
<1>3. CASE qcount[c] # 0
  <2>1. Contents(c) \in Seq(Elem) /\ Len(Contents(c)) = qcount[c]
    <3>1. dataqsiz[c] > 0
      BY <1>1, <1>3
    <3>. DEFINE n == dataqsiz[c]
                r == recvx[c]
                m == qcount[c]
                b == buf[c]
    <3>2. /\ n \in Nat /\ n > 0 /\ r \in 0..(n - 1) /\ m \in 0..n /\ b \in [0..(n - 1) -> Elem]
          /\ Contents(c) = Ring(b, r, m, n)
      BY <3>1, BufTypes
    <3>. HIDE DEF n, r, m, b
    <3>3. Ring(b, r, m, n) \in Seq(Elem) /\ Len(Ring(b, r, m, n)) = m
      BY <3>2, RingFacts
    <3>. QED
      BY <3>2, <3>3 DEF m
  <2>2. Contents(c) # <<>>
    BY <1>3, <2>1
  <2>. QED
    BY <1>3, <2>1, <2>2
<1>. QED
  BY <1>2, <1>3

LEMMA PushBuffer ==
  ASSUME IInv, LInv, NEW g \in G, NEW k \in Nat, NEW c \in Channel,
         qcount[c] < dataqsiz[c], bufsend(g, k, c)
  PROVE  /\ Contents(c)' = Append(Contents(c), Val(g, k))
         /\ \A d \in Channel \ {c} : Contents(d)' = Contents(d)
         /\ \A d \in Channel : Indexed(d)'
<1>. DEFINE n == dataqsiz[c]
            r == recvx[c]
            m == qcount[c]
<1>0. /\ DOMAIN buf = Channel /\ DOMAIN sendx = Channel /\ DOMAIN qcount = Channel
      /\ \A d \in Channel : Indexed(d)
  BY DEF IInv, TypeOK, BufOK, LInv, BufFits
<1>1. /\ buf'[c] = [buf[c] EXCEPT ![sendx[c]] = Val(g, k)] /\ sendx'[c] = Incr(c, sendx[c])
      /\ qcount'[c] = m + 1 /\ recvx'[c] = r
      /\ \A d \in Channel \ {c} : UNCHANGED <<qcount[d], sendx[d], recvx[d], buf[d]>>
  BY <1>0 DEF bufsend
<1>2. /\ n \in Nat /\ n > 0 /\ r \in 0..(n - 1) /\ m \in 0..(n - 1) /\ sendx[c] \in 0..(n - 1)
      /\ buf[c] \in [0..(n - 1) -> Elem] /\ Val(g, k) \in Elem
  BY BufTypes, ValType DEF IInv
<1>3. sendx[c] = Slot(r, m + 1, n)
  BY <1>0, <1>2 DEF Indexed
<1>4. sendx[c] = IF r + m < n THEN r + m ELSE r + m - n
  <2>. HIDE DEF r, m, n
  <2>. QED
    BY <1>2, <1>3, SlotNext
<1>7. Indexed(c)'
  <2>1. sendx'[c] = Slot(r, (m + 1) + 1, n)
    <3>. HIDE DEF r, m, n
    <3>1. sendx'[c] = IF sendx[c] + 1 = n THEN 0 ELSE sendx[c] + 1
      BY <1>1 DEF Incr, n
    <3>2. Slot(r, (m + 1) + 1, n) = IF r + (m + 1) < n THEN r + (m + 1) ELSE r + (m + 1) - n
      <4>1. m + 1 \in 0..n
        BY <1>2
      <4>. QED
        BY <1>2, <4>1, SlotNext
    <3>. QED
      BY <1>2, <1>4, <3>1, <3>2, SMTT(30)
  <2>. QED
    BY <1>1, <2>1 DEF Indexed
<1>8. Contents(c)' = Append(Contents(c), Val(g, k))
  <2>2. sendx[c] = Slot(r, m + 1, n)
    BY <1>3
  <2>3. Contents(c) = Ring(buf[c], r, m, n)
    BY BufTypes
  <2>4. Contents(c)' = Ring(buf'[c], r, m + 1, n)
    BY <1>1 DEF Contents, Ring, Slot
  <2>. DEFINE b == buf[c]
              d == buf'[c]
              v == Val(g, k)
              s == sendx[c]
  <2>5. /\ n \in Nat /\ n > 0 /\ r \in 0..(n - 1) /\ m \in 0..(n - 1) /\ v \in Elem
        /\ b \in [0..(n - 1) -> Elem] /\ d \in [0..(n - 1) -> Elem]
        /\ d[s] = v /\ \A x \in 0..(n - 1) : x # s => d[x] = b[x]
    <3>1. d = [b EXCEPT ![s] = v] /\ s \in 0..(n - 1)
      BY <1>1, <1>2
    <3>. HIDE DEF r, m, n, b, d, v, s
    <3>. QED
      BY <1>2, <3>1 DEF b, v
  <2>6. /\ Contents(c) = Ring(b, r, m, n) /\ Contents(c)' = Ring(d, r, m + 1, n)
        /\ Val(g, k) = v
    BY <2>3, <2>4
  <2>7. s = Slot(r, m + 1, n)
    BY <2>2
  <2>. HIDE DEF r, m, n, b, d, v, s
  <2>8. Ring(d, r, m + 1, n) = Append(Ring(b, r, m, n), v)
    BY <2>5, <2>7, RingPush, ZenonT(40)
  <2>. QED
    BY <2>6, <2>8
<1>. QED
  BY <1>0, <1>1, <1>7, <1>8, SameBuffer

LEMMA PopBuffer ==
  ASSUME IInv, LInv, NEW g \in G, NEW c \in Channel, qcount[c] > 0, bufrecv(g, c)
  PROVE  /\ Contents(c) # <<>> /\ elem' = [elem EXCEPT ![g] = Head(Contents(c))]
         /\ Contents(c)' = Tail(Contents(c))
         /\ \A d \in Channel \ {c} : Contents(d)' = Contents(d)
         /\ \A d \in Channel : Indexed(d)'
<1>. DEFINE n == dataqsiz[c]
            r == recvx[c]
            m == qcount[c]
            x == IF r + 1 = n THEN 0 ELSE r + 1
<1>0. /\ DOMAIN buf = Channel /\ DOMAIN recvx = Channel /\ DOMAIN qcount = Channel
      /\ \A d \in Channel : Indexed(d)
  BY DEF IInv, TypeOK, BufOK, LInv, BufFits
<1>1. /\ buf'[c] = [buf[c] EXCEPT ![r] = Zero] /\ recvx'[c] = x
      /\ qcount'[c] = m - 1 /\ sendx'[c] = sendx[c] /\ elem' = [elem EXCEPT ![g] = buf[c][r]]
      /\ \A d \in Channel \ {c} : UNCHANGED <<qcount[d], sendx[d], recvx[d], buf[d]>>
  BY <1>0 DEF bufrecv, Incr
<1>2. /\ n \in Nat /\ n > 0 /\ r \in 0..(n - 1) /\ m \in 1..n /\ sendx[c] \in 0..(n - 1)
      /\ buf[c] \in [0..(n - 1) -> Elem] /\ Zero \in Elem
  <2>1. n \in Nat /\ m \in 0..n /\ m > 0 /\ buf[c] \in [0..(n - 1) -> Elem] /\ Zero \in Elem
    BY BufTypes DEF Elem
  <2>2. n > 0 /\ m \in 1..n
    BY <2>1
  <2>. QED
    BY <2>1, <2>2, BufTypes
<1>3. sendx[c] = Slot(r, m + 1, n)
  BY <1>0, <1>2 DEF Indexed
<1>4. sendx[c] = IF r + m < n THEN r + m ELSE r + m - n
  <2>. HIDE DEF r, m, n
  <2>. QED
    BY <1>2, <1>3, SlotNext
<1>5. x \in 0..(n - 1) /\ m - 1 \in 0..n
  <2>. HIDE DEF r, m, n
  <2>. QED
    BY <1>2
<1>. HIDE DEF x
<1>7. Indexed(c)'
  <2>1. sendx[c] = Slot(x, (m - 1) + 1, n)
    <3>. HIDE DEF r, m, n
    <3>a. Slot(x, (m - 1) + 1, n) = IF x + (m - 1) < n THEN x + (m - 1) ELSE x + (m - 1) - n
      BY <1>2, <1>5, SlotNext
    <3>1. CASE r + 1 = n
      BY <1>2, <1>4, <3>a, <3>1 DEF x
    <3>2. CASE r + 1 # n
      BY <1>2, <1>4, <3>a, <3>2 DEF x
    <3>. QED
      BY <3>1, <3>2
  <2>. QED
    BY <1>1, <2>1 DEF Indexed
<1>8. Contents(c) # <<>> /\ Head(Contents(c)) = buf[c][r] /\ Contents(c)' = Tail(Contents(c))
  <2>3. Contents(c) = Ring(buf[c], r, m, n)
    BY BufTypes
  <2>4. Contents(c)' = Ring(buf'[c], x, m - 1, n)
    BY <1>1 DEF Contents, Ring, Slot
  <2>5. x \in 0..(n - 1) /\ (r + 1 = n => x = 0) /\ (r + 1 # n => x = r + 1)
    BY <1>5 DEF x
  <2>. DEFINE b == buf[c]
              d == buf'[c]
  <2>a. /\ n \in Nat /\ n > 0 /\ r \in 0..(n - 1) /\ m \in 1..n
        /\ b \in [0..(n - 1) -> Elem] /\ d \in [0..(n - 1) -> Elem]
        /\ \A k \in 0..(n - 1) : k # r => d[k] = b[k]
    BY <1>1, <1>2
  <2>7. Contents(c) = Ring(b, r, m, n) /\ Contents(c)' = Ring(d, x, m - 1, n) /\ buf[c] = b
    BY <2>3, <2>4
  <2>. HIDE DEF r, m, n, b, d
  <2>6. /\ Ring(b, r, m, n) # <<>> /\ Head(Ring(b, r, m, n)) = b[r]
        /\ Ring(d, x, m - 1, n) = Tail(Ring(b, r, m, n))
    BY <2>a, <2>5, RingPop
  <2>. QED
    BY <2>6, <2>7
<1>. QED
  BY <1>0, <1>1, <1>7, <1>8, SameBuffer

\* recv, with the sender's element v: in a buffered channel, through the buffer.
LEMMA SwapBuffer ==
  ASSUME IInv, LInv, NEW g \in G, NEW c \in Channel, NEW y \in G, NEW i \in Nat,
         qcount[c] = dataqsiz[c], recv(g, c), sendq[c][First(sendq[c])] = <<y, i>>
  PROVE  LET all == Append(Contents(c), Val(y, i))
         IN  /\ elem' = [elem EXCEPT ![g] = Head(all)]
             /\ Contents(c)' = Tail(all)
             /\ \A d \in Channel \ {c} : Contents(d)' = Contents(d)
             /\ \A d \in Channel : Indexed(d)'
<1>. DEFINE n == dataqsiz[c]
            r == recvx[c]
            x == IF r + 1 = n THEN 0 ELSE r + 1
            v == Val(y, i)
<1>0. /\ DOMAIN buf = Channel /\ DOMAIN recvx = Channel /\ DOMAIN sendx = Channel
      /\ n \in Nat /\ v \in Elem /\ \A d \in Channel : Indexed(d)
  BY ValType, BufTypes DEF IInv, TypeOK, BufOK, LInv, BufFits
<1>. HIDE DEF v
<1>1. /\ sendq[c][First(sendq[c])][1] = y /\ sendq[c][First(sendq[c])][2] = i
  OBVIOUS
<1>2. IF dataqsiz[c] = 0
        THEN /\ elem' = [elem EXCEPT ![g] = v]
             /\ UNCHANGED bufVars
        ELSE /\ elem' = [elem EXCEPT ![g] = buf[c][recvx[c]]]
             /\ buf' = [buf EXCEPT ![c][recvx[c]] = v]
             /\ recvx' = [recvx EXCEPT ![c] = Incr(c, recvx[c])]
             /\ sendx' = [sendx EXCEPT ![c] = Incr(c, recvx[c])]
             /\ UNCHANGED qcount
  BY <1>1 DEF recv, v
<1>3. CASE n = 0
  <2>1. Contents(c) = <<>>
    BY <1>3, EmptyContents
  <2>2. /\ UNCHANGED <<qcount, sendx, recvx, buf>> /\ elem' = [elem EXCEPT ![g] = v]
    BY <1>2, <1>3 DEF bufVars
  <2>3. \A d \in Channel : Contents(d)' = Contents(d) /\ Indexed(d)'
    BY <1>0, <2>2, SameBuffer
  <2>4. Head(Append(<<>>, v)) = v /\ Tail(Append(<<>>, v)) = <<>>
    OBVIOUS
  <2>. QED
    BY <2>1, <2>2, <2>3, <2>4 DEF v
<1>4. CASE n # 0
  <2>1. /\ n > 0 /\ r \in 0..(n - 1) /\ buf[c] \in [0..(n - 1) -> Elem]
    <3>1. n > 0
      BY <1>0, <1>4
    <3>. QED
      BY <3>1, BufTypes
  <2>2. /\ buf'[c] = [buf[c] EXCEPT ![r] = v] /\ recvx'[c] = x /\ sendx'[c] = x
        /\ qcount'[c] = n /\ elem' = [elem EXCEPT ![g] = buf[c][r]]
        /\ \A d \in Channel \ {c} : UNCHANGED <<qcount[d], sendx[d], recvx[d], buf[d]>>
    BY <1>0, <1>2, <1>4 DEF Incr
  <2>3. x \in 0..(n - 1) /\ n \in 0..n
    <3>. HIDE DEF r, n
    <3>. QED
      BY <1>0, <2>1
  <2>. HIDE DEF x
  <2>5. Indexed(c)'
    <3>1. x = Slot(x, n + 1, n)
      <4>. HIDE DEF n
      <4>1. Slot(x, n + 1, n) = IF x + n < n THEN x + n ELSE x + n - n
        BY <1>0, <2>1, <2>3, SlotNext
      <4>. QED
        BY <1>0, <2>3, <4>1
    <3>. QED
      BY <2>2, <3>1 DEF Indexed
  <2>6. Contents(c) = Ring(buf[c], r, n, n)
    BY BufTypes
  <2>7. Contents(c)' = Ring(buf'[c], x, n, n)
    BY <2>2 DEF Contents, Ring, Slot
  <2>8. x \in 0..(n - 1) /\ (r + 1 = n => x = 0) /\ (r + 1 # n => x = r + 1)
    BY <2>3 DEF x
  <2>9. /\ Head(Append(Contents(c), v)) = buf[c][r]
        /\ Contents(c)' = Tail(Append(Contents(c), v))
    <3>. DEFINE b == buf[c]
                d == buf'[c]
    <3>a. /\ n \in Nat /\ n > 0 /\ r \in 0..(n - 1) /\ v \in Elem
          /\ b \in [0..(n - 1) -> Elem] /\ d \in [0..(n - 1) -> Elem]
          /\ d[r] = v /\ \A k \in 0..(n - 1) : k # r => d[k] = b[k]
      BY <1>0, <2>1, <2>2
    <3>b. Contents(c) = Ring(b, r, n, n) /\ Contents(c)' = Ring(d, x, n, n) /\ buf[c] = b
      BY <2>6, <2>7
    <3>. HIDE DEF r, n, b, d
    <3>1. /\ Head(Append(Ring(b, r, n, n), v)) = b[r]
          /\ Ring(d, x, n, n) = Tail(Append(Ring(b, r, n, n), v))
      BY <3>a, <2>8, RingSwap, ZenonT(40)
    <3>. QED
      BY <3>b, <3>1
  <2>. QED
    BY <1>0, <2>2, <2>5, <2>9, SameBuffer DEF v
<1>. QED
  BY <1>3, <1>4

\* A receive that takes a waiting sender, as a whole.
LEMMA SwapTakes ==
  ASSUME IInv, SInv, LInv, NEW g \in G, NEW k \in DOMAIN op[g].cases,
         (k = 1 /\ chanrecvDirect(g)) \/ selectRecv(g, k), NEW c, c = CaseChan(g, k)
  PROVE  \E y \in G, i \in Nat :
           /\ TakesOne(g, c, "send", y, i)
           /\ elem' = [elem EXCEPT ![g] = Head(Append(Contents(c), Val(y, i)))]
           /\ Contents(c)' = Tail(Append(Contents(c), Val(y, i)))
           /\ \A d \in Channel \ {c} : Contents(d)' = Contents(d)
           /\ \A d \in Channel : Indexed(d)'
<1>1. /\ c \in Channel /\ k \in Nat /\ lock[c] \in {NoG, g} /\ pc[g] \in {"lock", "sellock"}
      /\ op[g].kind # "close" /\ Live(sendq[c]) # {} /\ recv(g, c)
      /\ pc' = [pc EXCEPT ![g] = "ready"] /\ ret' = [ret EXCEPT ![g] = Done(k, TRUE)]
      /\ UNCHANGED <<op, calls, closed, param, success>>
  <2>1. op[g].kind \in {"chan", "select"} => op[g].kind # "close"
    OBVIOUS
  <2>. QED
    BY <2>1, RecvStep
<1>2. qcount[c] = dataqsiz[c]
  BY SwapFacts
<1>3. PICK y \in G, i \in Nat :
        TakesOne(g, c, "send", y, i) /\ sendq[c][First(sendq[c])] = <<y, i>>
  BY <1>1, RecvTakes
<1>4. LET all == Append(Contents(c), Val(y, i))
      IN  /\ elem' = [elem EXCEPT ![g] = Head(all)]
          /\ Contents(c)' = Tail(all)
          /\ \A d \in Channel \ {c} : Contents(d)' = Contents(d)
          /\ \A d \in Channel : Indexed(d)'
  BY <1>1, <1>2, <1>3, SwapBuffer
<1>. QED
  BY <1>3, <1>4

\* Which step of SwapStep it is.
LEMMA SwapCase ==
  ASSUME IInv, NEW g \in G, SwapStep(g)
  PROVE  \E k \in DOMAIN op[g].cases : (k = 1 /\ chanrecvDirect(g)) \/ selectRecv(g, k)
<1>1. chanrecvDirect(g) => 1 \in DOMAIN op[g].cases
  BY OneCase DEF chanrecvDirect, Enter
<1>. QED
  BY <1>1 DEF SwapStep

\* sendx stays behind the last element ...
LEMMA FitsIndexed ==
  ASSUME IInv, SInv, LInv, NEW g \in G, CallStep(g) \/ Run(g)
  PROVE  \A c \in Channel : Indexed(c)'
<1>1. CASE UNCHANGED bufVars
  <2>1. UNCHANGED <<qcount, sendx, recvx, buf>> /\ \A c \in Channel : Indexed(c)
    BY <1>1 DEF bufVars, LInv, BufFits
  <2>. QED
    BY <2>1, SameBuffer
<1>2. CASE PushStep(g)
  BY <1>2, PushFacts, PushBuffer
<1>3. CASE PopStep(g)
  BY <1>3, PopFacts, PopBuffer
<1>4. CASE SwapStep(g)
  BY <1>4, SwapCase, SwapTakes
<1>. QED
  BY <1>1, <1>2, <1>3, <1>4, BufferSteps

\* ... and receivers wait on empty channels only, closed ones too.
LEMMA FitsWaiters ==
  ASSUME IInv, SInv, LInv, IInv', NEW g \in G, CallStep(g) \/ Run(g), NEW c \in Channel,
         recvq'[c] # <<>>
  PROVE  qcount'[c] = 0
<1>1. CASE ~closed'[c]
  <2>1. WaitqOK(c)' /\ qcount'[c] \in Nat
    BY DEF IInv, WaitqInvariant, TypeOK, BufOK
  <2>2. ~(qcount'[c] > 0)
    BY <1>1, <2>1 DEF WaitqOK
  <2>. QED
    BY <2>1, <2>2
<1>2. CASE closed'[c]
  <2>1. recvq[c] # <<>>
    BY <1>2, RecvqGrows
  <2>2. qcount[c] = 0 /\ DOMAIN qcount = Channel
    BY <2>1 DEF LInv, BufFits, IInv, TypeOK, BufOK
  <2>3. CASE UNCHANGED bufVars
    BY <2>2, <2>3 DEF bufVars
  <2>4. CASE PushStep(g)
    <3>1. PICK d \in Channel : ~closed[d] /\ UNCHANGED closed /\ \E k : bufsend(g, k, d)
      BY <2>4, PushFacts
    <3>2. qcount' = [qcount EXCEPT ![d] = @ + 1]
      BY <3>1 DEF bufsend
    <3>. QED
      BY <1>2, <2>2, <3>1, <3>2
  <2>5. CASE PopStep(g)
    <3>1. PICK d \in Channel : qcount[d] > 0 /\ bufrecv(g, d)
      BY <2>5, PopFacts
    <3>2. qcount' = [qcount EXCEPT ![d] = @ - 1]
      BY <3>1 DEF bufrecv
    <3>. QED
      BY <2>2, <3>1, <3>2
  <2>6. CASE SwapStep(g)
    <3>1. \E d : recv(g, d)
      BY <2>6 DEF SwapStep, chanrecvDirect, selectRecv
    <3>2. UNCHANGED qcount
      BY <3>1 DEF recv, bufVars
    <3>. QED
      BY <2>2, <3>2
  <2>. QED
    BY <2>3, <2>4, <2>5, <2>6, BufferSteps
<1>. QED
  BY <1>1, <1>2

-----------------------------------------------------------------------------
(* The invariant.                                                          *)

LEMMA LInvInit == Init => LInv
<1>. SUFFICES ASSUME Init PROVE LInv
  OBVIOUS
<1>1. ASSUME NEW g \in G PROVE CallFits(g)
  <2>1. pc[g] = "idle" /\ op[g] = NoOp
    BY DEF Init
  <2>. QED
    BY <2>1 DEF CallFits, FastSend, FastRecv, NoOp
<1>2. ASSUME NEW c \in Channel PROVE BufFits(c)
  <2>. DEFINE n == dataqsiz[c]
  <2>1. recvq[c] = <<>> /\ qcount[c] = 0 /\ sendx[c] = 0 /\ recvx[c] = 0 /\ n \in Nat
    BY SizeAssumption DEF Init
  <2>. HIDE DEF n
  <2>2. n > 0 => 0 = Slot(0, 0 + 1, n)
    <3>1. n > 0 => 0 \in 0..(n - 1) /\ 0 \in 0..n /\ 0 + 0 < n /\ 0 + 0 = 0
      BY <2>1
    <3>2. n > 0 => Slot(0, 0 + 1, n) = IF 0 + 0 < n THEN 0 + 0 ELSE 0 + 0 - n
      BY <2>1, <3>1, SlotNext
    <3>. QED
      BY <3>1, <3>2
  <2>. QED
    BY <2>1, <2>2 DEF BufFits, Indexed, n
<1>. QED
  BY <1>1, <1>2 DEF LInv

\* A step of Next is a step of a goroutine, or changes nothing.
LEMMA NextSteps ==
  ASSUME [Next]_vars
  PROVE  UNCHANGED vars \/ \E g \in G : CallStep(g) \/ Run(g)
BY DEF Next, CallStep

LEMMA LInvStep ==
  ASSUME IInv, SInv, LInv, IInv', NEW g \in G, CallStep(g) \/ Run(g)
  PROVE  LInv'
<1>1. \A h \in G : CallFits(h)'
  <2>1. CASE TakeStepOf(g)
    BY <2>1, FitsTake
  <2>2. CASE goready(g)
    BY <2>2, FitsReady
  <2>3. CASE Solo(g) /\ ~TakeStepOf(g) /\ ~goready(g)
    BY <2>3, FitsAlone
  <2>. QED
    BY <2>1, <2>2, <2>3, StepKinds
<1>2. \A c \in Channel : BufFits(c)'
  BY FitsIndexed, FitsWaiters DEF BufFits
<1>. QED
  BY <1>1, <1>2 DEF LInv

LEMMA LInvNext == IInv /\ SInv /\ LInv /\ [Next]_vars => LInv'
<1>. SUFFICES ASSUME IInv, SInv, LInv, [Next]_vars PROVE LInv'
  OBVIOUS
<1>1. IInv'
  BY IInvNext
<1>2. CASE UNCHANGED vars
  <2>1. UNCHANGED <<closed, qcount, sendx, recvx, recvq, pc, op, param, success, wake>>
    BY <1>2 DEF vars, chanVars, wakeVars
  <2>2. \A g, i : CaseChan(g, i)' = CaseChan(g, i) /\ CaseDir(g, i)' = CaseDir(g, i)
    BY <2>1 DEF CaseChan, CaseDir
  <2>. QED
    BY <2>1, <2>2 DEF LInv, CallFits, IsSelect, Ch, BufFits, Indexed
<1>. QED
  BY <1>1, <1>2, NextSteps, LInvStep

-----------------------------------------------------------------------------
(* The abstract steps, in terms of Chan: what a step must do, channel by   *)
(* channel and goroutine by goroutine, to be a step of ChanSpec.           *)

Cur(g) == IF Effective(g) THEN NoOp ELSE op[g]

AtCase(g, i, c, dir) ==
  /\ ~Effective(g) /\ op[g].kind \in {"chan", "select"}
  /\ i \in DOMAIN op[g].cases /\ op[g].cases[i] = [c |-> c, dir |-> dir]

\* The goroutines outside S notice nothing, and those in S are done.
Others(S)      == \A h \in G \ S : UNCHANGED <<Cur(h), AbstractRes(h)>>
Finishes(g, r) == Effective(g)' /\ AbstractRes(g)' = r

SameContents == \A c \in Channel : Contents(c)' = Contents(c)

LEMMA MapFinish ==
  ASSUME NEW g \in G, NEW r, Finishes(g, r), Others({g})
  PROVE  A!Finish(g, r)
<1>1. [h \in G |-> IF Effective(h) THEN NoOp ELSE op[h]]'
        = [[h \in G |-> IF Effective(h) THEN NoOp ELSE op[h]] EXCEPT ![g] = A!NoOp]
  <2>1. \A h \in G : Cur(h)' = IF h = g THEN NoOp ELSE Cur(h)
    BY DEF Finishes, Others, Cur
  <2>. QED
    BY <2>1 DEF Cur, A!NoOp, NoOp
<1>2. [h \in G |-> AbstractRes(h)]' = [[h \in G |-> AbstractRes(h)] EXCEPT ![g] = r]
  BY DEF Finishes, Others
<1>. QED
  BY <1>1, <1>2 DEF A!Finish

LEMMA MapAt ==
  ASSUME NEW g \in G, NEW i, NEW c, NEW dir, AtCase(g, i, c, dir)
  PROVE  /\ A!At(g, i, c, dir)
         /\ i \in DOMAIN [h \in G |-> IF Effective(h) THEN NoOp ELSE op[h]][g].cases
BY DEF AtCase, A!At

LEMMA MapSame ==
  ASSUME SameContents
  PROVE  UNCHANGED [c \in Channel |-> Contents(c)]
BY DEF SameContents

LEMMA MapCall ==
  ASSUME NEW g \in G, NEW o \in Ops, Effective(g), ~Effective(g)', op'[g] = o,
         AbstractRes(g)' = NoRet, calls[g] < MaxCalls, calls' = [calls EXCEPT ![g] = @ + 1],
         Others({g}), SameContents, UNCHANGED <<closed, elem>>
  PROVE  A!ANext
<1>1. [h \in G |-> IF Effective(h) THEN NoOp ELSE op[h]]'
        = [[h \in G |-> IF Effective(h) THEN NoOp ELSE op[h]] EXCEPT ![g] = o]
  <2>1. \A h \in G : Cur(h)' = IF h = g THEN o ELSE Cur(h)
    BY DEF Others, Cur
  <2>. QED
    BY <2>1 DEF Cur
<1>2. [h \in G |-> AbstractRes(h)]' = [[h \in G |-> AbstractRes(h)] EXCEPT ![g] = A!NoRet]
  BY DEF Others, A!NoRet, NoRet
<1>3. [h \in G |-> IF Effective(h) THEN NoOp ELSE op[h]][g] = A!NoOp
  BY DEF A!NoOp, NoOp
<1>4. A!Call(g, o)
  BY <1>1, <1>2, <1>3, MapSame DEF A!Call
<1>. QED
  BY <1>4 DEF A!ANext

LEMMA MapSend ==
  ASSUME NEW g \in G, NEW i, NEW c \in Channel, AtCase(g, i, c, "send"), ~closed[c],
         Len(Contents(c)) < dataqsiz[c], Contents(c)' = Append(Contents(c), Val(g, i)),
         \A d \in Channel \ {c} : Contents(d)' = Contents(d),
         Finishes(g, Done(i, TRUE)), Others({g}), UNCHANGED <<closed, calls, elem>>
  PROVE  A!ANext
<1>1. [d \in Channel |-> Contents(d)]'
        = [[d \in Channel |-> Contents(d)] EXCEPT ![c] = Append(@, A!Val(g, i))]
  BY DEF A!Val, Val
<1>2. A!Finish(g, A!Done(i, TRUE))
  BY MapFinish DEF A!Done, Done
<1>3. A!Send(g, i, c)
  BY <1>1, <1>2, MapAt DEF A!Send
<1>. QED
  BY <1>3, MapAt DEF A!ANext

LEMMA MapSendClosed ==
  ASSUME NEW g \in G, NEW i, NEW c \in Channel, AtCase(g, i, c, "send"), closed[c],
         SameContents, Finishes(g, Panic(i)), Others({g}), UNCHANGED <<closed, calls, elem>>
  PROVE  A!ANext
<1>1. A!Finish(g, A!Panic(i))
  BY MapFinish DEF A!Panic, Panic
<1>2. A!SendClosed(g, i, c)
  BY <1>1, MapAt, MapSame DEF A!SendClosed
<1>. QED
  BY <1>2, MapAt DEF A!ANext

LEMMA MapRecv ==
  ASSUME NEW g \in G, NEW i, NEW c \in Channel, AtCase(g, i, c, "recv"), Contents(c) # <<>>,
         elem' = [elem EXCEPT ![g] = Head(Contents(c))], Contents(c)' = Tail(Contents(c)),
         \A d \in Channel \ {c} : Contents(d)' = Contents(d),
         Finishes(g, Done(i, TRUE)), Others({g}), UNCHANGED <<closed, calls>>
  PROVE  A!ANext
<1>1. [d \in Channel |-> Contents(d)]'
        = [[d \in Channel |-> Contents(d)] EXCEPT ![c] = Tail(@)]
  OBVIOUS
<1>2. A!Finish(g, A!Done(i, TRUE))
  BY MapFinish DEF A!Done, Done
<1>3. A!Recv(g, i, c)
  BY <1>1, <1>2, MapAt DEF A!Recv
<1>. QED
  BY <1>3, MapAt DEF A!ANext

LEMMA MapRecvClosed ==
  ASSUME NEW g \in G, NEW i, NEW c \in Channel, AtCase(g, i, c, "recv"), closed[c],
         Contents(c) = <<>>, elem' = [elem EXCEPT ![g] = Zero], SameContents,
         Finishes(g, Done(i, FALSE)), Others({g}), UNCHANGED <<closed, calls>>
  PROVE  A!ANext
<1>1. A!Finish(g, A!Done(i, FALSE))
  BY MapFinish DEF A!Done, Done
<1>2. A!RecvClosed(g, i, c)
  BY <1>1, MapAt, MapSame DEF A!RecvClosed, A!Zero, Zero
<1>. QED
  BY <1>2, MapAt DEF A!ANext

LEMMA MapMeet ==
  ASSUME NEW s \in G, NEW i, NEW r \in G, NEW j, NEW c \in Channel, s # r,
         AtCase(s, i, c, "send"), AtCase(r, j, c, "recv"), ~closed[c],
         elem' = [elem EXCEPT ![r] = Head(Append(Contents(c), Val(s, i)))],
         Contents(c)' = Tail(Append(Contents(c), Val(s, i))),
         \A d \in Channel \ {c} : Contents(d)' = Contents(d),
         Finishes(s, Done(i, TRUE)), Finishes(r, Done(j, TRUE)), Others({s, r}),
         UNCHANGED <<closed, calls>>
  PROVE  A!ANext
<1>1. [d \in Channel |-> Contents(d)]'
        = [[d \in Channel |-> Contents(d)] EXCEPT
             ![c] = Tail(Append([d \in Channel |-> Contents(d)][c], A!Val(s, i)))]
  BY DEF A!Val, Val
<1>2. [h \in G |-> IF Effective(h) THEN NoOp ELSE op[h]]'
        = [[h \in G |-> IF Effective(h) THEN NoOp ELSE op[h]]
             EXCEPT ![s] = A!NoOp, ![r] = A!NoOp]
  <2>1. \A h \in G : Cur(h)' = IF h \in {s, r} THEN NoOp ELSE Cur(h)
    BY DEF Finishes, Others, Cur
  <2>. QED
    BY <2>1 DEF Cur, A!NoOp, NoOp
<1>3. [h \in G |-> AbstractRes(h)]'
        = [[h \in G |-> AbstractRes(h)] EXCEPT ![s] = A!Done(i, TRUE), ![r] = A!Done(j, TRUE)]
  BY DEF Finishes, Others, A!Done, Done
<1>4. A!Meet(s, i, r, j, c)
  BY <1>1, <1>2, <1>3, MapAt DEF A!Meet, A!Val, Val
<1>. QED
  BY <1>4, MapAt DEF A!ANext

\* close, on a channel that is open, closed or nil.
LEMMA MapClose ==
  ASSUME NEW g \in G, NEW c \in Channel \cup {Nil}, ~Effective(g), op[g].kind = "close",
         op[g].cases[1].c = c, SameContents, Others({g}), UNCHANGED <<calls, elem>>,
         \/ (c = Nil \/ closed[c]) /\ Finishes(g, Panic(1)) /\ UNCHANGED closed
         \/ /\ c # Nil /\ ~closed[c] /\ Finishes(g, Done(1, TRUE))
            /\ closed' = [closed EXCEPT ![c] = TRUE]
  PROVE  A!ANext
<1>1. Finishes(g, Panic(1)) => A!Finish(g, A!Panic(1))
  BY MapFinish DEF A!Panic, Panic
<1>2. Finishes(g, Done(1, TRUE)) => A!Finish(g, A!Done(1, TRUE))
  BY MapFinish DEF A!Done, Done
<1>3. A!Close(g, c)
  BY <1>1, <1>2, MapSame DEF A!Close
<1>. QED
  BY <1>3 DEF A!ANext

LEMMA MapDefault ==
  ASSUME NEW g \in G, ~Effective(g), op[g].kind \in {"chan", "select"}, ~op[g].block,
         SameContents, Finishes(g, NotDone), Others({g}), UNCHANGED <<closed, calls, elem>>
  PROVE  A!ANext
<1>1. A!Finish(g, A!NotDone)
  BY MapFinish DEF A!NotDone, NotDone
<1>2. A!Default(g)
  BY <1>1, MapSame DEF A!Default
<1>. QED
  BY <1>2 DEF A!ANext

\* A step nobody can see.
LEMMA MapStutter ==
  ASSUME SameContents, Others({}), UNCHANGED <<closed, calls, elem>>
  PROVE  UNCHANGED A!avars
<1>1. [h \in G |-> IF Effective(h) THEN NoOp ELSE op[h]]'
        = [h \in G |-> IF Effective(h) THEN NoOp ELSE op[h]]
  <2>1. \A h \in G : Cur(h)' = Cur(h)
    BY DEF Others
  <2>. QED
    BY <2>1 DEF Cur
<1>2. UNCHANGED [h \in G |-> AbstractRes(h)]
  BY DEF Others
<1>. QED
  BY <1>1, <1>2, MapSame DEF A!avars

-----------------------------------------------------------------------------
(* What the goroutines see of a step.                                      *)

\* Who has taken x, and as which case.
LEMMA TakenRes ==
  SInv => \A x \in G, h \in G : \A s \in wake[h] :
            s[1] = x => Taken(x) /\ AbstractRes(x) = Outcome(x, s[2], op[h].kind # "close")
<1>. SUFFICES ASSUME SInv, NEW x \in G, NEW h \in G, NEW s \in wake[h], s[1] = x
              PROVE  Taken(x) /\ AbstractRes(x) = Outcome(x, s[2], op[h].kind # "close")
  OBVIOUS
<1>1. \A k \in G : \A t \in wake[k] : t[1] = x => k = h /\ t = s
  BY DEF SInv, GInv, Wakes
<1>2. Waker(x) = h
  BY <1>1 DEF Waker
<1>3. TakenAs(x) = s
  BY <1>1, <1>2 DEF TakenAs
<1>4. Taken(x)
  BY DEF Taken
<1>. QED
  BY <1>2, <1>3, <1>4 DEF AbstractRes

LEMMA TakenResNext ==
  SInv' => (\A x \in G, h \in G : \A s \in wake[h] :
             s[1] = x => Taken(x) /\ AbstractRes(x) = Outcome(x, s[2], op[h].kind # "close"))'
BY TakenRes, PTL

LEMMA NotTaken ==
  ASSUME SInv, NEW g \in G, pc[g] # "park"
  PROVE  ~Taken(g)
BY DEF SInv, GInv, Wakes, Taken

\* When g acts alone, only g may notice.
LEMMA SoloOthers ==
  ASSUME IInv, SInv, NEW g \in G, Solo(g)
  PROVE  /\ Others({g}) /\ Taken(g)' = Taken(g)
         /\ ~Taken(g) => /\ Effective(g)' <=> pc'[g] \in {"idle", "ready", "closing", "woken",
                                                          "relock", "pass3"}
                         /\ AbstractRes(g)' = IF pc'[g] \in {"woken", "relock", "pass3"}
                                                THEN Outcome(g, param[g], success[g])'
                                                ELSE ret'[g]
<1>1. \A h : Taken(h)' = Taken(h) /\ Waker(h)' = Waker(h) /\ TakenAs(h)' = TakenAs(h)
  BY DEF Solo, Taken, Waker, TakenAs
<1>2. ASSUME NEW h \in G \ {g} PROVE UNCHANGED <<Cur(h), AbstractRes(h)>>
  <2>1. UNCHANGED <<pc[h], op[h], ret[h], param[h], success>>
    BY DEF Solo
  <2>2. \A i, ok : Outcome(h, i, ok)' = Outcome(h, i, ok)
    BY <2>1 DEF Outcome, CaseDir
  <2>3. Taken(h) => op'[Waker(h)].kind = op[Waker(h)].kind
    <3>. SUFFICES ASSUME Taken(h) PROVE op'[Waker(h)].kind = op[Waker(h)].kind
      OBVIOUS
    <3>1. Waker(h) \in G /\ wake[Waker(h)] # {}
      BY DEF Taken, Waker
    <3>2. Waker(h) = g => op'[g] = op[g]
      BY <3>1 DEF Solo
    <3>. QED
      BY <3>1, <3>2 DEF Solo
  <2>4. Cur(h)' = Cur(h)
    BY <1>1, <2>1 DEF Cur, Effective
  <2>5. AbstractRes(h)' = AbstractRes(h)
    <3>1. CASE Taken(h)
      BY <1>1, <2>2, <2>3, <3>1 DEF AbstractRes
    <3>2. CASE ~Taken(h)
      BY <1>1, <2>1, <2>2, <3>2 DEF AbstractRes
    <3>. QED
      BY <3>1, <3>2
  <2>. QED
    BY <2>4, <2>5
<1>3. ~Taken(g) => /\ Effective(g)' <=> pc'[g] \in {"idle", "ready", "closing", "woken",
                                                    "relock", "pass3"}
                   /\ AbstractRes(g)' = IF pc'[g] \in {"woken", "relock", "pass3"}
                                          THEN Outcome(g, param[g], success[g])'
                                          ELSE ret'[g]
  <2>. SUFFICES ASSUME ~Taken(g)
                PROVE  /\ Effective(g)' <=> pc'[g] \in {"idle", "ready", "closing", "woken",
                                                        "relock", "pass3"}
                       /\ AbstractRes(g)' = IF pc'[g] \in {"woken", "relock", "pass3"}
                                              THEN Outcome(g, param[g], success[g])'
                                              ELSE ret'[g]
    OBVIOUS
  <2>1. ~Taken(g)'
    BY <1>1
  <2>2. Effective(g)' <=> pc'[g] \in {"idle", "ready", "closing", "woken", "relock", "pass3"}
    BY <2>1 DEF Effective
  <2>3. AbstractRes(g)' = IF pc'[g] \in {"woken", "relock", "pass3"}
                            THEN Outcome(g, param[g], success[g])' ELSE ret'[g]
    BY <2>1 DEF AbstractRes
  <2>. QED
    BY <2>2, <2>3
<1>. QED
  BY <1>1, <1>2, <1>3 DEF Others

\* The operation of g has not taken effect.
Early == {"nil", "sendClosed", "sendFull", "sendFullFirst", "sendClosedLast", "recvEmpty",
          "recvClosed", "recvRecheck", "lock", "sellock", "pass2"}

LEMMA EarlyFacts ==
  ASSUME SInv, NEW g \in G, pc[g] \in Early
  PROVE  ~Taken(g) /\ ~Effective(g) /\ AbstractRes(g) = ret[g]
<1>1. pc[g] # "park" /\ pc[g] \notin {"idle", "ready", "closing", "woken", "relock", "pass3"}
  BY DEF Early
<1>2. ~Taken(g)
  BY <1>1, NotTaken
<1>. QED
  BY <1>1, <1>2 DEF Effective, AbstractRes

\* It takes effect as g returns, or unlocks ...
LEMMA SoloFinishes ==
  ASSUME IInv, SInv, NEW g \in G, Solo(g), pc[g] \in Early, pc'[g] \in {"idle", "ready", "closing"}
  PROVE  ~Effective(g) /\ Others({g}) /\ Finishes(g, ret'[g])
BY EarlyFacts, SoloOthers DEF Finishes

\* ... or goes on without it.
LEMMA SoloHidden ==
  ASSUME IInv, SInv, NEW g \in G, Solo(g), UNCHANGED <<op[g], ret[g]>>,
         \/ pc[g] \in Early /\ pc'[g] \in Early \cup {"park"}
         \/ pc[g] \in {"closing", "ready"} /\ pc'[g] \in {"closing", "ready", "idle"}
  PROVE  Others({})
<1>1. ~Taken(g)
  BY NotTaken DEF Early
<1>2. AbstractRes(g) = ret[g] /\ AbstractRes(g)' = ret'[g]
  BY <1>1, SoloOthers DEF AbstractRes, Early
<1>3. Effective(g)' = Effective(g)
  BY <1>1, SoloOthers DEF Effective, Early
<1>4. Cur(g)' = Cur(g)
  BY <1>3 DEF Cur
<1>. QED
  BY <1>2, <1>4, SoloOthers DEF Others

\* Once it has been woken, g only finds out what happened.
LEMMA SoloLearns ==
  ASSUME IInv, SInv, NEW g \in G, Solo(g), pc[g] \in {"woken", "relock", "pass3"},
         \/ pc'[g] \in {"woken", "relock", "pass3"} /\ UNCHANGED <<op[g], param[g], success[g]>>
         \/ pc'[g] = "idle" /\ ret'[g] = Outcome(g, param[g], success[g])
  PROVE  Others({})
<1>1. ~Taken(g)
  BY NotTaken
<1>2. \A i, ok : op'[g] = op[g] => Outcome(g, i, ok)' = Outcome(g, i, ok)
  BY DEF Outcome, CaseDir
<1>3. AbstractRes(g) = Outcome(g, param[g], success[g])
  BY <1>1 DEF AbstractRes
<1>4. AbstractRes(g)' = AbstractRes(g)
  <2>1. CASE pc'[g] = "idle" /\ ret'[g] = Outcome(g, param[g], success[g])
    BY <1>1, <1>3, <2>1, SoloOthers
  <2>2. CASE pc'[g] \in {"woken", "relock", "pass3"} /\ UNCHANGED <<op[g], param[g], success[g]>>
    <3>1. AbstractRes(g)' = Outcome(g, param[g], success[g])'
      BY <1>1, <2>2, SoloOthers
    <3>2. Outcome(g, param[g], success[g])' = Outcome(g, param[g], success[g])
      BY <2>2 DEF Outcome, CaseDir
    <3>. QED
      BY <1>3, <3>1, <3>2
  <2>. QED
    BY <2>1, <2>2
<1>5. Effective(g) /\ Effective(g)'
  BY <1>1, SoloOthers DEF Effective
<1>6. Cur(g)' = Cur(g)
  BY <1>5 DEF Cur
<1>. QED
  BY <1>4, <1>6, SoloOthers DEF Others

\* What a step that takes <<y, i>> makes of g, of y and of the others.
LEMMA TakeSeen ==
  ASSUME IInv, SInv, SInv', NEW g \in G, NEW c \in Channel, NEW dir \in Dir, NEW y \in G,
         NEW i \in Nat, TakesOne(g, c, dir, y, i)
  PROVE  /\ y # g /\ AtCase(y, i, c, dir)
         /\ Finishes(y, Outcome(y, i, op[g].kind # "close"))
         /\ Others({g, y})
         /\ op[g].kind # "close" => ~Effective(g) /\ Finishes(g, ret'[g])
         /\ op[g].kind = "close" /\ ret'[g] = ret[g] => Others({y})
<1>0. wake \in [G -> SUBSET Sudog]
  BY DEF IInv, TypeOK, WakeOK
<1>1. /\ y # g /\ pc[y] = "park" /\ ~Chosen(y) /\ op[y].kind \in {"chan", "select"}
      /\ i \in DOMAIN op[y].cases /\ op[y].cases[i] = [c |-> c, dir |-> dir]
      /\ pc[g] \in {"lock", "sellock", "closing"} /\ UNCHANGED op
  BY DEF TakesOne, Waiter
<1>2. /\ wake'[g] = wake[g] \cup {<<y, i>>} /\ \A h \in G \ {g} : wake'[h] = wake[h]
  BY DEF TakesOne
<1>3. \A h, j, ok : Outcome(h, j, ok)' = Outcome(h, j, ok)
  BY <1>1 DEF Outcome, CaseDir
<1>4. AtCase(y, i, c, dir)
  BY <1>1 DEF AtCase, Effective, Taken, Chosen
<1>5. Finishes(y, Outcome(y, i, op[g].kind # "close"))
  <2>1. <<y, i>> \in wake'[g] /\ <<y, i>>[1] = y /\ <<y, i>>[2] = i
    BY <1>2
  <2>2. Taken(y)' /\ AbstractRes(y)' = Outcome(y, i, op[g].kind # "close")'
    BY <2>1, TakenResNext
  <2>3. Effective(y)'
    BY <2>2 DEF Effective
  <2>4. Outcome(y, i, op[g].kind # "close")' = Outcome(y, i, op[g].kind # "close")
    BY <1>1, <1>3 DEF Outcome, CaseDir
  <2>. QED
    BY <2>2, <2>3, <2>4 DEF Finishes
<1>6. ASSUME NEW h \in G, h # y PROVE Taken(h)' <=> Taken(h)
  <2>1. \A k \in G : \A s : s[1] = h => (s \in wake'[k] <=> s \in wake[k])
    BY <1>2, <1>6
  <2>. QED
    BY <2>1 DEF Taken
<1>7. ~Taken(g) /\ ~Taken(g)' /\ pc'[g] \in {"ready", "closing"}
  BY <1>1, <1>6, NotTaken DEF TakesOne
<1>8. ASSUME NEW h \in G \ {g, y} PROVE UNCHANGED <<Cur(h), AbstractRes(h)>>
  <2>1. UNCHANGED <<pc[h], op[h], ret[h], param[h], success[h]>> /\ (Taken(h)' <=> Taken(h))
    BY <1>1, <1>6 DEF TakesOne
  <2>2. Cur(h)' = Cur(h)
    BY <2>1 DEF Cur, Effective
  <2>3. CASE Taken(h)
    <3>1. PICK k \in G : \E s \in wake[k] : s[1] = h
      BY <2>3 DEF Taken
    <3>2. PICK s \in wake[k] : s[1] = h
      BY <3>1
    <3>3. s \in wake'[k]
      BY <1>2, <3>2
    <3>4. AbstractRes(h) = Outcome(h, s[2], op[k].kind # "close")
      BY <3>2, TakenRes
    <3>5. AbstractRes(h)' = Outcome(h, s[2], op[k].kind # "close")'
      BY <3>2, <3>3, TakenResNext
    <3>6. Outcome(h, s[2], op[k].kind # "close")' = Outcome(h, s[2], op[k].kind # "close")
      BY <1>1 DEF Outcome, CaseDir
    <3>. QED
      BY <2>2, <3>4, <3>5, <3>6
  <2>4. CASE ~Taken(h)
    <3>1. Outcome(h, param[h], success[h])' = Outcome(h, param[h], success[h])
      BY <2>1 DEF Outcome, CaseDir
    <3>2. AbstractRes(h)' = AbstractRes(h)
      BY <2>1, <2>4, <3>1 DEF AbstractRes
    <3>. QED
      BY <2>2, <3>2
  <2>. QED
    BY <2>3, <2>4
<1>9. op[g].kind # "close" => ~Effective(g) /\ Finishes(g, ret'[g])
  <2>1. op[g].kind # "close" => pc[g] \in {"lock", "sellock"}
    BY <1>1 DEF SInv, Keeps
  <2>. QED
    BY <1>7, <2>1 DEF Effective, Finishes, AbstractRes
<1>10. op[g].kind = "close" /\ ret'[g] = ret[g] => UNCHANGED <<Cur(g), AbstractRes(g)>>
  <2>. SUFFICES ASSUME op[g].kind = "close", ret'[g] = ret[g] PROVE UNCHANGED <<Cur(g), AbstractRes(g)>>
    OBVIOUS
  <2>1. pc[g] = "closing" /\ pc'[g] = "closing"
    BY DEF TakesOne
  <2>2. Effective(g) /\ Effective(g)'
    BY <2>1 DEF Effective
  <2>. QED
    BY <1>7, <2>1, <2>2 DEF Cur, AbstractRes
<1>. QED
  BY <1>1, <1>4, <1>5, <1>8, <1>9, <1>10 DEF Others

\* Nobody notices that y has been readied.
LEMMA ReadySeen ==
  ASSUME IInv, SInv, SInv', LInv, NEW g \in G, goready(g)
  PROVE  Others({}) /\ SameContents /\ UNCHANGED <<closed, calls, elem>>
<1>0. /\ pc \in [G -> PC] /\ param \in [G -> Nat] /\ success \in [G -> BOOLEAN]
      /\ wake \in [G -> SUBSET Sudog] /\ Wakes(g) /\ CallFits(g)
  BY DEF IInv, TypeOK, RunOK, WakeOK, SInv, GInv, LInv
<1>1. PICK sg \in wake[g] :
        /\ wake' = [wake EXCEPT ![g] = @ \ {sg}]
        /\ pc' = [pc EXCEPT ![sg[1]] = "woken",
                            ![g] = IF wake[g] = {sg} THEN "idle" ELSE "ready"]
        /\ IF op[g].kind = "close"
             THEN UNCHANGED <<param, success>>
             ELSE /\ param' = [param EXCEPT ![sg[1]] = sg[2]]
                  /\ success' = [success EXCEPT ![sg[1]] = TRUE]
  BY DEF goready
<1>2. /\ pc[g] = "ready" /\ UNCHANGED <<op, ret, closed, calls, elem>>
      /\ UNCHANGED <<qcount, sendx, recvx, buf>>
  BY DEF goready, chanVars
<1>3. PICK y \in G, i \in Nat : sg = <<y, i>>
  BY <1>0, <1>1 DEF Sudog
<1>4. /\ pc[y] = "park" /\ y # g /\ (op[g].kind = "close" => param[y] = i)
      /\ \A h \in G : \A t \in wake[h] : t[1] = y => g = h /\ t = sg
  BY <1>0, <1>1, <1>2, <1>3 DEF Wakes
<1>5. \A h \in G : ~Taken(h) => ~Taken(h)'
  BY <1>0, <1>1 DEF Taken
<1>6. UNCHANGED <<Cur(g), AbstractRes(g)>>
  <2>1. ~Taken(g) /\ ~Taken(g)'
    BY <1>2, <1>5, NotTaken
  <2>2. pc'[g] \in {"idle", "ready"}
    BY <1>0, <1>1, <1>3, <1>4
  <2>3. Effective(g) /\ Effective(g)'
    BY <1>2, <2>2 DEF Effective
  <2>. QED
    BY <1>2, <2>1, <2>2, <2>3 DEF Cur, AbstractRes
<1>7. UNCHANGED <<Cur(y), AbstractRes(y)>>
  <2>1. ~Taken(y)' /\ pc'[y] = "woken"
    BY <1>0, <1>1, <1>3, <1>4 DEF Taken
  <2>2. Taken(y) /\ AbstractRes(y) = Outcome(y, i, op[g].kind # "close")
    BY <1>1, <1>3, TakenRes
  <2>3. AbstractRes(y)' = Outcome(y, param[y], success[y])'
    BY <2>1 DEF AbstractRes
  <2>4. param'[y] = i /\ success'[y] = (op[g].kind # "close")
    <3>1. CASE op[g].kind = "close"
      <4>1. ~success[y]
        BY <1>0, <1>1, <1>3, <3>1 DEF CallFits
      <4>2. success[y] = FALSE
        BY <1>0, <4>1
      <4>. QED
        BY <1>1, <1>4, <3>1, <4>2
    <3>2. CASE op[g].kind # "close"
      BY <1>0, <1>1, <1>3, <3>2
    <3>. QED
      BY <3>1, <3>2
  <2>5. Outcome(y, param[y], success[y])' = Outcome(y, i, op[g].kind # "close")
    BY <1>2, <2>4 DEF Outcome, CaseDir
  <2>6. Effective(y) /\ Effective(y)'
    BY <2>1, <2>2 DEF Effective
  <2>. QED
    BY <2>2, <2>3, <2>5, <2>6 DEF Cur
<1>8. ASSUME NEW h \in G \ {g, y} PROVE UNCHANGED <<Cur(h), AbstractRes(h)>>
  <2>0. UNCHANGED <<pc[h], op[h], ret[h], param[h], success[h]>>
    BY <1>0, <1>1, <1>2, <1>3
  <2>1. CASE Taken(h)
    <3>1. PICK k \in G : \E s \in wake[k] : s[1] = h
      BY <2>1 DEF Taken
    <3>2. PICK s \in wake[k] : s[1] = h
      BY <3>1
    <3>3. s \in wake'[k]
      BY <1>0, <1>1, <1>3, <3>2
    <3>4. AbstractRes(h) = Outcome(h, s[2], op[k].kind # "close")
      BY <3>2, TakenRes
    <3>5. Taken(h)' /\ AbstractRes(h)' = Outcome(h, s[2], op[k].kind # "close")'
      BY <3>2, <3>3, TakenResNext
    <3>6. Outcome(h, s[2], op[k].kind # "close")' = Outcome(h, s[2], op[k].kind # "close")
      BY <1>2 DEF Outcome, CaseDir
    <3>. QED
      BY <2>1, <3>4, <3>5, <3>6 DEF Cur, Effective
  <2>2. CASE ~Taken(h)
    <3>1. Outcome(h, param[h], success[h])' = Outcome(h, param[h], success[h]) /\ ~Taken(h)'
      BY <1>5, <2>0, <2>2 DEF Outcome, CaseDir
    <3>. QED
      BY <2>0, <2>2, <3>1 DEF AbstractRes, Cur, Effective
  <2>. QED
    BY <2>1, <2>2
<1>9. SameContents
  BY <1>2, SameBuffer DEF SameContents
<1>. QED
  BY <1>2, <1>6, <1>7, <1>8, <1>9 DEF Others

-----------------------------------------------------------------------------
(* Every step is a step of ChanSpec, or one nobody can see.                *)

Maps == A!ANext \/ UNCHANGED A!avars

LEMMA KeepContents ==
  ASSUME UNCHANGED bufVars
  PROVE  SameContents
<1>1. UNCHANGED <<qcount, sendx, recvx, buf>>
  BY DEF bufVars
<1>. QED
  BY <1>1, SameBuffer DEF SameContents

LEMMA CaseRecord ==
  ASSUME IInv, NEW g \in G, NEW i \in DOMAIN op[g].cases
  PROVE  op[g].cases[i] = [c |-> CaseChan(g, i), dir |-> CaseDir(g, i)]
<1>1. op[g].cases \in Seq(Case)
  BY OpType DEF IInv
<1>2. op[g].cases[i] \in Case
  BY <1>1
<1>. QED
  BY <1>2 DEF Case, CaseChan, CaseDir

LEMMA EarlyCase ==
  ASSUME IInv, SInv, NEW g \in G, pc[g] \in Early, op[g].kind \in {"chan", "select"},
         NEW i \in DOMAIN op[g].cases
  PROVE  AtCase(g, i, CaseChan(g, i), CaseDir(g, i))
BY EarlyFacts, CaseRecord DEF AtCase

\* Calls.
LEMMA MapsCall ==
  ASSUME IInv, SInv, NEW g \in G, CallStep(g), Solo(g)
  PROVE  Maps
<1>0. /\ pc \in [G -> PC] /\ op \in [G -> Ops \cup {NoOp}] /\ DOMAIN ret = G
  BY DEF IInv, TypeOK, RunOK
<1>1. PICK o \in Ops : CallChan(g, o) \/ CallNil(g, o) \/ CallSelect(g, o)
  BY DEF CallStep
<1>2. /\ pc[g] = "idle" /\ calls[g] < MaxCalls /\ calls' = [calls EXCEPT ![g] = @ + 1]
      /\ op'[g] = o /\ UNCHANGED <<bufVars, closed, elem>>
  BY <1>0, <1>1 DEF CallChan, CallNil, CallSelect, Call, chanVars, bufVars, wakeVars
<1>3. pc'[g] \in Early /\ ret'[g] = NoRet
  BY <1>0, <1>1 DEF CallChan, CallNil, CallSelect, Goto, Early
<1>4. ~Taken(g)
  BY <1>2, NotTaken
<1>5. Effective(g) /\ ~Effective(g)' /\ AbstractRes(g)' = NoRet /\ Others({g})
  <2>1. pc'[g] \notin {"idle", "ready", "closing", "woken", "relock", "pass3"}
    BY <1>3 DEF Early
  <2>2. pc'[g] \notin {"woken", "relock", "pass3"}
    BY <2>1
  <2>. QED
    BY <1>2, <1>3, <1>4, <2>1, <2>2, SoloOthers DEF Effective
<1>6. A!ANext
  BY <1>2, <1>5, KeepContents, MapCall
<1>. QED
  BY <1>6 DEF Maps

\* The fast paths.
LEMMA MapsFast ==
  ASSUME IInv, SInv, LInv, NEW g \in G, Solo(g),
         \/ sendClosed(g) \/ sendFull(g) \/ sendFullFirst(g) \/ sendClosedLast(g)
         \/ recvEmpty(g) \/ recvClosed(g) \/ recvRecheck(g)
  PROVE  Maps
<1>0. pc \in [G -> PC] /\ DOMAIN ret = G /\ CallFits(g)
  BY DEF IInv, TypeOK, RunOK, LInv
<1>1. /\ pc[g] \in FastSend \cup FastRecv /\ UNCHANGED <<bufVars, closed, op, calls>>
  BY DEF sendClosed, sendFull, sendFullFirst, sendClosedLast, recvEmpty, recvClosed, recvRecheck,
     chanVars, bufVars, FastSend, FastRecv
<1>2. /\ pc[g] \in Early /\ op[g].kind = "chan" /\ ~op[g].block /\ SameContents
  BY <1>0, <1>1, KeepContents DEF CallFits, FastSend, FastRecv, Early
<1>3. \/ pc'[g] \in Early /\ UNCHANGED <<ret, elem>>
      \/ pc'[g] = "idle" /\ ret'[g] = NotDone /\ UNCHANGED elem
      \/ /\ pc[g] = "recvRecheck" /\ pc'[g] = "idle" /\ ret'[g] = Done(1, FALSE)
         /\ elem' = [elem EXCEPT ![g] = Zero] /\ empty(Ch(g))
  BY <1>0 DEF sendClosed, sendFull, sendFullFirst, sendClosedLast, recvEmpty, recvClosed,
     recvRecheck, Goto, Return, Early, wakeVars
<1>4. CASE pc'[g] \in Early /\ UNCHANGED <<ret, elem>>
  <2>1. Others({})
    BY <1>1, <1>2, <1>4, SoloHidden
  <2>. QED
    BY <1>1, <1>2, <1>4, <2>1, MapStutter DEF Maps
<1>5. CASE pc'[g] = "idle" /\ ret'[g] = NotDone /\ UNCHANGED elem
  <2>1. ~Effective(g) /\ Others({g}) /\ Finishes(g, NotDone)
    BY <1>2, <1>5, SoloFinishes
  <2>. QED
    BY <1>1, <1>2, <1>5, <2>1, MapDefault DEF Maps
<1>6. CASE /\ pc[g] = "recvRecheck" /\ pc'[g] = "idle" /\ ret'[g] = Done(1, FALSE)
           /\ elem' = [elem EXCEPT ![g] = Zero] /\ empty(Ch(g))
  <2>1. Others({g}) /\ Finishes(g, Done(1, FALSE))
    BY <1>2, <1>6, SoloFinishes
  <2>2. Ch(g) \in Channel /\ closed[Ch(g)] /\ CaseDir(g, 1) = "recv"
    BY <1>0, <1>6 DEF CallFits, IInv, OpInv, OpFits, ChanPC, FastRecv
  <2>3. AtCase(g, 1, Ch(g), "recv")
    BY <1>2, <2>2, OneCase, EarlyCase DEF Ch
  <2>4. Contents(Ch(g)) = <<>>
    <3>1. qcount[Ch(g)] = 0
      BY <1>6, <2>2, BufTypes DEF empty
    <3>. QED
      BY <2>2, <3>1, EmptyContents
  <2>. QED
    BY <1>1, <1>2, <1>6, <2>1, <2>2, <2>3, <2>4, MapRecvClosed DEF Maps
<1>. QED
  BY <1>3, <1>4, <1>5, <1>6

\* The buffer.
LEMMA MapsBuffer ==
  ASSUME IInv, SInv, LInv, NEW g \in G, Solo(g), PushStep(g) \/ PopStep(g)
  PROVE  Maps
<1>0. pc \in [G -> PC] /\ DOMAIN ret = G
  BY DEF IInv, TypeOK, RunOK
<1>1. CASE PushStep(g)
  <2>1. PICK k \in DOMAIN op[g].cases, c \in Channel :
           /\ CaseChan(g, k) = c /\ CaseDir(g, k) = "send" /\ k \in Nat
           /\ ~closed[c] /\ qcount[c] < dataqsiz[c] /\ bufsend(g, k, c)
           /\ pc[g] \in {"lock", "sellock"} /\ op[g].kind \in {"chan", "select"}
           /\ pc' = [pc EXCEPT ![g] = "idle"] /\ ret' = [ret EXCEPT ![g] = Done(k, TRUE)]
           /\ UNCHANGED <<closed, op, calls>>
    BY <1>1, PushFacts
  <2>2. pc[g] \in Early /\ pc'[g] = "idle" /\ ret'[g] = Done(k, TRUE) /\ UNCHANGED elem
    BY <1>0, <2>1 DEF Early, bufsend
  <2>3. AtCase(g, k, c, "send") /\ Others({g}) /\ Finishes(g, Done(k, TRUE))
    BY <2>1, <2>2, EarlyCase, SoloFinishes
  <2>4. /\ Contents(c)' = Append(Contents(c), Val(g, k))
        /\ \A d \in Channel \ {c} : Contents(d)' = Contents(d)
    BY <2>1, PushBuffer
  <2>5. Len(Contents(c)) < dataqsiz[c]
    BY <2>1, EmptyContents, BufTypes
  <2>. QED
    BY <2>1, <2>2, <2>3, <2>4, <2>5, MapSend DEF Maps
<1>2. CASE PopStep(g)
  <2>1. PICK k \in DOMAIN op[g].cases, c \in Channel :
           /\ CaseChan(g, k) = c /\ CaseDir(g, k) = "recv" /\ k \in Nat
           /\ qcount[c] > 0 /\ bufrecv(g, c)
           /\ pc[g] \in {"lock", "sellock"} /\ op[g].kind \in {"chan", "select"}
           /\ pc' = [pc EXCEPT ![g] = "idle"] /\ ret' = [ret EXCEPT ![g] = Done(k, TRUE)]
           /\ UNCHANGED <<closed, op, calls>>
    BY <1>2, PopFacts
  <2>2. pc[g] \in Early /\ pc'[g] = "idle" /\ ret'[g] = Done(k, TRUE)
    BY <1>0, <2>1 DEF Early
  <2>3. AtCase(g, k, c, "recv") /\ Others({g}) /\ Finishes(g, Done(k, TRUE))
    BY <2>1, <2>2, EarlyCase, SoloFinishes
  <2>4. /\ Contents(c) # <<>> /\ elem' = [elem EXCEPT ![g] = Head(Contents(c))]
        /\ Contents(c)' = Tail(Contents(c))
        /\ \A d \in Channel \ {c} : Contents(d)' = Contents(d)
    BY <2>1, PopBuffer
  <2>. QED
    BY <2>1, <2>2, <2>3, <2>4, MapRecv DEF Maps
<1>. QED
  BY <1>1, <1>2

\* A closed channel, a closed nil channel, and giving up.
LEMMA MapsReturn ==
  ASSUME IInv, SInv, LInv, NEW g \in G, Solo(g), pc[g] \in Early, pc'[g] = "idle",
         UNCHANGED <<bufVars, closed, op, calls>>,
         \/ /\ ret'[g] = NotDone /\ op[g].kind \in {"chan", "select"} /\ ~op[g].block
            /\ UNCHANGED elem
         \/ \E k \in DOMAIN op[g].cases :
              /\ op[g].kind \in {"chan", "select"} /\ CaseChan(g, k) \in Channel
              /\ closed[CaseChan(g, k)]
              /\ \/ CaseDir(g, k) = "send" /\ ret'[g] = Panic(k) /\ UNCHANGED elem
                 \/ /\ CaseDir(g, k) = "recv" /\ qcount[CaseChan(g, k)] = 0
                    /\ ret'[g] = Done(k, FALSE) /\ elem' = [elem EXCEPT ![g] = Zero]
  PROVE  Maps
<1>0. ~Effective(g) /\ Others({g}) /\ Finishes(g, ret'[g]) /\ SameContents
  BY SoloFinishes, KeepContents
<1>1. CASE /\ ret'[g] = NotDone /\ op[g].kind \in {"chan", "select"} /\ ~op[g].block
           /\ UNCHANGED elem
  BY <1>0, <1>1, MapDefault DEF Maps
<1>2. ASSUME NEW k \in DOMAIN op[g].cases, op[g].kind \in {"chan", "select"},
             CaseChan(g, k) \in Channel, closed[CaseChan(g, k)],
             CaseDir(g, k) = "send", ret'[g] = Panic(k), UNCHANGED elem
      PROVE  Maps
  <2>1. AtCase(g, k, CaseChan(g, k), "send")
    BY <1>2, EarlyCase
  <2>. QED
    BY <1>0, <1>2, <2>1, MapSendClosed DEF Maps
<1>3. ASSUME NEW k \in DOMAIN op[g].cases, op[g].kind \in {"chan", "select"},
             CaseChan(g, k) \in Channel, closed[CaseChan(g, k)],
             CaseDir(g, k) = "recv", qcount[CaseChan(g, k)] = 0,
             ret'[g] = Done(k, FALSE), elem' = [elem EXCEPT ![g] = Zero]
      PROVE  Maps
  <2>1. AtCase(g, k, CaseChan(g, k), "recv") /\ Contents(CaseChan(g, k)) = <<>>
    BY <1>3, EarlyCase, EmptyContents
  <2>. QED
    BY <1>0, <1>3, <2>1, MapRecvClosed DEF Maps
<1>. QED
  BY <1>1, <1>2, <1>3

LEMMA MapsSame ==
  ASSUME UNCHANGED <<bufVars, closed, calls, elem, pc, op, ret, wake, param, success>>
  PROVE  Maps
<1>1. ASSUME NEW h \in G PROVE UNCHANGED <<Cur(h), AbstractRes(h)>>
  <2>1. Taken(h)' = Taken(h) /\ Waker(h)' = Waker(h) /\ TakenAs(h)' = TakenAs(h)
    BY DEF Taken, Waker, TakenAs
  <2>2. \A i, ok : Outcome(h, i, ok)' = Outcome(h, i, ok)
    BY DEF Outcome, CaseDir
  <2>. QED
    BY <2>1, <2>2 DEF Cur, Effective, AbstractRes
<1>2. Others({})
  BY <1>1 DEF Others
<1>. QED
  BY <1>2, KeepContents, MapStutter DEF Maps

\* The critical sections of a send or a receive that takes nobody.
LEMMA MapsChan ==
  ASSUME IInv, SInv, LInv, NEW g \in G, Solo(g),
         \/ chansendClosed(g) \/ chansendFail(g) \/ chansendBlock(g)
         \/ chanrecvClosed(g) \/ chanrecvFail(g) \/ chanrecvBlock(g)
  PROVE  Maps
<1>0. pc \in [G -> PC] /\ DOMAIN ret = G
  BY DEF IInv, TypeOK, RunOK
<1>1. /\ pc[g] = "lock" /\ op[g].kind = "chan" /\ UNCHANGED <<bufVars, closed, op, calls>>
  BY DEF chansendClosed, chansendFail, chansendBlock, chanrecvClosed, chanrecvFail, chanrecvBlock,
     Enter, bufVars
<1>2. /\ pc[g] \in Early /\ 1 \in DOMAIN op[g].cases /\ Ch(g) = CaseChan(g, 1) /\ Ch(g) \in Channel
  BY <1>1, OneCase DEF Early, Ch, IInv, OpInv, OpFits, ChanPC
<1>3. CASE chansendClosed(g) \/ chansendFail(g) \/ chanrecvClosed(g) \/ chanrecvFail(g)
  <2>1. pc'[g] = "idle"
    BY <1>0, <1>3 DEF chansendClosed, chansendFail, chanrecvClosed, chanrecvFail, Return, Goto
  <2>2. \/ ret'[g] = NotDone /\ ~op[g].block /\ UNCHANGED elem
        \/ /\ closed[CaseChan(g, 1)]
           /\ \/ CaseDir(g, 1) = "send" /\ ret'[g] = Panic(1) /\ UNCHANGED elem
              \/ /\ CaseDir(g, 1) = "recv" /\ qcount[CaseChan(g, 1)] = 0
                 /\ ret'[g] = Done(1, FALSE) /\ elem' = [elem EXCEPT ![g] = Zero]
    BY <1>0, <1>2, <1>3 DEF chansendClosed, chansendFail, chanrecvClosed, chanrecvFail, Return, Enter
  <2>. QED
    BY <1>1, <1>2, <2>1, <2>2, MapsReturn
<1>4. CASE chansendBlock(g) \/ chanrecvBlock(g)
  <2>1. pc'[g] = "park" /\ UNCHANGED <<ret, elem>>
    BY <1>0, <1>4 DEF chansendBlock, chanrecvBlock, Goto
  <2>2. Others({})
    BY <1>1, <1>2, <2>1, SoloHidden
  <2>. QED
    BY <1>1, <2>1, <2>2, KeepContents, MapStutter DEF Maps
<1>. QED
  BY <1>3, <1>4

\* The end of a send or a receive that was woken.
LEMMA MapsWoken ==
  ASSUME IInv, SInv, LInv, NEW g \in G, Solo(g), chansendWoken(g) \/ chanrecvWoken(g)
  PROVE  Maps
<1>0. pc \in [G -> PC] /\ DOMAIN ret = G /\ success \in [G -> BOOLEAN] /\ Woken(g) /\ CallFits(g)
  BY DEF IInv, TypeOK, RunOK, WakeOK, SInv, GInv, LInv
<1>1. pc[g] = "woken" /\ op[g].kind = "chan" /\ UNCHANGED <<bufVars, closed, calls, elem>>
  BY DEF chansendWoken, chanrecvWoken, chanVars, bufVars
<1>2. param[g] = 1
  <2>1. ~IsSelect(g) /\ param[g] \in DOMAIN op[g].cases
    BY <1>0, <1>1 DEF CallFits, IsSelect
  <2>. QED
    BY <2>1, SingleCase DEF IInv
<1>3. pc'[g] = "idle" /\ ret'[g] = Outcome(g, param[g], success[g])
  <2>1. CASE chansendWoken(g)
    <3>1. success[g] \/ closed[Ch(g)]
      BY <1>0, <1>1 DEF Woken, IsSelect
    <3>. QED
      BY <1>0, <1>2, <2>1, <3>1 DEF chansendWoken, Return, Goto, Outcome
  <2>2. CASE chanrecvWoken(g)
    BY <1>0, <1>2, <2>2 DEF chanrecvWoken, Return, Goto, Outcome
  <2>. QED
    BY <2>1, <2>2
<1>4. Others({})
  BY <1>1, <1>3, SoloLearns
<1>. QED
  BY <1>1, <1>4, KeepContents, MapStutter DEF Maps

\* close, up to its effect and after the last waiter.
LEMMA MapsClose ==
  ASSUME IInv, SInv, LInv, NEW g \in G, Solo(g),
         closechanClosed(g) \/ closechan(g) \/ closechanUnlock(g) \/ nilchan(g)
  PROVE  Maps
<1>0. pc \in [G -> PC] /\ DOMAIN ret = G /\ CallFits(g)
  BY DEF IInv, TypeOK, RunOK, LInv
<1>1. UNCHANGED <<bufVars, op, calls, elem>>
  BY DEF closechanClosed, closechan, closechanUnlock, nilchan, chanVars, bufVars, wakeVars
<1>2. CASE closechanClosed(g) \/ closechan(g)
  <2>1. pc[g] = "lock" /\ op[g].kind = "close"
    BY <1>2 DEF closechanClosed, closechan
  <2>2. pc[g] \in Early /\ Ch(g) \in Channel /\ op[g].cases[1].c = Ch(g) /\ Ch(g) # Nil
    BY <2>1, ChannelAssumption DEF Early, IInv, OpInv, OpFits, ChanPC, Ch, CaseChan
  <2>3. \/ /\ closed[Ch(g)] /\ pc'[g] = "idle" /\ ret'[g] = Panic(1) /\ UNCHANGED closed
        \/ /\ ~closed[Ch(g)] /\ pc'[g] = "closing" /\ ret'[g] = Done(1, TRUE)
           /\ closed' = [closed EXCEPT ![Ch(g)] = TRUE]
    BY <1>0, <1>2 DEF closechanClosed, closechan, Return, Goto, chanVars
  <2>4. ~Effective(g) /\ Others({g}) /\ Finishes(g, ret'[g])
    BY <2>2, <2>3, SoloFinishes
  <2>. QED
    BY <1>1, <2>1, <2>2, <2>3, <2>4, KeepContents, MapClose DEF Maps
<1>3. CASE closechanUnlock(g)
  <2>1. pc[g] = "closing" /\ pc'[g] \in {"idle", "ready"} /\ UNCHANGED <<closed, ret>>
    BY <1>0, <1>3 DEF closechanUnlock, Goto
  <2>2. Others({})
    BY <1>1, <2>1, SoloHidden
  <2>. QED
    BY <1>1, <2>1, <2>2, KeepContents, MapStutter DEF Maps
<1>4. CASE nilchan(g)
  <2>1. /\ pc[g] = "nil" /\ pc'[g] = "idle" /\ UNCHANGED closed
        /\ \/ op[g].kind = "close" /\ ret'[g] = Panic(1)
           \/ op[g].kind = "chan" /\ ~op[g].block /\ ret'[g] = NotDone
    BY <1>0, <1>4 DEF nilchan, Return, Goto, chanVars
  <2>2. pc[g] \in Early /\ op[g].cases[1].c = Nil
    BY <1>0, <2>1 DEF Early, CallFits, Ch, CaseChan
  <2>3. ~Effective(g) /\ Others({g}) /\ Finishes(g, ret'[g])
    BY <2>1, <2>2, SoloFinishes
  <2>4. CASE op[g].kind = "close" /\ ret'[g] = Panic(1)
    BY <1>1, <2>1, <2>2, <2>3, <2>4, KeepContents, MapClose DEF Maps
  <2>5. CASE op[g].kind = "chan" /\ ~op[g].block /\ ret'[g] = NotDone
    BY <1>1, <2>1, <2>2, <2>5, MapsReturn
  <2>. QED
    BY <2>1, <2>4, <2>5
<1>. QED
  BY <1>2, <1>3, <1>4

\* Pass 1 of a select, unless it takes somebody or uses the buffer.
LEMMA MapsPass1 ==
  ASSUME IInv, SInv, LInv, NEW g \in G, Solo(g),
         \/ \E i \in DOMAIN op[g].cases :
              selectRclose(g, i) \/ selectSclose(g, i) \/ selectNext(g, i)
         \/ selectDefault(g) \/ selectBlock(g)
  PROVE  Maps
<1>0. pc \in [G -> PC] /\ DOMAIN ret = G
  BY DEF IInv, TypeOK, RunOK
<1>1. ASSUME NEW i \in DOMAIN op[g].cases, selectRclose(g, i) \/ selectSclose(g, i)
      PROVE  Maps
  <2>. DEFINE dir == CaseDir(g, i)
  <2>1. Poll(g, i, dir) /\ dir \in Dir
    BY <1>1 DEF selectRclose, selectSclose, Poll, Dir
  <2>2. CaseChan(g, i) \in Channel /\ pc[g] = "sellock" /\ op[g].kind = "select"
    BY <2>1, PollLocked DEF IsSelect
  <2>3. UNCHANGED <<bufVars, closed, op, calls>> /\ pc'[g] = "idle" /\ pc[g] \in Early
    BY <1>0, <1>1, <2>2 DEF selectRclose, selectSclose, Poll, Return, Goto, bufVars, Early
  <2>4. /\ closed[CaseChan(g, i)]
        /\ \/ CaseDir(g, i) = "send" /\ ret'[g] = Panic(i) /\ UNCHANGED elem
           \/ /\ CaseDir(g, i) = "recv" /\ qcount[CaseChan(g, i)] = 0
              /\ ret'[g] = Done(i, FALSE) /\ elem' = [elem EXCEPT ![g] = Zero]
    BY <1>0, <1>1 DEF selectRclose, selectSclose, Poll, Return
  <2>. QED
    BY <2>2, <2>3, <2>4, MapsReturn
<1>2. ASSUME NEW i \in DOMAIN op[g].cases, selectNext(g, i)
      PROVE  Maps
  <2>1. UNCHANGED <<bufVars, closed, calls, elem, pc, op, ret, wake, param, success>>
    BY <1>2 DEF selectNext, Poll, bufVars
  <2>. QED
    BY <2>1, MapsSame
<1>3. CASE selectDefault(g)
  <2>1. /\ pc[g] = "sellock" /\ ~op[g].block /\ pc'[g] = "idle" /\ ret'[g] = NotDone
        /\ UNCHANGED <<bufVars, closed, op, calls, elem>>
    BY <1>0, <1>3 DEF selectDefault, NoCase, Return, Goto, bufVars, wakeVars
  <2>2. pc[g] \in Early /\ op[g].kind = "select"
    BY <2>1 DEF Early, IInv, OpInv, OpFits, IsSelect
  <2>. QED
    BY <2>1, <2>2, MapsReturn
<1>4. CASE selectBlock(g)
  <2>1. /\ pc[g] = "sellock" /\ pc'[g] = "pass2"
        /\ UNCHANGED <<bufVars, closed, op, calls, elem, ret>>
    BY <1>0, <1>4 DEF selectBlock, NoCase, Goto, chanVars, bufVars, wakeVars
  <2>2. Others({})
    BY <2>1, SoloHidden DEF Early
  <2>. QED
    BY <2>1, <2>2, KeepContents, MapStutter DEF Maps
<1>. QED
  BY <1>1, <1>2, <1>3, <1>4

\* The rest of a select.
LEMMA MapsSelect ==
  ASSUME IInv, SInv, LInv, NEW g \in G, Solo(g),
         \/ sellock(g) \/ selectEnqueue(g) \/ selectPark(g) \/ selparkcommit(g) \/ selectWoken(g)
         \/ selectRelocked(g) \/ selectDequeue(g) \/ selectFinish(g)
  PROVE  Maps
<1>0. /\ pc \in [G -> PC] /\ DOMAIN ret = G /\ success \in [G -> BOOLEAN] /\ Woken(g)
      /\ op[g].cases \in Seq(Case)
  BY OpType DEF IInv, TypeOK, RunOK, WakeOK, SInv, GInv
<1>1. CASE sellock(g) \/ selectEnqueue(g) \/ selparkcommit(g) \/ selectDequeue(g)
  <2>1. UNCHANGED <<bufVars, closed, calls, elem, pc, op, ret, wake, param, success>>
    BY <1>1 DEF sellock, selectEnqueue, selparkcommit, selectDequeue, bufVars, wakeVars
  <2>. QED
    BY <2>1, MapsSame
<1>2. CASE selectPark(g)
  <2>1. /\ pc[g] = "pass2" /\ pc'[g] = "park"
        /\ UNCHANGED <<bufVars, closed, op, calls, elem, ret>>
    BY <1>0, <1>2 DEF selectPark, Goto, chanVars, bufVars
  <2>2. Others({})
    BY <2>1, SoloHidden DEF Early
  <2>. QED
    BY <2>1, <2>2, KeepContents, MapStutter DEF Maps
<1>3. CASE selectWoken(g) \/ selectRelocked(g)
  <2>1. /\ pc[g] \in {"woken", "relock"} /\ pc'[g] \in {"relock", "pass3"}
        /\ UNCHANGED <<bufVars, closed, op, calls, elem, param, success>>
    BY <1>0, <1>3 DEF selectWoken, selectRelocked, Goto, chanVars, bufVars, wakeVars
  <2>2. Others({})
    BY <2>1, SoloLearns
  <2>. QED
    BY <2>1, <2>2, KeepContents, MapStutter DEF Maps
<1>4. CASE selectFinish(g)
  <2>1. pc[g] = "pass3" /\ UNCHANGED <<bufVars, closed, op, calls, elem>>
    BY <1>4 DEF selectFinish, bufVars
  <2>2. param[g] # 0
    <3>1. IsSelect(g)
      BY <2>1 DEF IInv, OpInv, OpFits
    <3>2. param[g] \in DOMAIN op[g].cases
      BY <1>0, <2>1, <3>1 DEF Woken
    <3>. QED
      BY <1>0, <3>2
  <2>3. pc'[g] = "idle" /\ ret'[g] = Outcome(g, param[g], success[g])
    BY <1>0, <1>4, <2>2 DEF selectFinish, Return, Goto, Outcome
  <2>4. Others({})
    BY <2>1, <2>3, SoloLearns
  <2>. QED
    BY <2>1, <2>4, KeepContents, MapStutter DEF Maps
<1>. QED
  BY <1>1, <1>2, <1>3, <1>4

\* A send and a receive meet: the sender finds the receiver waiting ...
LEMMA MapsSendTake ==
  ASSUME IInv, SInv, LInv, SInv', NEW g \in G, NEW k \in DOMAIN op[g].cases,
         (k = 1 /\ chansendDirect(g)) \/ selectSend(g, k)
  PROVE  Maps
<1>0. DOMAIN ret = G
  BY DEF IInv, TypeOK, RunOK
<1>c. PICK c \in Channel : c = CaseChan(g, k)
  BY SendStep
<1>1. /\ c = CaseChan(g, k) /\ CaseDir(g, k) = "send" /\ k \in Nat /\ lock[c] \in {NoG, g}
      /\ pc[g] \in {"lock", "sellock"} /\ op[g].kind \in {"chan", "select"}
      /\ ~closed[c] /\ Live(recvq[c]) # {} /\ send(g, k, c)
      /\ pc' = [pc EXCEPT ![g] = "ready"] /\ ret' = [ret EXCEPT ![g] = Done(k, TRUE)]
      /\ UNCHANGED <<op, calls, closed, param, success>>
  BY <1>c, SendStep
<1>2. op[g].kind # "close" /\ pc[g] \in Early /\ "recv" \in Dir
  BY <1>1 DEF Early, Dir
<1>3. PICK y \in G, i \in Nat :
        /\ TakesOne(g, c, "recv", y, i) /\ elem' = [elem EXCEPT ![y] = Val(g, k)]
        /\ UNCHANGED bufVars
  BY <1>1, <1>2, SendTakes
<1>4. /\ y # g /\ AtCase(y, i, c, "recv") /\ Finishes(y, Outcome(y, i, op[g].kind # "close"))
      /\ Others({g, y}) /\ Finishes(g, ret'[g])
  BY <1>1, <1>2, <1>3, TakeSeen
<1>5. CaseDir(y, i) = "recv" /\ ret'[g] = Done(k, TRUE)
  BY <1>0, <1>1, <1>4 DEF AtCase, CaseDir
<1>6. Finishes(y, Done(i, TRUE)) /\ Finishes(g, Done(k, TRUE))
  BY <1>2, <1>4, <1>5 DEF Outcome
<1>7. AtCase(g, k, c, "send")
  BY <1>1, <1>2, EarlyCase
<1>8. Contents(c) = <<>>
  <2>1. recvq[c] # <<>>
    BY <1>1 DEF Live
  <2>2. qcount[c] = 0
    BY <1>1, <2>1 DEF LInv, BufFits
  <2>. QED
    BY <1>1, <2>2, EmptyContents
<1>9. Head(Append(Contents(c), Val(g, k))) = Val(g, k) /\ Tail(Append(Contents(c), Val(g, k))) = <<>>
  BY <1>8
<1>10. SameContents
  BY <1>3, KeepContents
<1>11. /\ Contents(c)' = Tail(Append(Contents(c), Val(g, k)))
       /\ \A d \in Channel \ {c} : Contents(d)' = Contents(d)
  BY <1>1, <1>8, <1>9, <1>10 DEF SameContents
<1>12. elem' = [elem EXCEPT ![y] = Head(Append(Contents(c), Val(g, k)))]
  BY <1>3, <1>9
<1>13. /\ c \in Channel /\ g # y /\ AtCase(g, k, c, "send") /\ AtCase(y, i, c, "recv")
       /\ ~closed[c] /\ Others({g, y}) /\ UNCHANGED <<closed, calls>>
  BY <1>1, <1>4, <1>7
<1>14. A!ANext
  BY <1>6, <1>11, <1>12, <1>13, MapMeet
<1>. QED
  BY <1>14 DEF Maps

\* ... or the receiver the sender.
LEMMA MapsRecvTake ==
  ASSUME IInv, SInv, LInv, SInv', NEW g \in G, NEW k \in DOMAIN op[g].cases,
         (k = 1 /\ chanrecvDirect(g)) \/ selectRecv(g, k)
  PROVE  Maps
<1>0. DOMAIN ret = G
  BY DEF IInv, TypeOK, RunOK
<1>c. PICK c \in Channel : c = CaseChan(g, k)
  BY RecvStep
<1>1. /\ CaseDir(g, k) = "recv"
      /\ pc[g] \in {"lock", "sellock"} /\ op[g].kind \in {"chan", "select"} /\ ~closed[c]
      /\ ret' = [ret EXCEPT ![g] = Done(k, TRUE)] /\ UNCHANGED <<calls, closed>>
      /\ c = CaseChan(g, k)
  BY <1>c, RecvStep
<1>2. PICK y \in G, i \in Nat :
        /\ TakesOne(g, c, "send", y, i)
        /\ elem' = [elem EXCEPT ![g] = Head(Append(Contents(c), Val(y, i)))]
        /\ Contents(c)' = Tail(Append(Contents(c), Val(y, i)))
        /\ \A d \in Channel \ {c} : Contents(d)' = Contents(d)
  BY <1>1, SwapTakes
<1>3. op[g].kind # "close" /\ pc[g] \in Early /\ "send" \in Dir
  BY <1>1 DEF Early, Dir
<1>4. /\ y # g /\ AtCase(y, i, c, "send") /\ Finishes(y, Outcome(y, i, op[g].kind # "close"))
      /\ Others({g, y}) /\ Finishes(g, ret'[g])
  BY <1>1, <1>2, <1>3, TakeSeen
<1>5. Finishes(y, Done(i, TRUE)) /\ Finishes(g, Done(k, TRUE))
  BY <1>0, <1>1, <1>3, <1>4 DEF Outcome
<1>6. AtCase(g, k, c, "recv")
  BY <1>1, <1>3, EarlyCase
<1>7. Others({y, g})
  BY <1>4 DEF Others
<1>8. /\ c \in Channel /\ y # g /\ AtCase(y, i, c, "send") /\ AtCase(g, k, c, "recv")
      /\ ~closed[c] /\ UNCHANGED <<closed, calls>>
  BY <1>1, <1>4, <1>6
<1>9. A!ANext
  BY <1>2, <1>5, <1>7, <1>8, MapMeet
<1>. QED
  BY <1>9 DEF Maps

\* close releases a waiter.
LEMMA MapsCloseTake ==
  ASSUME IInv, SInv, LInv, SInv', NEW g \in G, closechanRecvq(g) \/ closechanSendq(g)
  PROVE  Maps
<1>c. PICK c \in Channel : c = Ch(g)
  BY CloseTakes
<1>1. /\ c = Ch(g) /\ closed[c] /\ UNCHANGED <<bufVars, ret, closed, calls>>
      /\ op[g].kind = "close"
  BY <1>c, CloseTakes DEF closechanRecvq, closechanSendq, SInv, Keeps
<1>2. "recv" \in Dir /\ "send" \in Dir /\ SameContents
  BY <1>1, KeepContents DEF Dir
<1>3. PICK y \in G, i \in Nat :
        \/ /\ TakesOne(g, c, "recv", y, i) /\ elem' = [elem EXCEPT ![y] = Zero]
           /\ recvq[c] # <<>>
        \/ TakesOne(g, c, "send", y, i) /\ UNCHANGED elem
  BY <1>c, CloseTakes
<1>4. CASE /\ TakesOne(g, c, "recv", y, i) /\ elem' = [elem EXCEPT ![y] = Zero]
           /\ recvq[c] # <<>>
  <2>1. /\ AtCase(y, i, c, "recv") /\ Finishes(y, Outcome(y, i, op[g].kind # "close"))
        /\ Others({y})
    BY <1>1, <1>2, <1>4, TakeSeen
  <2>2. CaseDir(y, i) = "recv" /\ (op[g].kind # "close") = FALSE
    BY <1>1, <2>1 DEF AtCase, CaseDir
  <2>3. Finishes(y, Done(i, FALSE))
    BY <2>1, <2>2 DEF Outcome
  <2>4. Contents(c) = <<>>
    BY <1>1, <1>4, EmptyContents DEF LInv, BufFits
  <2>. QED
    BY <1>1, <1>2, <1>4, <2>1, <2>3, <2>4, MapRecvClosed DEF Maps
<1>5. CASE TakesOne(g, c, "send", y, i) /\ UNCHANGED elem
  <2>1. /\ AtCase(y, i, c, "send") /\ Finishes(y, Outcome(y, i, op[g].kind # "close"))
        /\ Others({y})
    BY <1>1, <1>2, <1>5, TakeSeen
  <2>2. CaseDir(y, i) = "send" /\ (op[g].kind # "close") = FALSE
    BY <1>1, <2>1 DEF AtCase, CaseDir
  <2>3. Finishes(y, Panic(i))
    BY <2>1, <2>2 DEF Outcome
  <2>. QED
    BY <1>1, <1>2, <1>5, <2>1, <2>3, MapSendClosed DEF Maps
<1>. QED
  BY <1>3, <1>4, <1>5

LEMMA MapsTake ==
  ASSUME IInv, SInv, LInv, SInv', NEW g \in G, TakeStepOf(g)
  PROVE  Maps
<1>1. chansendDirect(g) \/ chanrecvDirect(g) => 1 \in DOMAIN op[g].cases
  BY OneCase DEF chansendDirect, chanrecvDirect, Enter
<1>2. chansendDirect(g) => Maps
  BY <1>1, MapsSendTake
<1>3. chanrecvDirect(g) => Maps
  BY <1>1, MapsRecvTake
<1>4. ASSUME NEW i \in DOMAIN op[g].cases, selectSend(g, i) \/ selectRecv(g, i) PROVE Maps
  BY <1>4, MapsSendTake, MapsRecvTake
<1>. QED
  BY <1>2, <1>3, <1>4, MapsCloseTake DEF TakeStepOf

LEMMA StepMaps ==
  ASSUME IInv, SInv, LInv, SInv', NEW g \in G, CallStep(g) \/ Run(g)
  PROVE  Maps
<1>1. CASE TakeStepOf(g)
  BY <1>1, MapsTake
<1>2. CASE goready(g)
  BY <1>2, ReadySeen, MapStutter DEF Maps
<1>3. CASE Solo(g) /\ ~TakeStepOf(g) /\ ~goready(g)
  <2>1. CallStep(g) \/ nilchan(g) => Maps
    BY <1>3, MapsCall, MapsClose
  <2>2. Chansend(g) => Maps
    BY <1>3, MapsFast, MapsBuffer, MapsChan, MapsWoken DEF Chansend, PushStep, TakeStepOf
  <2>3. Chanrecv(g) => Maps
    BY <1>3, MapsFast, MapsBuffer, MapsChan, MapsWoken DEF Chanrecv, PopStep, TakeStepOf
  <2>4. Closechan(g) => Maps
    BY <1>3, MapsClose DEF Closechan, TakeStepOf
  <2>5. SelectPass1(g) => Maps
    BY <1>3, MapsBuffer, MapsPass1 DEF SelectPass1, PushStep, PopStep, TakeStepOf
  <2>6. Selectgo(g) => Maps
    BY <1>3, <2>5, MapsSelect DEF Selectgo
  <2>. QED
    BY <1>3, <2>1, <2>2, <2>3, <2>4, <2>6 DEF Run
<1>. QED
  BY <1>1, <1>2, <1>3, StepKinds

\* LInv is an invariant of the specification, next to those of the waiters.
THEOREM LinearInvariant == Spec => [](IInv /\ SInv /\ LInv)
<1>1. Init => IInv /\ SInv /\ LInv
  BY IInvInit, SInvInit, LInvInit
<1>2. IInv /\ SInv /\ LInv /\ [Next]_vars => (IInv /\ SInv /\ LInv)'
  BY IInvNext, SInvNext, LInvNext
<1>. QED
  BY <1>1, <1>2, PTL DEF Spec

\* The channels of the runtime implement atomic bounded FIFO queues that can be
\* closed: whatever the interleaving of lock-free loads, critical sections, parks
\* and wake-ups, each operation takes effect in one step between its call and its
\* return, and returns what it would have returned if it had run there alone.
THEOREM LinearizableCorrect == Spec => Linearizable
<1>1. Init => A!AInit
  <2>. SUFFICES ASSUME Init PROVE A!AInit
    OBVIOUS
  <2>1. /\ closed = [c \in Channel |-> FALSE] /\ calls = [g \in G |-> 0]
        /\ elem = [g \in G |-> Zero]
        /\ \A c \in Channel : qcount[c] = 0
        /\ \A g \in G : pc[g] = "idle" /\ ret[g] = NoRet /\ wake[g] = {}
    BY DEF Init
  <2>2. \A c \in Channel : Contents(c) = <<>>
    BY <2>1 DEF Contents
  <2>3. ASSUME NEW g \in G PROVE Effective(g) /\ AbstractRes(g) = NoRet
    <3>1. ~Taken(g)
      BY <2>1 DEF Taken
    <3>. QED
      BY <2>1, <3>1 DEF Effective, AbstractRes
  <2>. QED
    BY <2>1, <2>2, <2>3 DEF A!AInit, A!NoOp, NoOp, A!NoRet, NoRet, A!Zero, Zero
<1>2. IInv /\ SInv /\ LInv /\ [Next]_vars => [A!ANext]_(A!avars)
  <2>. SUFFICES ASSUME IInv, SInv, LInv, [Next]_vars PROVE Maps
    BY DEF Maps
  <2>1. SInv'
    BY SInvNext
  <2>2. CASE UNCHANGED vars
    <3>1. UNCHANGED <<bufVars, closed, calls, elem, pc, op, ret, wake, param, success>>
      BY <2>2 DEF vars, chanVars, bufVars, wakeVars
    <3>. QED
      BY <3>1, MapsSame
  <2>. QED
    BY <2>1, <2>2, NextSteps, StepMaps
<1>. QED
  BY <1>1, <1>2, LinearInvariant, PTL DEF Spec, Linearizable, A!ASpec

-----------------------------------------------------------------------------
(* Giving up: the moment when no case was ready.                           *)

\* What the call of g will need when it gives up.  As long as no case of it is ready
\* this has been recorded; and a fast path has left behind such a moment, for a
\* buffered send and for a receive, where it has one load yet to do.
Justified(g) ==
  /\ pc[g] # "idle" => ret[g] # NotDone
  /\ pc[g] # "idle" /\ NotReady(g) => busy[g]
  /\ pc[g] = "sendFull" /\ dataqsiz[Ch(g)] > 0 /\ closed[Ch(g)]
       /\ qcount[Ch(g)] = dataqsiz[Ch(g)] => busy[g]
  /\ pc[g] = "sendClosedLast" /\ dataqsiz[Ch(g)] > 0 /\ ~closed[Ch(g)] => busy[g]
  /\ pc[g] = "recvClosed" /\ ~closed[Ch(g)] => busy[g]

NInv == \A g \in G : Justified(g)

\* The steps in which g gives up.
GivesUp(g) ==
  \/ sendFull(g) /\ full(Ch(g))
  \/ (sendClosedLast(g) \/ recvClosed(g)) /\ ~closed[Ch(g)]
  \/ chansendFail(g) \/ chanrecvFail(g) \/ selectDefault(g)
  \/ nilchan(g) /\ op[g].kind = "chan"

LEMMA ResultsDiffer ==
  \A i, ok : Done(i, ok) # NotDone /\ Panic(i) # NotDone /\ NoRet # NotDone
BY DEF Done, Panic, NoRet, NotDone

\* What the history variable records.
LEMMA BusyNext ==
  ASSUME busy' = [g \in G |-> Record(g)], NEW g \in G
  PROVE  /\ calls'[g] # calls[g] /\ NotReady(g)' => busy'[g]
         /\ calls'[g] = calls[g] /\ busy[g] => busy'[g]
         /\ calls'[g] = calls[g] /\ pc[g] # "idle" /\ NotReady(g)' => busy'[g]
BY DEF Record

\* An operation on one channel that is open and not ready.
LEMMA OneNotReady ==
  ASSUME IInv, NEW g \in G, op[g].kind = "chan",
         Ch(g) # Nil => /\ ~closed[Ch(g)]
                        /\ CaseDir(g, 1) = "send" => /\ qcount[Ch(g)] = dataqsiz[Ch(g)]
                                                     /\ Live(recvq[Ch(g)]) = {}
                        /\ CaseDir(g, 1) = "recv" => qcount[Ch(g)] = 0 /\ Live(sendq[Ch(g)]) = {}
  PROVE  NotReady(g)
<1>1. \A i \in DOMAIN op[g].cases : i = 1
  BY SingleCase DEF IInv, IsSelect
<1>2. NotReadyCase(g, 1)
  BY DEF NotReadyCase, Ch
<1>. QED
  BY <1>1, <1>2 DEF NotReady

\* A buffered channel that is open and full is not ready for sending, and one that
\* is open and empty not for receiving.
LEMMA FullNotReady ==
  ASSUME IInv, NEW g \in G, op[g].kind = "chan", CaseDir(g, 1) = "send", Ch(g) \in Channel,
         ~closed[Ch(g)], dataqsiz[Ch(g)] > 0, qcount[Ch(g)] = dataqsiz[Ch(g)]
  PROVE  NotReady(g)
<1>1. recvq[Ch(g)] = <<>>
  BY DEF IInv, WaitqInvariant, WaitqOK
<1>2. Live(recvq[Ch(g)]) = {}
  BY <1>1 DEF Live
<1>. QED
  BY <1>2, OneNotReady

LEMMA EmptyNotReady ==
  ASSUME IInv, NEW g \in G, op[g].kind = "chan", CaseDir(g, 1) = "recv", Ch(g) \in Channel,
         ~closed[Ch(g)], empty(Ch(g))
  PROVE  NotReady(g)
<1>. DEFINE c == Ch(g)
<1>0. dataqsiz[c] \in Nat /\ qcount[c] \in 0..dataqsiz[c]
  BY BufTypes
<1>1. qcount[c] = 0
  BY <1>0 DEF empty
<1>2. sendq[c] = <<>>
  <2>1. CASE dataqsiz[c] = 0
    BY <2>1 DEF empty
  <2>2. CASE dataqsiz[c] # 0
    <3>1. qcount[c] < dataqsiz[c] /\ WaitqOK(c)
      BY <1>0, <1>1, <2>2 DEF IInv, WaitqInvariant
    <3>. QED
      BY <3>1 DEF WaitqOK
  <2>. QED
    BY <2>1, <2>2
<1>3. Live(sendq[c]) = {}
  BY <1>2 DEF Live
<1>. QED
  BY <1>1, <1>3, OneNotReady

\* selectgo gives up with every case looked at, and every channel still locked.
LEMMA DefaultNotReady ==
  ASSUME IInv, SInv, NEW g \in G, selectDefault(g)
  PROVE  NotReady(g)
<1>1. /\ pc[g] = "sellock" /\ \A i \in DOMAIN op[g].cases : CaseChan(g, i) # Nil => i \in polled[g]
  BY DEF selectDefault, NoCase
<1>2. \A c \in Channel, dir \in Dir : \A i \in Nat : ~InQ(c, dir, <<g, i>>)
  BY <1>1 DEF SInv, GInv, Sudogs, Waiting
<1>3. ASSUME NEW c \in Channel, NEW dir \in Dir, OnlyOf(g, Queue(c, dir))
      PROVE  Live(Queue(c, dir)) = {}
  <2>1. Queue(c, dir) \in Seq(Sudog)
    BY DEF Queue, IInv, TypeOK, QueueOK
  <2>2. ASSUME NEW k \in DOMAIN Queue(c, dir) PROVE FALSE
    <3>1. PICK y \in G, i \in Nat : Queue(c, dir)[k] = <<y, i>>
      BY <2>1, <2>2 DEF Sudog
    <3>2. y = g
      BY <1>3, <2>2, <3>1 DEF OnlyOf
    <3>3. InQ(c, dir, <<g, i>>)
      BY <2>2, <3>1, <3>2 DEF InQ, In
    <3>. QED
      BY <1>2, <3>3
  <2>. QED
    BY <2>2 DEF Live
<1>4. ASSUME NEW i \in DOMAIN op[g].cases PROVE NotReadyCase(g, i)
  <2>. DEFINE c == CaseChan(g, i)
  <2>. SUFFICES ASSUME c # Nil
                PROVE  /\ ~closed[c]
                       /\ CaseDir(g, i) = "send" => qcount[c] = dataqsiz[c] /\ Live(recvq[c]) = {}
                       /\ CaseDir(g, i) = "recv" => qcount[c] = 0 /\ Live(sendq[c]) = {}
    BY DEF NotReadyCase
  <2>1. c \in Channel /\ i \in polled[g]
    BY <1>1, OpType DEF IInv
  <2>2. PolledCase(g, i) /\ ~closed[c]
    BY <1>1, <2>1 DEF IInv, PolledInv, Polled, SInv, Keeps
  <2>3. dataqsiz[c] \in Nat /\ qcount[c] \in 0..dataqsiz[c]
    BY <2>1, BufTypes
  <2>4. "send" \in Dir /\ "recv" \in Dir /\ Queue(c, "send") = sendq[c] /\ Queue(c, "recv") = recvq[c]
    BY DEF Dir, Queue
  <2>5. CaseDir(g, i) = "send" => qcount[c] >= dataqsiz[c] /\ OnlyOf(g, Queue(c, "recv"))
    BY <2>2, <2>4 DEF PolledCase
  <2>6. CaseDir(g, i) = "recv" => qcount[c] = 0 /\ OnlyOf(g, Queue(c, "send"))
    BY <2>2, <2>4 DEF PolledCase
  <2>. HIDE DEF c
  <2>7. qcount[c] >= dataqsiz[c] => qcount[c] = dataqsiz[c]
    BY <2>3
  <2>8. CaseDir(g, i) = "send" => Live(Queue(c, "recv")) = {}
    BY <1>3, <2>1, <2>4, <2>5
  <2>9. CaseDir(g, i) = "recv" => Live(Queue(c, "send")) = {}
    BY <1>3, <2>1, <2>4, <2>6
  <2>. QED
    BY <2>2, <2>4, <2>5, <2>6, <2>7, <2>8, <2>9
<1>. QED
  BY <1>4 DEF NotReady

\* Whoever gives up has had its moment, except a send on an unbuffered channel that
\* does so on its fast path.
LEMMA GivesUpJustified ==
  ASSUME IInv, SInv, LInv, NInv, NEW g \in G, GivesUp(g)
  PROVE  \/ busy[g]
         \/ /\ op[g].kind = "chan" /\ CaseDir(g, 1) = "send"
            /\ Ch(g) # Nil /\ dataqsiz[Ch(g)] = 0
<1>0. Justified(g) /\ CallFits(g)
  BY DEF NInv, LInv
<1>1. pc[g] # "idle" /\ NotReady(g) => busy[g]
  BY <1>0 DEF Justified
<1>2. ASSUME pc[g] \in ChanPC
      PROVE  /\ Ch(g) \in Channel /\ Ch(g) # Nil /\ dataqsiz[Ch(g)] \in Nat
             /\ qcount[Ch(g)] \in 0..dataqsiz[Ch(g)]
  <2>1. Ch(g) \in Channel
    BY <1>2 DEF IInv, OpInv, OpFits
  <2>. QED
    BY <2>1, BufTypes, ChannelAssumption
<1>3. CASE sendFull(g) /\ full(Ch(g))
  <2>1. pc[g] = "sendFull"
    BY <1>3 DEF sendFull
  <2>2. /\ op[g].kind = "chan" /\ CaseDir(g, 1) = "send" /\ pc[g] \in ChanPC
    BY <1>0, <2>1 DEF CallFits, FastSend, ChanPC
  <2>3. dataqsiz[Ch(g)] # 0 => dataqsiz[Ch(g)] > 0 /\ qcount[Ch(g)] = dataqsiz[Ch(g)]
    BY <1>2, <1>3, <2>2 DEF full
  <2>4. CASE dataqsiz[Ch(g)] # 0 /\ closed[Ch(g)]
    BY <1>0, <2>1, <2>3, <2>4 DEF Justified
  <2>5. CASE dataqsiz[Ch(g)] # 0 /\ ~closed[Ch(g)]
    BY <1>1, <1>2, <2>1, <2>2, <2>3, <2>5, FullNotReady
  <2>. QED
    BY <1>2, <2>2, <2>4, <2>5
<1>4. CASE sendClosedLast(g) /\ ~closed[Ch(g)]
  <2>1. pc[g] = "sendClosedLast"
    BY <1>4 DEF sendClosedLast
  <2>2. /\ op[g].kind = "chan" /\ CaseDir(g, 1) = "send" /\ pc[g] \in ChanPC
    BY <1>0, <2>1 DEF CallFits, FastSend, ChanPC
  <2>3. dataqsiz[Ch(g)] # 0 => dataqsiz[Ch(g)] > 0
    BY <1>2, <2>2
  <2>. QED
    BY <1>0, <1>2, <1>4, <2>1, <2>2, <2>3 DEF Justified
<1>5. CASE recvClosed(g) /\ ~closed[Ch(g)]
  BY <1>0, <1>5 DEF Justified, recvClosed
<1>6. CASE chansendFail(g)
  <2>1. /\ pc[g] = "lock" /\ op[g].kind = "chan" /\ CaseDir(g, 1) = "send" /\ ~closed[Ch(g)]
        /\ qcount[Ch(g)] >= dataqsiz[Ch(g)] /\ Live(recvq[Ch(g)]) = {}
    BY <1>6 DEF chansendFail, Enter, NoReceiver
  <2>2. qcount[Ch(g)] = dataqsiz[Ch(g)]
    BY <1>2, <2>1 DEF ChanPC
  <2>3. NotReady(g)
    BY <2>1, <2>2, OneNotReady
  <2>. QED
    BY <1>1, <2>1, <2>3
<1>7. CASE chanrecvFail(g)
  <2>1. /\ pc[g] = "lock" /\ op[g].kind = "chan" /\ CaseDir(g, 1) = "recv" /\ ~closed[Ch(g)]
        /\ qcount[Ch(g)] = 0 /\ Live(sendq[Ch(g)]) = {}
    BY <1>7 DEF chanrecvFail, Enter, NoSender
  <2>2. NotReady(g)
    BY <2>1, OneNotReady
  <2>. QED
    BY <1>1, <2>1, <2>2
<1>8. CASE selectDefault(g)
  BY <1>1, <1>8, DefaultNotReady DEF selectDefault, NoCase
<1>9. CASE nilchan(g) /\ op[g].kind = "chan"
  <2>1. pc[g] = "nil" /\ Ch(g) = Nil
    BY <1>0, <1>9 DEF nilchan, CallFits
  <2>2. NotReady(g)
    BY <1>9, <2>1, OneNotReady
  <2>. QED
    BY <1>1, <2>1, <2>2
<1>. QED
  BY <1>3, <1>4, <1>5, <1>6, <1>7, <1>8, <1>9 DEF GivesUp

\* The steps of g itself.
RunOf(g) ==
  /\ pc[g] # "idle" /\ UNCHANGED <<op[g], calls[g]>>
  /\ pc'[g] = "sendFull" => ~closed[Ch(g)] /\ UNCHANGED closed
  /\ pc'[g] = "sendClosedLast" => sendFullFirst(g) /\ full(Ch(g))
  /\ pc'[g] = "recvClosed" => recvEmpty(g) /\ empty(Ch(g))
  /\ ret'[g] = ret[g] \/ ret'[g] # NotDone \/ (pc'[g] = "idle" /\ GivesUp(g))

LEMMA RunFacts ==
  ASSUME IInv, SInv, NEW g \in G, Run(g)
  PROVE  RunOf(g)
<1>0. pc \in [G -> PC] /\ DOMAIN ret = G /\ Own(g)
  BY OwnNow DEF IInv, TypeOK, RunOK
<1>. DEFINE Elsewhere == pc'[g] \notin {"sendFull", "sendClosedLast", "recvClosed"}
<1>1. CASE Chansend(g)
  <2>1. CASE sendClosed(g)
    BY <1>0, <2>1 DEF sendClosed, Goto, chanVars, RunOf
  <2>2. CASE sendFull(g) \/ sendFullFirst(g) \/ sendClosedLast(g)
    BY <1>0, <2>2 DEF sendFull, sendFullFirst, sendClosedLast, Goto, Return, RunOf, GivesUp
  <2>3. CASE \/ chansendClosed(g) \/ chansendDirect(g) \/ chansendBuffer(g) \/ chansendFail(g)
             \/ chansendBlock(g) \/ chansendWoken(g)
    <3>1. pc[g] # "idle" /\ UNCHANGED <<op, calls>> /\ Elsewhere
      BY <1>0, <2>3 DEF chansendClosed, chansendDirect, chansendBuffer, chansendFail,
         chansendBlock, chansendWoken, Enter, Goto, Return
    <3>2. \/ chansendFail(g) /\ pc'[g] = "idle"
          \/ UNCHANGED ret
          \/ ret'[g] \in {Done(1, TRUE), Panic(1)}
      BY <1>0, <2>3 DEF chansendClosed, chansendDirect, chansendBuffer, chansendFail,
         chansendBlock, chansendWoken, Goto, Return
    <3>. QED
      BY <3>1, <3>2, ResultsDiffer DEF RunOf, GivesUp
  <2>. QED
    BY <1>1, <2>1, <2>2, <2>3 DEF Chansend
<1>2. CASE Chanrecv(g)
  <2>1. CASE recvEmpty(g) \/ recvClosed(g) \/ recvRecheck(g)
    <3>1. CASE recvEmpty(g) \/ recvClosed(g)
      BY <1>0, <3>1 DEF recvEmpty, recvClosed, Goto, Return, RunOf, GivesUp
    <3>2. CASE recvRecheck(g)
      <4>1. pc[g] # "idle" /\ UNCHANGED <<op, calls>> /\ Elsewhere
        BY <1>0, <3>2 DEF recvRecheck, Goto, Return
      <4>2. UNCHANGED ret \/ ret'[g] = Done(1, FALSE)
        BY <1>0, <3>2 DEF recvRecheck, Return
      <4>. QED
        BY <4>1, <4>2, ResultsDiffer DEF RunOf
    <3>. QED
      BY <2>1, <3>1, <3>2
  <2>2. CASE \/ chanrecvClosed(g) \/ chanrecvDirect(g) \/ chanrecvBuffer(g) \/ chanrecvFail(g)
             \/ chanrecvBlock(g) \/ chanrecvWoken(g)
    <3>1. pc[g] # "idle" /\ UNCHANGED <<op, calls>> /\ Elsewhere
      BY <1>0, <2>2 DEF chanrecvClosed, chanrecvDirect, chanrecvBuffer, chanrecvFail,
         chanrecvBlock, chanrecvWoken, Enter, Goto, Return
    <3>2. \/ chanrecvFail(g) /\ pc'[g] = "idle"
          \/ UNCHANGED ret
          \/ ret'[g] \in {Done(1, TRUE), Done(1, FALSE), Done(1, success[g])}
      BY <1>0, <2>2 DEF chanrecvClosed, chanrecvDirect, chanrecvBuffer, chanrecvFail,
         chanrecvBlock, chanrecvWoken, Goto, Return
    <3>. QED
      BY <3>1, <3>2, ResultsDiffer DEF RunOf, GivesUp
  <2>. QED
    BY <1>2, <2>1, <2>2 DEF Chanrecv
<1>3. CASE Closechan(g)
  <2>1. pc[g] # "idle" /\ UNCHANGED <<op, calls>> /\ Elsewhere
    BY <1>0, <1>3 DEF Closechan, closechanClosed, closechan, closechanRecvq, closechanSendq,
       closechanUnlock, Goto, Return
  <2>2. UNCHANGED ret \/ ret'[g] \in {Done(1, TRUE), Panic(1)}
    BY <1>0, <1>3 DEF Closechan, closechanClosed, closechan, closechanRecvq, closechanSendq,
       closechanUnlock, Return
  <2>. QED
    BY <2>1, <2>2, ResultsDiffer DEF RunOf
<1>4. CASE SelectPass1(g)
  <2>1. pc[g] # "idle" /\ UNCHANGED <<op, calls>> /\ Elsewhere
    BY <1>0, <1>4 DEF SelectPass1, selectRecv, selectBufrecv, selectRclose, selectSend,
       selectBufsend, selectSclose, selectNext, selectDefault, selectBlock, Poll, NoCase, Goto, Return
  <2>2. \/ selectDefault(g) /\ pc'[g] = "idle"
        \/ UNCHANGED ret
        \/ \E i : ret'[g] \in {Done(i, TRUE), Done(i, FALSE), Panic(i)}
    BY <1>0, <1>4 DEF SelectPass1, selectRecv, selectBufrecv, selectRclose, selectSend,
       selectBufsend, selectSclose, selectNext, selectDefault, selectBlock, Goto, Return
  <2>. QED
    BY <2>1, <2>2, ResultsDiffer DEF RunOf, GivesUp
<1>5. CASE \/ sellock(g) \/ selectEnqueue(g) \/ selectPark(g) \/ selparkcommit(g) \/ selectWoken(g)
           \/ selectRelocked(g) \/ selectDequeue(g) \/ selectFinish(g)
  <2>1. pc[g] # "idle" /\ UNCHANGED <<op, calls>> /\ Elsewhere
    <3>1. commit[g] # 0 => pc[g] \in {"park", "woken", "relock"}
      BY DEF IInv, CommitInv, Committing
    <3>. QED
      BY <1>0, <1>5, <3>1 DEF sellock, selectEnqueue, selectPark, selparkcommit, selectWoken,
         selectRelocked, selectDequeue, selectFinish, Goto, Return
  <2>2. UNCHANGED ret \/ \E i : ret'[g] \in {Done(i, success[g]), Panic(i)}
    BY <1>0, <1>5 DEF sellock, selectEnqueue, selectPark, selparkcommit, selectWoken,
       selectRelocked, selectDequeue, selectFinish, Return
  <2>. QED
    BY <2>1, <2>2, ResultsDiffer DEF RunOf
<1>6. CASE goready(g)
  <2>1. pc[g] = "ready" /\ UNCHANGED <<op, calls, ret>>
    BY <1>6 DEF goready
  <2>2. Elsewhere
    BY <1>0, <1>6 DEF goready
  <2>. QED
    BY <2>1, <2>2 DEF RunOf
<1>7. CASE nilchan(g)
  <2>1. pc[g] # "idle" /\ UNCHANGED <<op, calls>> /\ pc'[g] = "idle"
    BY <1>0, <1>7 DEF nilchan, Goto, Return
  <2>2. ret'[g] = Panic(1) \/ op[g].kind = "chan"
    BY <1>0, <1>7 DEF nilchan, Return
  <2>. QED
    BY <1>7, <2>1, <2>2, ResultsDiffer DEF RunOf, GivesUp
<1>. QED
  BY <1>1, <1>2, <1>3, <1>4, <1>5, <1>6, <1>7 DEF Run, Selectgo

\* A step of h, as far as g is concerned.
LEMMA OtherStays ==
  ASSUME IInv, SInv, NEW g \in G, NEW h \in G, g # h, CallStep(h) \/ Run(h)
  PROVE  /\ UNCHANGED <<op[g], calls[g], ret[g]>>
         /\ pc'[g] = pc[g] \/ (pc[g] = "park" /\ pc'[g] = "woken")
<1>1. CASE Solo(h)
  BY <1>1 DEF Solo
<1>2. CASE TakeStepOf(h)
  BY <1>2, TakeFacts DEF TakesOne
<1>3. CASE goready(h)
  <2>1. UNCHANGED <<op, calls, ret>> /\ pc \in [G -> PC]
    BY <1>3 DEF goready, IInv, TypeOK, RunOK
  <2>2. PICK s \in wake[h] :
          pc' = [pc EXCEPT ![s[1]] = "woken", ![h] = IF wake[h] = {s} THEN "idle" ELSE "ready"]
    BY <1>3 DEF goready
  <2>3. pc[s[1]] = "park"
    BY <2>2 DEF SInv, GInv, Wakes
  <2>. QED
    BY <2>1, <2>2, <2>3
<1>. QED
  BY <1>1, <1>2, <1>3, StepKinds

\* A closed channel that is full was full before.
LEMMA FullBefore ==
  ASSUME IInv, SInv, NEW h \in G, CallStep(h) \/ Run(h), NEW c \in Channel,
         closed[c], qcount'[c] = dataqsiz[c]
  PROVE  qcount[c] = dataqsiz[c]
<1>0. /\ qcount \in [Channel -> Nat] /\ qcount[c] <= dataqsiz[c] /\ dataqsiz[c] \in Nat
  BY SizeAssumption DEF IInv, TypeOK, BufOK
<1>1. CASE UNCHANGED bufVars
  BY <1>1 DEF bufVars
<1>2. CASE PushStep(h)
  <2>1. PICK d \in Channel : ~closed[d] /\ qcount' = [qcount EXCEPT ![d] = @ + 1]
    BY <1>2, PushFacts DEF bufsend
  <2>. QED
    BY <1>0, <2>1
<1>3. CASE PopStep(h)
  <2>1. PICK d \in Channel : qcount' = [qcount EXCEPT ![d] = @ - 1]
    BY <1>3, PopFacts DEF bufrecv
  <2>2. qcount'[c] = qcount[c] \/ qcount'[c] = qcount[c] - 1
    BY <1>0, <2>1
  <2>. QED
    BY <1>0, <2>2
<1>4. CASE SwapStep(h)
  <2>1. PICK d : recv(h, d)
    BY <1>4, SwapCase, RecvStep
  <2>2. UNCHANGED qcount
    BY <2>1 DEF recv, bufVars
  <2>. QED
    BY <2>2
<1>. QED
  BY <1>1, <1>2, <1>3, <1>4, BufferSteps

\* The operation of g, when op[g] stays.
LEMMA SameCase ==
  ASSUME NEW g \in G, op'[g] = op[g]
  PROVE  /\ Ch(g)' = Ch(g) /\ CaseDir(g, 1)' = CaseDir(g, 1)
         /\ (op[g].kind)' = op[g].kind
BY DEF Ch, CaseChan, CaseDir

\* Where g is on a fast path, its operation is a send or a receive on a channel.
LEMMA FastCase ==
  ASSUME IInv, LInv, NEW g \in G, pc[g] \in FastSend \cup FastRecv
  PROVE  /\ Ch(g) \in Channel /\ op[g].kind = "chan"
         /\ pc[g] \in FastSend => CaseDir(g, 1) = "send"
         /\ pc[g] \in FastRecv => CaseDir(g, 1) = "recv"
<1>1. pc[g] \in ChanPC
  BY DEF ChanPC, FastSend, FastRecv
<1>. QED
  BY <1>1 DEF IInv, OpInv, OpFits, LInv, CallFits

\* A step of another goroutine.  When it closes the channel g sends on, that channel
\* was open and full the moment before.
LEMMA JustifiedOther ==
  ASSUME IInv, SInv, LInv, NInv, NEW g \in G, NEW h \in G, g # h, CallStep(h) \/ Run(h),
         busy' = [x \in G |-> Record(x)]
  PROVE  Justified(g)'
<1>1. /\ UNCHANGED <<op[g], calls[g], ret[g]>>
      /\ pc'[g] = pc[g] \/ (pc[g] = "park" /\ pc'[g] = "woken")
  BY OtherStays
<1>2. Ch(g)' = Ch(g) /\ Justified(g)
  BY <1>1, SameCase DEF NInv
<1>3. /\ busy[g] => busy'[g]
      /\ pc[g] # "idle" /\ NotReady(g)' => busy'[g]
  BY <1>1, BusyNext
<1>4. pc'[g] \in FastSend \cup FastRecv => pc'[g] = pc[g] /\ Ch(g) \in Channel
  BY <1>1, FastCase DEF FastSend, FastRecv
<1>5. ASSUME pc'[g] = "sendFull", dataqsiz[Ch(g)] > 0, closed'[Ch(g)],
             qcount'[Ch(g)] = dataqsiz[Ch(g)]
      PROVE  busy[g]
  <2>1. /\ pc[g] = "sendFull" /\ Ch(g) \in Channel /\ op[g].kind = "chan"
        /\ CaseDir(g, 1) = "send"
    BY <1>4, <1>5, FastCase DEF FastSend
  <2>2. CASE closed[Ch(g)]
    <3>1. qcount[Ch(g)] = dataqsiz[Ch(g)]
      BY <1>5, <2>1, <2>2, FullBefore
    <3>. QED
      BY <1>2, <1>5, <2>1, <2>2, <3>1 DEF Justified
  <2>3. CASE ~closed[Ch(g)]
    <3>1. closechan(h)
      BY <1>5, <2>3, ClosedStays
    <3>2. UNCHANGED qcount
      BY <3>1 DEF closechan, bufVars
    <3>3. NotReady(g)
      BY <1>5, <2>1, <2>3, <3>2, FullNotReady
    <3>. QED
      BY <1>2, <2>1, <3>3 DEF Justified
  <2>. QED
    BY <2>2, <2>3
<1>6. ASSUME pc'[g] = "sendClosedLast", dataqsiz[Ch(g)] > 0, ~closed'[Ch(g)]
      PROVE  busy[g]
  <2>1. pc[g] = "sendClosedLast" /\ ~closed[Ch(g)]
    BY <1>4, <1>6, ClosedMonotone DEF FastSend
  <2>. QED
    BY <1>2, <1>6, <2>1 DEF Justified
<1>7. ASSUME pc'[g] = "recvClosed", ~closed'[Ch(g)]
      PROVE  busy[g]
  <2>1. pc[g] = "recvClosed" /\ ~closed[Ch(g)]
    BY <1>4, <1>7, ClosedMonotone DEF FastRecv
  <2>. QED
    BY <1>2, <2>1 DEF Justified
<1>8. pc[g] # "idle" => ret[g] # NotDone
  BY <1>2 DEF Justified
<1>. QED
  BY <1>1, <1>2, <1>3, <1>5, <1>6, <1>7, <1>8 DEF Justified

\* The call of g.
LEMMA JustifiedCall ==
  ASSUME IInv, NEW g \in G, CallStep(g), busy' = [x \in G |-> Record(x)]
  PROVE  Justified(g)' /\ pc'[g] # "idle"
<1>1. /\ pc \in [G -> PC] /\ ret'[g] = NoRet /\ calls[g] \in Nat /\ calls'[g] = calls[g] + 1
  BY DEF IInv, TypeOK, RunOK, CallStep, CallChan, CallNil, CallSelect, Call
<1>2. pc'[g] \in {"lock", "sendClosed", "sendFullFirst", "recvEmpty", "nil", "sellock"}
  BY <1>1 DEF CallStep, CallChan, CallNil, CallSelect, Goto
<1>3. calls'[g] # calls[g]
  BY <1>1
<1>4. NotReady(g)' => busy'[g]
  BY <1>3, BusyNext
<1>. QED
  BY <1>1, <1>2, <1>4, ResultsDiffer DEF Justified

\* The other steps of g: from the first load of a fast path to the second.
LEMMA JustifiedRun ==
  ASSUME IInv, SInv, LInv, NInv, NEW g \in G, Run(g), busy' = [x \in G |-> Record(x)]
  PROVE  Justified(g)'
<1>1. RunOf(g) /\ Justified(g)
  BY RunFacts DEF NInv
<1>2. pc[g] # "idle" /\ UNCHANGED <<op[g], calls[g]>> /\ Ch(g)' = Ch(g)
  BY <1>1, SameCase DEF RunOf
<1>3. /\ busy[g] => busy'[g]
      /\ NotReady(g)' => busy'[g]
      /\ NotReady(g) => busy[g]
  BY <1>1, <1>2, BusyNext DEF Justified
<1>4. pc'[g] # "idle" => ret'[g] # NotDone
  BY <1>1, <1>2 DEF RunOf, Justified
<1>5. pc'[g] = "sendFull" => ~closed'[Ch(g)]
  BY <1>1 DEF RunOf
<1>6. ASSUME pc'[g] = "sendClosedLast", dataqsiz[Ch(g)] > 0, ~closed'[Ch(g)]
      PROVE  busy[g]
  <2>1. pc[g] = "sendFullFirst" /\ full(Ch(g)) /\ UNCHANGED closed
    BY <1>1, <1>6 DEF RunOf, sendFullFirst, chanVars
  <2>2. Ch(g) \in Channel /\ op[g].kind = "chan" /\ CaseDir(g, 1) = "send"
    BY <2>1, FastCase DEF FastSend
  <2>3. dataqsiz[Ch(g)] # 0
    BY <1>6
  <2>4. qcount[Ch(g)] = dataqsiz[Ch(g)]
    BY <2>1, <2>3 DEF full
  <2>5. NotReady(g)
    BY <1>6, <2>1, <2>2, <2>4, FullNotReady
  <2>. QED
    BY <1>3, <2>5
<1>7. ASSUME pc'[g] = "recvClosed", ~closed'[Ch(g)]
      PROVE  busy[g]
  <2>1. pc[g] = "recvEmpty" /\ empty(Ch(g)) /\ UNCHANGED closed
    BY <1>1, <1>7 DEF RunOf, recvEmpty, chanVars
  <2>2. Ch(g) \in Channel /\ op[g].kind = "chan" /\ CaseDir(g, 1) = "recv"
    BY <2>1, FastCase DEF FastRecv
  <2>3. NotReady(g)
    BY <1>7, <2>1, <2>2, EmptyNotReady
  <2>. QED
    BY <1>3, <2>3
<1>. QED
  BY <1>2, <1>3, <1>4, <1>5, <1>6, <1>7 DEF Justified

\* What DefaultJustified says of g.
Excused(g) ==
  GaveUp(g) => \/ busy[g]
               \/ /\ op[g].kind = "chan" /\ CaseDir(g, 1) = "send"
                  /\ Ch(g) # Nil /\ dataqsiz[Ch(g)] = 0

LEMMA ExcusedNext ==
  ASSUME IInv, SInv, LInv, NInv, DefaultJustified, NEW g \in G, NEW h \in G,
         CallStep(h) \/ Run(h), busy' = [x \in G |-> Record(x)]
  PROVE  Excused(g)'
<1>. SUFFICES ASSUME GaveUp(g)'
              PROVE  \/ busy'[g]
                     \/ /\ op'[g].kind = "chan" /\ CaseDir(g, 1)' = "send"
                        /\ Ch(g)' # Nil /\ dataqsiz[Ch(g)'] = 0
  BY DEF Excused
<1>1. pc'[g] = "idle" /\ ret'[g] = NotDone
  BY DEF GaveUp
<1>2. ~(g = h /\ CallStep(h))
  BY <1>1, JustifiedCall
<1>3. UNCHANGED <<op[g], calls[g]>> /\ (GaveUp(g) \/ GivesUp(g))
  <2>1. CASE g # h
    <3>1. /\ UNCHANGED <<op[g], calls[g], ret[g]>>
          /\ pc'[g] = pc[g] \/ (pc[g] = "park" /\ pc'[g] = "woken")
      BY <2>1, OtherStays
    <3>. QED
      BY <1>1, <3>1 DEF GaveUp
  <2>2. CASE g = h
    <3>1. RunOf(g) /\ Justified(g)
      BY <1>2, <2>2, RunFacts DEF NInv
    <3>. QED
      BY <1>1, <3>1 DEF RunOf, Justified
  <2>. QED
    BY <2>1, <2>2
<1>4. \/ busy[g]
      \/ /\ op[g].kind = "chan" /\ CaseDir(g, 1) = "send"
         /\ Ch(g) # Nil /\ dataqsiz[Ch(g)] = 0
  BY <1>3, GivesUpJustified DEF DefaultJustified
<1>5. busy[g] => busy'[g]
  BY <1>3, BusyNext
<1>. QED
  BY <1>3, <1>4, <1>5, SameCase

\* A non-blocking send on a buffered channel, a non-blocking receive and a select
\* with a default return without having proceeded only if there was a moment,
\* between the call and the return, when the channel was open and not ready, or
\* none of the channels of the select was: what the comments of chansend and
\* chanrecv argue for their loads without the lock, for any number of goroutines
\* that send, receive and close meanwhile.
THEOREM DefaultJustifiedCorrect == NSpec => []DefaultJustified
<1>. DEFINE Inv == IInv /\ SInv /\ LInv /\ NInv /\ DefaultJustified
<1>1. NInit => Inv
  <2>. SUFFICES ASSUME NInit PROVE Inv
    OBVIOUS
  <2>1. Init /\ \A g \in G : pc[g] = "idle" /\ ret[g] = NoRet
    BY DEF NInit, Init
  <2>2. IInv /\ SInv /\ LInv
    BY <2>1, IInvInit, SInvInit, LInvInit
  <2>3. NInv
    BY <2>1 DEF NInv, Justified
  <2>4. DefaultJustified
    BY <2>1, ResultsDiffer DEF DefaultJustified, GaveUp
  <2>. QED
    BY <2>2, <2>3, <2>4
<1>2. Inv /\ [NNext]_nvars => Inv'
  <2>. SUFFICES ASSUME Inv, [NNext]_nvars PROVE Inv'
    OBVIOUS
  <2>1. [Next]_vars
    BY DEF NNext, nvars
  <2>2. IInv' /\ SInv' /\ LInv'
    BY <2>1, IInvNext, SInvNext, LInvNext
  <2>3. CASE UNCHANGED nvars
    <3>1. UNCHANGED <<pc, ret, op, closed, qcount, recvq, sendq, selectDone, busy>>
      BY <2>3 DEF nvars, vars, chanVars, wakeVars
    <3>2. \A g, i : CaseChan(g, i)' = CaseChan(g, i) /\ CaseDir(g, i)' = CaseDir(g, i)
      BY <3>1 DEF CaseChan, CaseDir
    <3>3. \A q : Live(q)' = Live(q)
      BY <3>1 DEF Live, Stale, IsSelect
    <3>4. \A g : NotReady(g)' = NotReady(g) /\ Ch(g)' = Ch(g)
      BY <3>1, <3>2, <3>3 DEF NotReady, NotReadyCase, Ch
    <3>5. NInv'
      BY <3>1, <3>4 DEF NInv, Justified
    <3>6. DefaultJustified'
      BY <3>1, <3>2, <3>4 DEF DefaultJustified, GaveUp
    <3>. QED
      BY <2>2, <3>5, <3>6
  <2>4. CASE NNext
    <3>1. Next /\ busy' = [x \in G |-> Record(x)]
      BY <2>4 DEF NNext
    <3>2. PICK h \in G : CallStep(h) \/ Run(h)
      BY <3>1 DEF Next, CallStep
    <3>3. ASSUME NEW g \in G PROVE Justified(g)'
      BY <3>1, <3>2, JustifiedOther, JustifiedCall, JustifiedRun
    <3>4. \A g \in G : Excused(g)'
      BY <3>1, <3>2, ExcusedNext
    <3>5. NInv' /\ DefaultJustified'
      BY <3>3, <3>4 DEF NInv, DefaultJustified, Excused
    <3>. QED
      BY <2>2, <3>5
  <2>. QED
    BY <2>3, <2>4
<1>3. Inv => DefaultJustified
  OBVIOUS
<1>. QED
  BY <1>1, <1>2, <1>3, PTL DEF NSpec

=============================================================================
