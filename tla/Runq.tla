-------------------------------- MODULE Runq --------------------------------
(***************************************************************************)
(* The run queues of the scheduler (runtime/proc.go): each P has a ring of *)
(* goroutines and the slot runnext, from which other Ps steal without a    *)
(* lock; what does not fit goes to the global queue.                       *)
(*                                                                         *)
(* Only its owner stores into a ring, so an operation of the owner that    *)
(* ends in a compare-and-swap of runqhead or runnext is one step, the one  *)
(* that succeeds.  A thief takes a step for each word it loads.            *)
(***************************************************************************)
EXTENDS Integers, Sequences, FiniteSets

CONSTANTS
  P, G, Nil,
  Len256,      \* len(p.runq)
  Wrap,        \* runqhead and runqtail count modulo this (1 << 32)
  Start,       \* runqhead at first
  Starts       \* the cases to look at

\* No index makes a whole round within a behaviour (it may pass 0 on its way): a
\* compare-and-swap that finds the word it has loaded means that nothing was taken.
ASSUME RunqAssumption ==
  /\ Nil \notin G /\ IsFiniteSet(P)
  /\ Len256 \in Nat /\ Len256 > 0 /\ Len256 % 2 = 0
  /\ Wrap \in Nat /\ Wrap > 0 /\ Wrap % Len256 = 0
  /\ Start \in 0 .. Wrap - 1
  /\ \A c \in Starts : /\ c.busy \in 1 .. Cardinality(P)
                       /\ c.queued \in Seq(G) /\ Len(c.queued) \in 1 .. Len256 + 1
                       /\ \A k, l \in DOMAIN c.queued : c.queued[k] = c.queued[l] => k = l
                       /\ c.ready \in Nat
                       /\ (Len(c.queued) - 1 + c.ready) * (Len256 \div 2) < Wrap
                       /\ c.checks \in Nat

\* A case: how many Ps are not idle, the goroutine that runs at first and those in
\* the ring behind it, and two bounds, of the goroutines that become runnable or
\* are drained, and of the calls of runqempty.
VARIABLES
  runnext, runqhead, runqtail, runq,
  sched_runq,  \* the global queue, under sched.lock
  cur,         \* the goroutine each P runs
  waiting,     \* goroutines that are not runnable
  ready,       \* bound: how often one may yet become runnable, or runqdrain be called
  pc,          \* where each P is
  hand,        \* goroutines it is moving
  p2, h, n, i, \* locals of runqsteal and runqgrab
  chk,         \* a thread without a P in runqempty: its locals
  seen,        \* history: the queue it looks at was empty meanwhile
  throw

ringVars  == <<runnext, runqhead, runqtail, runq>>
thiefVars == <<p2, h, n, i>>
chkVars   == <<chk, seen>>
vars == <<ringVars, sched_runq, cur, waiting, ready, pc, hand, thiefVars, chkVars, throw>>

Half       == Len256 \div 2
Slot(x)    == x % Len256
Plus(x, k) == (x + k) % Wrap
Sub(x, y)  == (x - y) % Wrap

Goto(p, l) == pc' = [pc EXCEPT ![p] = l]
Hold(p, s) == hand' = [hand EXCEPT ![p] = s]

\* The goroutines in the ring of p.
Ring(p) == [k \in 1 .. Sub(runqtail[p], runqhead[p]) |-> runq[p][Slot(runqhead[p] + k - 1)]]

\* No call of runqempty.
Idle == [at |-> "out", p |-> Nil, head |-> 0, tail |-> 0, next |-> Nil, calls |-> 0]

Init ==
  /\ runnext = [p \in P |-> Nil]
  /\ runqhead = [p \in P |-> Start]
  /\ sched_runq = <<>>
  /\ \E c \in Starts, B \in SUBSET P : \E p \in B :
       /\ Cardinality(B) = c.busy
       /\ waiting = G \ {c.queued[k] : k \in DOMAIN c.queued}
       /\ cur = [q \in P |-> IF q = p THEN Head(c.queued) ELSE Nil]
       /\ pc = [q \in P |-> IF q = p THEN "run" ELSE IF q \in B THEN "find" ELSE "idle"]
       /\ runqtail = [q \in P |-> IF q = p THEN Plus(Start, Len(c.queued) - 1) ELSE Start]
       /\ runq = [q \in P |-> [x \in 0 .. Len256 - 1 |->
                   LET k == Slot(x - Start) + 2
                   IN  IF q = p /\ k <= Len(c.queued) THEN c.queued[k] ELSE Nil]]
       /\ ready = c.ready /\ chk = [Idle EXCEPT !.calls = c.checks]
  /\ hand = [p \in P |-> <<>>]
  /\ p2 = [p \in P |-> p] /\ h = [p \in P |-> 0] /\ n = [p \in P |-> 0] /\ i = [p \in P |-> 0]
  /\ seen = FALSE
  /\ throw = FALSE

-----------------------------------------------------------------------------
(* The owner puts.                                                         *)

\* ready: the goroutine that runs on p makes g runnable.  With next, it takes
\* the place of runnext, whose goroutine is kicked out to the ring.
runqput(p, g, next) ==
  /\ pc[p] = "run" /\ ready > 0 /\ waiting # {}
  /\ g = CHOOSE x \in waiting : TRUE       \* they are all alike
  /\ waiting' = waiting \ {g} /\ ready' = ready - 1
  /\ IF next THEN /\ runnext' = [runnext EXCEPT ![p] = g]
                  /\ IF runnext[p] = Nil THEN UNCHANGED <<pc, hand>>
                                         ELSE Goto(p, "put") /\ Hold(p, <<runnext[p]>>)
             ELSE Goto(p, "put") /\ Hold(p, <<g>>) /\ UNCHANGED runnext
  /\ UNCHANGED <<runqhead, runqtail, runq, sched_runq, cur, thiefVars, chk, throw>>

\* There is room: store into the ring.
runqputStore(p) ==
  /\ pc[p] = "put" /\ Sub(runqtail[p], runqhead[p]) < Len256
  /\ runq' = [runq EXCEPT ![p][Slot(runqtail[p])] = Head(hand[p])]
  /\ Goto(p, "tail")
  /\ UNCHANGED <<runnext, runqhead, runqtail, sched_runq, cur, waiting, ready, hand,
                 thiefVars, chk, throw>>

\* The store to runqtail publishes what was stored.
runqputTail(p) ==
  /\ pc[p] = "tail"
  /\ runqtail' = [runqtail EXCEPT ![p] = Plus(@, 1)]
  /\ Hold(p, <<>>) /\ Goto(p, "run")
  /\ UNCHANGED <<runnext, runqhead, runq, sched_runq, cur, waiting, ready, thiefVars, chk,
                 throw>>

\* runqputslow: half of the ring, with the new one, to the global queue.
runqputslow(p) ==
  /\ pc[p] = "put" /\ Sub(runqtail[p], runqhead[p]) >= Len256
  /\ throw' = (throw \/ Sub(runqtail[p], runqhead[p]) \div 2 # Half)
  /\ Hold(p, SubSeq(Ring(p), 1, Half) \o hand[p])
  /\ runqhead' = [runqhead EXCEPT ![p] = Plus(@, Half)]
  /\ Goto(p, "global")
  /\ UNCHANGED <<runnext, runqtail, runq, sched_runq, cur, waiting, ready, thiefVars, chk>>

globrunqputbatch(p) ==
  /\ pc[p] = "global"
  /\ sched_runq' = sched_runq \o hand[p]
  /\ Hold(p, <<>>) /\ Goto(p, IF cur[p] = Nil THEN "find" ELSE "run")
  /\ UNCHANGED <<ringVars, cur, waiting, ready, thiefVars, chk, throw>>

-----------------------------------------------------------------------------
(* The goroutine on p blocks or yields, and p looks for another one.       *)

park(p) ==
  /\ pc[p] = "run"
  /\ waiting' = waiting \cup {cur[p]}
  /\ cur' = [cur EXCEPT ![p] = Nil] /\ Goto(p, "find")
  /\ UNCHANGED <<ringVars, sched_runq, ready, hand, thiefVars, chk, throw>>

goschedImpl(p) ==
  /\ pc[p] = "run" /\ ready > 0 /\ ready' = ready - 1
  /\ sched_runq' = Append(sched_runq, cur[p])
  /\ cur' = [cur EXCEPT ![p] = Nil] /\ Goto(p, "find")
  /\ UNCHANGED <<ringVars, waiting, hand, thiefVars, chk, throw>>

Execute(p, g) == cur' = [cur EXCEPT ![p] = g] /\ Goto(p, "run")

\* runqget: runnext first.
runqgetNext(p) ==
  /\ pc[p] = "find" /\ runnext[p] # Nil
  /\ runnext' = [runnext EXCEPT ![p] = Nil]
  /\ Execute(p, runnext[p])
  /\ UNCHANGED <<runqhead, runqtail, runq, sched_runq, waiting, ready, hand, thiefVars, chk,
                 throw>>

\* ... then the ring, then elsewhere.
runqget(p) ==
  /\ pc[p] = "find" /\ runnext[p] = Nil
  /\ IF runqhead[p] = runqtail[p]
       THEN Goto(p, "globget") /\ UNCHANGED <<runqhead, cur>>
       ELSE /\ Execute(p, runq[p][Slot(runqhead[p])])
            /\ runqhead' = [runqhead EXCEPT ![p] = Plus(@, 1)]
  /\ UNCHANGED <<runnext, runqtail, runq, sched_runq, waiting, ready, hand, thiefVars, chk,
                 throw>>

\* findRunnable every 61st time: one from the global queue.
globrunqget(p) ==
  /\ pc[p] = "find" /\ sched_runq # <<>>
  /\ Execute(p, Head(sched_runq))
  /\ sched_runq' = Tail(sched_runq)
  /\ UNCHANGED <<ringVars, waiting, ready, hand, thiefVars, chk, throw>>

Least(S) == CHOOSE x \in S : \A y \in S : x <= y

globrunqgetbatch(p) ==
  LET k == Least({Half, Len(sched_runq), Len(sched_runq) \div Cardinality(P) + 1})
  IN  /\ pc[p] = "globget"
      /\ IF sched_runq = <<>>
           THEN Goto(p, "steal") /\ UNCHANGED <<sched_runq, hand>>
           ELSE /\ Hold(p, SubSeq(sched_runq, 1, k))
                /\ sched_runq' = SubSeq(sched_runq, k + 1, Len(sched_runq))
                /\ Goto(p, "batch")
      /\ UNCHANGED <<ringVars, cur, waiting, ready, thiefVars, chk, throw>>

\* runqputbatch of all but the first, which p runs: the stores, then runqtail.
runqputbatch(p) ==
  LET k == Len(hand[p]) - 1
  IN  /\ pc[p] = "batch"
      /\ throw' = (throw \/ Sub(runqtail[p], runqhead[p]) + k > Len256)
      /\ runq' = [runq EXCEPT ![p] = [x \in 0 .. Len256 - 1 |->
                    IF \E y \in 1 .. k : x = Slot(runqtail[p] + y - 1)
                    THEN hand[p][1 + CHOOSE y \in 1 .. k : x = Slot(runqtail[p] + y - 1)]
                    ELSE @[x]]]
      /\ Goto(p, "batchTail")
      /\ UNCHANGED <<runnext, runqhead, runqtail, sched_runq, cur, waiting, ready, hand,
                     thiefVars, chk>>

runqputbatchTail(p) ==
  /\ pc[p] = "batchTail"
  /\ runqtail' = [runqtail EXCEPT ![p] = Plus(@, Len(hand[p]) - 1)]
  /\ Execute(p, Head(hand[p])) /\ Hold(p, <<>>)
  /\ UNCHANGED <<runnext, runqhead, runq, sched_runq, waiting, ready, thiefVars, chk, throw>>

\* runqdrain, called by a dedicated GC worker that is preempted: runnext,
runqdrainNext(p) ==
  /\ pc[p] = "run" /\ ready > 0 /\ ready' = ready - 1
  /\ Hold(p, IF runnext[p] = Nil THEN <<>> ELSE <<runnext[p]>>)
  /\ runnext' = [runnext EXCEPT ![p] = Nil]
  /\ Goto(p, "drain")
  /\ UNCHANGED <<runqhead, runqtail, runq, sched_runq, cur, waiting, thiefVars, chk, throw>>

\* ... then the ring, then all of it to the global queue.
runqdrain(p) ==
  /\ pc[p] = "drain"
  /\ Hold(p, hand[p] \o Ring(p))
  /\ runqhead' = [runqhead EXCEPT ![p] = runqtail[p]]
  /\ Goto(p, "global")
  /\ UNCHANGED <<runnext, runqtail, runq, sched_runq, cur, waiting, ready, thiefVars, chk,
                 throw>>

-----------------------------------------------------------------------------
(* runqsteal and runqgrab: the thief stores what it grabs into its own     *)
(* ring, beyond runqtail.                                                  *)

\* The locals are dead.
Forget(p) == p2' = [p2 EXCEPT ![p] = p] /\ h' = [h EXCEPT ![p] = 0] /\ i' = [i EXCEPT ![p] = 0]

grabHead(p, q) ==
  /\ pc[p] = "steal" /\ q # p /\ pc[q] # "idle"
  /\ p2' = [p2 EXCEPT ![p] = q]
  /\ h' = [h EXCEPT ![p] = runqhead[q]]
  /\ Goto(p, "grabTail")
  /\ UNCHANGED <<ringVars, sched_runq, cur, waiting, ready, hand, n, i, chk, throw>>

\* Half of what there is; if runqhead was stale by now, start over.
grabTail(p) ==
  LET d == Sub(runqtail[p2[p]], h[p])
      k == d - d \div 2
  IN  /\ pc[p] = "grabTail"
      /\ Goto(p, IF k = 0 THEN "grabNext" ELSE IF k > Half THEN "steal" ELSE "copy")
      /\ n' = [n EXCEPT ![p] = IF k > Half THEN 0 ELSE k] /\ i' = [i EXCEPT ![p] = 0]
      /\ UNCHANGED <<ringVars, sched_runq, cur, waiting, ready, hand, p2, h, chk, throw>>

grabCopy(p) ==
  /\ pc[p] = "copy" /\ i[p] < n[p]
  /\ runq' = [runq EXCEPT ![p][Slot(runqtail[p] + i[p])] = runq[p2[p]][Slot(h[p] + i[p])]]
  /\ i' = [i EXCEPT ![p] = @ + 1]
  /\ UNCHANGED <<runnext, runqhead, runqtail, sched_runq, cur, waiting, ready, pc, hand, p2,
                 h, n, chk, throw>>

Grabbed(p) == [k \in 1 .. n[p] |-> runq[p][Slot(runqtail[p] + k - 1)]]

\* Mutant: the batch is taken without the compare.
grabCasBlind(p) ==
  /\ pc[p] = "copy" /\ i[p] = n[p]
  /\ runqhead' = [runqhead EXCEPT ![p2[p]] = Plus(h[p], n[p])]
  /\ Hold(p, Grabbed(p)) /\ Goto(p, "stolen")
  /\ Forget(p)
  /\ UNCHANGED <<runnext, runqtail, runq, sched_runq, cur, waiting, ready, n, chk, throw>>

\* The compare-and-swap that commits the batch.
grabCas(p) ==
  /\ pc[p] = "copy" /\ i[p] = n[p]
  /\ IF runqhead[p2[p]] = h[p]
       THEN /\ runqhead' = [runqhead EXCEPT ![p2[p]] = Plus(@, n[p])]
            /\ Hold(p, Grabbed(p)) /\ Goto(p, "stolen")
       ELSE Goto(p, "steal") /\ UNCHANGED <<runqhead, hand>>
  /\ Forget(p)
  /\ UNCHANGED <<runnext, runqtail, runq, sched_runq, cur, waiting, ready, n, chk, throw>>

\* The ring was empty: runnext, as the last resort, or nothing; then stealWork
\* goes on with another P, or findRunnable starts over.
grabNext(p) ==
  /\ pc[p] = "grabNext"
  /\ \/ /\ runnext[p2[p]] # Nil
        /\ runnext' = [runnext EXCEPT ![p2[p]] = Nil]
        /\ runq' = [runq EXCEPT ![p][Slot(runqtail[p])] = runnext[p2[p]]]
        /\ n' = [n EXCEPT ![p] = 1]
        /\ Hold(p, <<runnext[p2[p]]>>) /\ Goto(p, "stolen")
     \/ (Goto(p, "steal") \/ Goto(p, "find")) /\ UNCHANGED <<runnext, runq, n, hand>>
  /\ Forget(p)
  /\ UNCHANGED <<runqhead, runqtail, sched_runq, cur, waiting, ready, chk, throw>>

\* runqsteal: the last one is run, runqtail publishes the others.
runqsteal(p) ==
  LET k == n[p] - 1
  IN  /\ pc[p] = "stolen"
      /\ throw' = (throw \/ (k > 0 /\ Sub(runqtail[p], runqhead[p]) + k >= Len256))
      /\ Execute(p, runq[p][Slot(runqtail[p] + k)])
      /\ runqtail' = [runqtail EXCEPT ![p] = Plus(@, k)]
      /\ Hold(p, <<>>)
      /\ n' = [n EXCEPT ![p] = 0]
      /\ UNCHANGED <<runnext, runqhead, runq, sched_runq, waiting, ready, p2, h, i, chk>>

-----------------------------------------------------------------------------
(* runqempty, called by checkRunqsNoP without a P.                         *)

Quiet == <<ringVars, sched_runq, cur, waiting, ready, pc, hand, thiefVars, throw>>

runqempty(p) ==
  /\ chk.at = "out" /\ chk.calls > 0 /\ pc[p] # "idle"
  /\ chk' = [chk EXCEPT !.at = "tail", !.p = p, !.head = runqhead[p], !.calls = @ - 1]
  /\ UNCHANGED Quiet

emptyTail ==
  /\ chk.at = "tail"
  /\ chk' = [chk EXCEPT !.at = "next", !.tail = runqtail[chk.p]]
  /\ UNCHANGED Quiet

emptyNext ==
  /\ chk.at = "next"
  /\ chk' = [chk EXCEPT !.at = "again", !.next = runnext[chk.p]]
  /\ UNCHANGED Quiet

Verdict(c) == IF c.head = c.tail /\ c.next = Nil THEN "empty" ELSE "work"

\* Mutant: runqtail is not loaded again.
emptyOnce ==
  /\ chk.at = "again"
  /\ chk' = [chk EXCEPT !.at = Verdict(chk)]
  /\ UNCHANGED Quiet

emptyAgain ==
  /\ chk.at = "again"
  /\ chk' = IF chk.tail = runqtail[chk.p] THEN [chk EXCEPT !.at = Verdict(chk)]
                                          ELSE [chk EXCEPT !.at = "tail", !.head = runqhead[chk.p]]
  /\ UNCHANGED Quiet

emptyReturn ==
  /\ chk.at \in {"empty", "work"}
  /\ chk' = [Idle EXCEPT !.calls = chk.calls]
  /\ UNCHANGED Quiet

Check == (\E p \in P : runqempty(p)) \/ emptyTail \/ emptyNext \/ emptyAgain \/ emptyReturn

Run(p) ==
  \/ \E g \in G, next \in BOOLEAN : runqput(p, g, next)
  \/ runqputStore(p) \/ runqputTail(p) \/ runqputslow(p) \/ globrunqputbatch(p)
  \/ park(p) \/ goschedImpl(p) \/ runqgetNext(p) \/ runqget(p) \/ globrunqget(p)
  \/ globrunqgetbatch(p) \/ runqputbatch(p) \/ runqputbatchTail(p)
  \/ runqdrainNext(p) \/ runqdrain(p)
  \/ (\E q \in P : grabHead(p, q)) \/ grabTail(p) \/ grabCopy(p) \/ grabCas(p) \/ grabNext(p)
  \/ runqsteal(p)

Empty(p) == runqhead[p] = runqtail[p] /\ runnext[p] = Nil

Next == /\ (\E p \in P : Run(p)) \/ Check
        /\ seen' = (chk'.at # "out" /\ (seen \/ \E p \in P : chk'.p = p /\ Empty(p)'))

Spec == Init /\ [][Next]_vars

-----------------------------------------------------------------------------
(* Properties.                                                             *)

\* The places g is in.
Places(g) ==
  LET In(q) == {k \in DOMAIN q : q[k] = g}
  IN  (IF g \in waiting THEN {<<"waiting">>} ELSE {})
        \cup {<<"global", k>> : k \in In(sched_runq)}
        \cup {<<"runnext", p>> : p \in In(runnext)} \cup {<<"cur", p>> : p \in In(cur)}
        \cup (UNION {{<<"runq", p, k>> : k \in In(Ring(p))} : p \in P})
        \cup (UNION {{<<"hand", p, k>> : k \in In(hand[p])} : p \in P})

\* No goroutine is lost and none is run or queued twice, whoever puts, gets and
\* steals at the same time; none of the throws is reached.
EachOnce == ~throw /\ \A g \in G : Cardinality(Places(g)) = 1

\* runqempty "never returns true spuriously": the queue was empty at one moment
\* of the call, although it looks at three words.
EmptyJustified == chk.at = "empty" => seen

=============================================================================
