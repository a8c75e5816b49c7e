------------------------------ MODULE FDProofs ------------------------------
(***************************************************************************)
(* Safety of module FD, for any number of goroutines, descriptors and      *)
(* pollers: FdAlive, NoThrow, NoLostReady, NoLostCancel and OnTime, from   *)
(* one inductive invariant.  Its parts follow the layers of the code: the  *)
(* words of fdMutex, pd.lock, the words rg and wg, eviction, the timers,   *)
(* and what is yet to be told to a waiter.                                 *)
(***************************************************************************)
EXTENDS FD, FiniteSetTheorems, TLAPS

Labels == {"idle", "rwsleep", "rwlock", "csema",
           "prepare", "reset", "sys", "wait", "block", "recheck", "commit", "parked", "swap",
           "unlock", "setdl", "dlR", "dlW", "evict", "evictR", "evictW", "decref",
           "destroy", "free", "publish", "sysclose"}
Word   == [closed : BOOLEAN, lock : [Mode -> BOOLEAN], refs : Nat, wait : [Mode -> Nat]]
Op     == [kind : {"none", "io", "deadline", "close"}, f : F \cup {None}, modes : SUBSET Mode,
           d : Int]
Timer  == [on : BOOLEAN, modes : SUBSET Mode, seq : Nat, when : Int]
Info   == [closing : BOOLEAN, eventErr : BOOLEAN, expired : SUBSET Mode, seq : Nat]
Event  == [modes : SUBSET Mode, err : BOOLEAN, tag : Nat]
Sysfd  == {"new", "open", "closed", "bad"}

\* The state of the goroutines and descriptors, and that of the poller.
TypeFd ==
  /\ fdmu \in [F -> Word] /\ pc \in [G -> Labels] /\ op \in [G -> Op]
  /\ sysfd \in [F -> Sysfd] /\ owner \in F \cup {None}

TypePoll ==
  /\ gpp \in [Mode -> {"nil", "ready", "wait"} \cup G]
  /\ info \in Info /\ fdseq \in Nat /\ closing \in BOOLEAN
  /\ dl \in [Mode -> Int] /\ run \in [Mode -> BOOLEAN] /\ seq \in [Mode -> Nat]
  /\ timer \in [Mode -> Timer] /\ fired \in SUBSET Timer
  /\ pdlock \in G \cup {None, "timer"} /\ cb \in {"none", "r", "rw", "expireW", "w"}
  /\ unblocked \in SUBSET G
  /\ ev \in [Poller -> Event]
  /\ npc \in [Poller -> {"wait", "check", "err", "readyR", "readyW"}]
  /\ avail \in SUBSET Mode /\ edge \in SUBSET (Mode \cup {"err"}) /\ reg \in Nat

-----------------------------------------------------------------------------
(* The invariant.                                                          *)

Using(g)  == InIO(g) \/ InMisc(g)
Active(g) == Using(g) \/ Destroying(g)
Asleep(g) == pc[g] \in {"rwsleep", "rwlock"}
Users(f)  == {g \in G : Using(g) /\ op[g].f = f}

\* fdMutex: its word counts the users of the descriptor, its locks have one
\* holder each, and only the last user destroys.
Life ==
  /\ \A g \in G : Active(g) => op[g].f \in F /\ owner = op[g].f
  /\ \A g \in G : Asleep(g) => op[g].f \in F /\ sysfd[op[g].f] \in {"open", "closed"}
  /\ \A f \in F : owner = f <=> sysfd[f] = "open"
  /\ \A f \in F : sysfd[f] = "closed" => fdmu[f].closed
  /\ \A f \in F : sysfd[f] = "new" => ~fdmu[f].closed
  /\ \A f \in F : fdmu[f].refs = Cardinality(Users(f))
  /\ \A g \in G : InIO(g) => fdmu[op[g].f].lock[ModeOf(g)]
  /\ \A g, h \in G : InIO(g) /\ InIO(h) /\ ModeOf(g) = ModeOf(h) => g = h
  /\ \A g \in G : Destroying(g) => fdmu[op[g].f].closed /\ fdmu[op[g].f].refs = 0
  /\ \A g, h \in G : Destroying(g) /\ Destroying(h) => g = h

\* pd.lock has one owner.
Locked ==
  /\ \A g \in G : pc[g] \in {"dlR", "dlW", "evictR", "evictW", "publish"} <=> pdlock = g
  /\ cb # "none" <=> pdlock = "timer"

\* Who is in rg or wg, or about to be; and whom the owner of pd.lock will ready.
Waiting ==
  /\ \A m \in Mode, g \in G : gpp[m] = g => pc[g] = "parked" /\ ModeOf(g) = m
  /\ \A m \in Mode : gpp[m] = "wait" =>
       \E g \in G : pc[g] \in {"recheck", "commit", "swap"} /\ ModeOf(g) = m
  /\ \A g \in unblocked : pc[g] = "parked" /\ \A m \in Mode : gpp[m] # g

\* Close evicts once, and before anybody destroys.
Evicted ==
  /\ \A g \in G : pc[g] = "evict" => ~closing /\ fdmu[op[g].f].closed
  /\ \A g, h \in G : pc[g] = "evict" /\ pc[h] = "evict" => g = h
  /\ \A g \in G : pc[g] \in {"evictR", "evictW"} => closing
  /\ \A f \in F : owner = f /\ closing => fdmu[f].closed
  /\ \A f \in F : owner = f /\ fdmu[f].closed /\ ~closing => \E g \in G : pc[g] = "evict"

\* The deadline that a call of the timer function c looks at first.
First(c) == IF "r" \in c.modes THEN "r" ELSE "w"

\* A call that will not be ignored is for the deadlines that are set.
Timely(c) ==
  LET m == First(c)
  IN  /\ c.modes # {} /\ c.seq <= seq[m]
      /\ c.seq = seq[m] => /\ ~closing /\ run[m] /\ c.when > 0
                           /\ \A x \in c.modes : dl[x] = c.when

Timers ==
  /\ \A c \in fired : Timely(c)
  /\ \A m \in Mode, c \in Timer : timer[m] = c /\ c.on => First(c) = m /\ Timely(c)
  /\ \A c, d \in fired : First(c) = First(d) /\ c.seq = seq[First(c)] /\ d.seq = c.seq => c = d
  /\ \A c \in fired : timer[First(c)].on /\ timer[First(c)].seq = seq[First(c)] =>
                        c.seq # seq[First(c)]
  /\ dl["r"] > 0 /\ dl["r"] = dl["w"] => ~run["w"]
  /\ cb \in {"rw", "expireW"} => dl["r"] < 0 /\ dl["w"] > 0 /\ ~run["w"]

\* atomicInfo is what was last published, and that is what holds.
Published == info.closing = closing /\ info.expired = {m \in Mode : dl[m] < 0}

\* The file is registered under the current tag until it is destroyed.
Registered ==
  \A f \in F : owner = f /\ (\A g \in G : pc[g] \notin {"free", "publish", "sysclose"}) =>
    reg = fdseq

\* Since the system call said EAGAIN, every edge is a notification, an event on
\* its way, or one the kernel has yet to report.
Told ==
  \A g \in G :
    LET m == ModeOf(g)
    IN  /\ pc[g] \in {"wait", "block", "recheck", "commit", "parked", "swap"}
        /\ m \in avail /\ gpp[m] # "ready"
        => edge \cap {m, "err"} # {} \/ \E p \in Poller : Carries(p, m)

\* g is parked, or will be, unless somebody takes it out of rg or wg.
Parks(g) == \/ pc[g] = "parked" /\ gpp[ModeOf(g)] = g
            \/ pc[g] = "commit" /\ gpp[ModeOf(g)] = "wait"

Cancelled ==
  \A g \in G : Parks(g) /\ (closing \/ dl[ModeOf(g)] < 0) => WillUnblock(ModeOf(g))

FdInv == /\ TypeFd /\ TypePoll /\ Life /\ Locked /\ Waiting /\ Evicted /\ Timers
         /\ Published /\ Registered /\ Told /\ Cancelled /\ ~throw

-----------------------------------------------------------------------------
(* What keeps each part.                                                   *)

IOs    == {"prepare", "reset", "sys", "wait", "block", "recheck", "commit", "parked", "swap",
           "unlock"}
Miscs  == {"setdl", "dlR", "dlW", "evict", "evictR", "evictW", "decref"}
Destrs == {"destroy", "free", "publish", "sysclose"}

\* Every goroutine stays in the part of the operation it is in.
Within == \A g \in G : \/ pc'[g] = pc[g]
                       \/ pc[g] \in IOs /\ pc'[g] \in IOs
                       \/ pc[g] \in Miscs /\ pc'[g] \in Miscs
                       \/ pc[g] \in Destrs /\ pc'[g] \in Destrs

LEMMA LifeKept ==
  ASSUME Life, UNCHANGED <<fdmu, op, sysfd, owner>>, Within
  PROVE  Life'
<1>1. \A g \in G : /\ InIO(g)' <=> InIO(g)
                   /\ InMisc(g)' <=> InMisc(g)
                   /\ Destroying(g)' <=> Destroying(g)
                   /\ Asleep(g)' <=> Asleep(g)
                   /\ ModeOf(g)' = ModeOf(g)
  BY DEF Within, IOs, Miscs, Destrs, InIO, InMisc, Destroying, Asleep, ModeOf
<1>2. \A g \in G : (Using(g)' <=> Using(g)) /\ (Active(g)' <=> Active(g))
  BY <1>1 DEF Using, Active
<1>3. \A f \in F : Users(f)' = Users(f)
  BY <1>2 DEF Users
<1>4. \A f \in F : fdmu'[f].refs = Cardinality(Users(f)')
  BY <1>3 DEF Life
<1> QED BY <1>1, <1>2, <1>4 DEF Life

LEMMA LockedKept ==
  ASSUME Locked, UNCHANGED <<pdlock, cb>>,
         \A g \in G : pc'[g] \in {"dlR", "dlW", "evictR", "evictW", "publish"} <=>
                        pc[g] \in {"dlR", "dlW", "evictR", "evictW", "publish"}
  PROVE  Locked'
BY DEF Locked

LEMMA EvictedKept ==
  ASSUME Evicted, UNCHANGED <<closing, fdmu, owner, op>>,
         \A g \in G : pc'[g] = "evict" <=> pc[g] = "evict",
         \A g \in G : pc'[g] \in {"evictR", "evictW"} => pc[g] \in {"evictR", "evictW"}
  PROVE  Evicted'
BY DEF Evicted

LEMMA TimersKept ==
  ASSUME Timers, UNCHANGED <<fired, timer, seq, run, dl, closing, cb>>
  PROVE  Timers'
BY DEF Timers, Timely, First

LEMMA PublishedKept ==
  ASSUME Published, UNCHANGED <<info, closing, dl>>
  PROVE  Published'
BY DEF Published

LEMMA RegisteredKept ==
  ASSUME Registered, UNCHANGED <<owner, reg, fdseq>>,
         \A g \in G : pc[g] \in {"free", "publish", "sysclose"} =>
                        pc'[g] \in {"free", "publish", "sysclose"}
  PROVE  Registered'
BY DEF Registered

\* Past the system call.
Waits == {"wait", "block", "recheck", "commit", "parked", "swap"}

LEMMA ToldKept ==
  ASSUME Told, UNCHANGED <<avail, edge, ev, npc, fdseq, op>>,
         \A g \in G : pc'[g] \in Waits => pc[g] \in Waits,
         \A m \in Mode : gpp'[m] = "ready" <=> gpp[m] = "ready"
  PROVE  Told'
<1>1. \A p \in Poller, m \in Mode : Carries(p, m)' <=> Carries(p, m)
  BY DEF Carries
<1>2. \A g \in G : ModeOf(g)' = ModeOf(g) /\ ModeOf(g) \in Mode
  BY DEF ModeOf, Mode
<1> QED BY <1>1, <1>2 DEF Told, Waits

LEMMA CancelledKept ==
  ASSUME Cancelled, UNCHANGED <<closing, dl, cb, op>>,
         \A g \in G : Parks(g)' => Parks(g),
         \A g \in G : pc[g] \in {"dlR", "dlW", "evictR", "evictW"} => pc'[g] = pc[g]
  PROVE  Cancelled'
<1>1. \A g \in G : ModeOf(g)' = ModeOf(g) /\ ModeOf(g) \in Mode
  BY DEF ModeOf, Mode
<1>2. \A m \in Mode : WillUnblock(m) => WillUnblock(m)'
  BY DEF WillUnblock
<1> QED BY <1>1, <1>2 DEF Cancelled

-----------------------------------------------------------------------------
(* Consequences.                                                           *)

\* One goroutine reads and one writes.
LEMMA OneEach ==
  ASSUME Life, NEW g \in G, NEW h \in G, pc[g] \in IOs, pc[h] \in IOs, ModeOf(g) = ModeOf(h)
  PROVE  g = h
BY DEF Life, InIO, IOs

\* Nobody uses what is being destroyed.
LEMMA NoUser ==
  ASSUME Life, NEW g \in G, Destroying(g), NEW h \in G
  PROVE  ~Using(h)
<1> SUFFICES ASSUME Using(h)
             PROVE  FALSE
  OBVIOUS
<1>1. op[h].f = op[g].f /\ op[g].f \in F
  BY DEF Life, Active
<1>2. h \in Users(op[g].f) /\ Users(op[g].f) \in SUBSET G
  BY <1>1 DEF Users
<1>3. IsFiniteSet(Users(op[g].f)) /\ Cardinality(Users(op[g].f)) = 0
  BY <1>1, <1>2, FS_Subset, OpsAssumption DEF Life
<1> QED BY <1>2, <1>3, FS_EmptySet

\* Whom the owner of pd.lock, or a poller, readies.
LEMMA BlockedParked ==
  ASSUME Waiting, NEW m \in Mode
  PROVE  \A h \in Blocked(m) : h \in G /\ pc[h] = "parked" /\ ModeOf(h) = m
BY DEF Waiting, Blocked

-----------------------------------------------------------------------------
(* Steps of a goroutine that reads or writes.                              *)

\* It looks for an error.
LEMMA CheckKeeps ==
  ASSUME FdInv, NEW g \in G, pollReset(g) \/ pollWait(g) \/ netpollRecheck(g),
         UNCHANGED Outside
  PROVE  FdInv'
<1>0. /\ TypeFd /\ TypePoll /\ Life /\ Locked /\ Waiting /\ Evicted /\ Timers
      /\ Published /\ Registered /\ Told /\ Cancelled /\ ~throw
  BY DEF FdInv
<1>1. /\ UNCHANGED <<gpp, info, fdseq, closing, dl, run, seq, timer, fired, pdlock, cb, unblocked,
                     ev, npc, op, throw>>
      /\ UNCHANGED <<fdmu, sysfd, owner, avail, edge, reg>>
  BY DEF pollReset, pollWait, netpollRecheck, pollVars, Outside, fdmuVars, fileVars, kernelVars
<1>2. PICK l \in Labels :
        /\ pc' = [pc EXCEPT ![g] = l]
        /\ \/ pc[g] = "prepare" /\ l \in {"reset", "unlock"}
           \/ pc[g] = "wait" /\ l \in {"block", "unlock"}
           \/ pc[g] = "recheck" /\ l = "swap"
           \/ pc[g] = "recheck" /\ l = "commit" /\ netpollcheckerr(ModeOf(g)) = "none"
  <2>1. CASE pollReset(g)
    BY <2>1 DEF pollReset, Goto, Labels
  <2>2. CASE pollWait(g)
    BY <2>2 DEF pollWait, Goto, Labels
  <2>3. CASE netpollRecheck(g)
    BY <2>3 DEF netpollRecheck, Goto, Labels
  <2> QED BY <2>1, <2>2, <2>3
<1>3. \A h \in G : pc'[h] = IF h = g THEN l ELSE pc[h]
  BY <1>0, <1>2 DEF TypeFd
<1>4. TypeFd' /\ TypePoll'
  BY <1>0, <1>1, <1>2 DEF TypeFd, TypePoll
<1>5. Life'
  <2>1. Within
    BY <1>2, <1>3 DEF Within, IOs
  <2> QED BY <1>0, <1>1, <2>1, LifeKept
<1>6. Locked'
  BY <1>0, <1>1, <1>2, <1>3, LockedKept
<1>7. Waiting'
  <2>1. \A h \in G : ModeOf(h)' = ModeOf(h)
    BY <1>1 DEF ModeOf
  <2> QED BY <1>0, <1>1, <1>2, <1>3, <2>1 DEF Waiting, TypePoll
<1>8. Evicted'
  BY <1>0, <1>1, <1>2, <1>3, EvictedKept
<1>9. Timers' /\ Published'
  BY <1>0, <1>1, TimersKept, PublishedKept
<1>10. Registered'
  BY <1>0, <1>1, <1>2, <1>3, RegisteredKept
<1>11. Told'
  BY <1>0, <1>1, <1>2, <1>3, ToldKept DEF Waits
<1>12. Cancelled'
  <2>1. CASE l # "commit"
    <3>1. \A h \in G : Parks(h)' => Parks(h)
      BY <1>1, <1>2, <1>3, <2>1 DEF Parks, ModeOf
    <3> QED BY <1>0, <1>1, <1>2, <1>3, <3>1, CancelledKept
  <2>2. CASE l = "commit"
    <3>1. \A h \in G : ModeOf(h)' = ModeOf(h) /\ ModeOf(h) \in Mode
      BY <1>1 DEF ModeOf, Mode
    <3>2. ~closing /\ ~(dl[ModeOf(g)] < 0)
      BY <1>0, <1>2, <2>2, <3>1 DEF Published, netpollcheckerr
    <3>3. \A h \in G : h # g => (Parks(h)' => Parks(h))
      BY <1>1, <1>2, <1>3, <3>1 DEF Parks
    <3>4. \A m \in Mode : WillUnblock(m) => WillUnblock(m)'
      BY <1>1, <1>2, <1>3 DEF WillUnblock
    <3> QED BY <1>0, <1>1, <3>1, <3>2, <3>3, <3>4 DEF Cancelled
  <2> QED BY <2>1, <2>2
<1> QED BY <1>0, <1>1, <1>4, <1>5, <1>6, <1>7, <1>8, <1>9, <1>10, <1>11, <1>12 DEF FdInv

\* The value that a goroutine at a notification word finds there.
LEMMA WordOfWaiter ==
  ASSUME FdInv, NEW g \in G, pc[g] \in {"reset", "block", "commit", "swap"}
  PROVE  /\ gpp[ModeOf(g)] \notin G
         /\ gpp[ModeOf(g)] = "wait" => pc[g] \in {"commit", "swap"}
         /\ \A h \in G : h # g /\ pc[h] \in IOs => ModeOf(h) # ModeOf(g)
         /\ ModeOf(g) \in Mode
<1>0. Life /\ Waiting
  BY DEF FdInv
<1>1. ModeOf(g) \in Mode
  BY DEF ModeOf, Mode
<1>2. pc[g] \in IOs
  BY DEF IOs
<1>3. \A h \in G : h # g /\ pc[h] \in IOs => ModeOf(h) # ModeOf(g)
  BY <1>0, <1>2, OneEach
<1>4. gpp[ModeOf(g)] \notin G
  BY <1>0, <1>1, <1>3 DEF Waiting, IOs
<1>5. gpp[ModeOf(g)] = "wait" => pc[g] \in {"commit", "swap"}
  BY <1>0, <1>1, <1>3 DEF Waiting, IOs
<1> QED BY <1>1, <1>3, <1>4, <1>5

\* It reads and writes rg or wg.
LEMMA WaiterKeeps ==
  ASSUME FdInv, NEW g \in G,
         pollResetStore(g) \/ netpollblock(g) \/ netpollblockcommit(g) \/ netpollSwap(g),
         UNCHANGED Outside
  PROVE  FdInv'
<1>0. /\ TypeFd /\ TypePoll /\ Life /\ Locked /\ Waiting /\ Evicted /\ Timers
      /\ Published /\ Registered /\ Told /\ Cancelled /\ ~throw
  BY DEF FdInv
<1> DEFINE m == ModeOf(g)
<1>1. /\ UNCHANGED <<info, fdseq, closing, dl, run, seq, timer, fired, pdlock, cb, unblocked,
                     ev, npc, op>>
      /\ UNCHANGED <<fdmu, sysfd, owner, avail, edge, reg>>
      /\ pc[g] \in {"reset", "block", "commit", "swap"}
  BY DEF pollResetStore, netpollblock, netpollblockcommit, netpollSwap, Outside, fdmuVars,
         fileVars, kernelVars
<1>2. /\ gpp[m] \notin G /\ (gpp[m] = "wait" => pc[g] \in {"commit", "swap"})
      /\ \A h \in G : h # g /\ pc[h] \in IOs => ModeOf(h) # m
      /\ m \in Mode
  BY <1>1, WordOfWaiter
<1>3. PICK l \in Labels, v \in {"nil", "ready", "wait", g} :
        /\ pc' = [pc EXCEPT ![g] = l] /\ gpp' = [gpp EXCEPT ![m] = v] /\ ~throw'
        /\ \/ v = "nil" /\ l = "sys"
           \/ v = "nil" /\ l = "wait" /\ pc[g] = "swap" /\ gpp[m] # "ready"
           \/ v = "wait" /\ l = "recheck" /\ pc[g] = "block" /\ gpp[m] = "nil"
           \/ v = g /\ l = "parked" /\ pc[g] = "commit" /\ gpp[m] = "wait"
           \/ v = gpp[m] /\ l = "swap" /\ pc[g] = "commit" /\ v # "wait"
  <2>0. gpp[m] \in {"nil", "ready", "wait"}
    BY <1>0, <1>2 DEF TypePoll
  <2> HIDE DEF m
  <2>1. CASE pollResetStore(g)
    BY <1>0, <2>1 DEF pollResetStore, Goto, Labels, m
  <2>2. CASE netpollblock(g)
    <3>1. pc[g] = "block" /\ gpp[m] \in {"nil", "ready"}
      BY <1>2, <2>0, <2>2 DEF netpollblock
    <3>2. CASE gpp[m] = "nil"
      BY <1>0, <2>2, <3>1, <3>2 DEF netpollblock, Goto, Labels, m
    <3>3. CASE gpp[m] = "ready"
      BY <1>0, <2>2, <3>1, <3>3 DEF netpollblock, Goto, Labels, m
    <3> QED BY <3>1, <3>2, <3>3
  <2>3. CASE netpollblockcommit(g)
    <3>1. pc[g] = "commit" /\ ~throw'
      BY <1>0, <2>3 DEF netpollblockcommit
    <3>2. CASE gpp[m] = "wait"
      BY <2>3, <3>1, <3>2 DEF netpollblockcommit, Goto, Labels, m
    <3>3. CASE gpp[m] # "wait"
      <4>1. gpp' = gpp /\ pc' = [pc EXCEPT ![g] = "swap"]
        BY <2>3, <3>3 DEF netpollblockcommit, Goto, m
      <4>2. gpp' = [gpp EXCEPT ![m] = gpp[m]]
        BY <1>0, <1>2, <4>1 DEF TypePoll
      <4> QED BY <2>0, <3>1, <3>3, <4>1, <4>2 DEF Labels
    <3> QED BY <3>2, <3>3
  <2>4. CASE netpollSwap(g)
    <3>1. /\ pc[g] = "swap" /\ gpp' = [gpp EXCEPT ![m] = "nil"]
          /\ pc' = [pc EXCEPT ![g] = IF gpp[m] = "ready" THEN "sys" ELSE "wait"]
          /\ throw' = (throw \/ gpp[m] \in G)
      BY <2>4 DEF netpollSwap, Goto, m
    <3>2. ~throw'
      BY <1>0, <1>2, <3>1
    <3> QED BY <3>1, <3>2 DEF Labels
  <2> QED BY <2>1, <2>2, <2>3, <2>4
<1> HIDE DEF m
<1>4. /\ \A h \in G : pc'[h] = IF h = g THEN l ELSE pc[h]
      /\ \A x \in Mode : gpp'[x] = IF x = m THEN v ELSE gpp[x]
      /\ \A h \in G : ModeOf(h)' = ModeOf(h) /\ ModeOf(h) \in Mode
  BY <1>0, <1>1, <1>3 DEF TypeFd, TypePoll, ModeOf, Mode
<1>5. TypeFd' /\ TypePoll'
  BY <1>0, <1>1, <1>3 DEF TypeFd, TypePoll
<1>6. Life'
  <2>1. Within
    BY <1>1, <1>3, <1>4 DEF Within, IOs
  <2> QED BY <1>0, <1>1, <2>1, LifeKept
<1>7. Locked' /\ Evicted' /\ Registered'
  <2>1. /\ \A h \in G : pc'[h] \in {"dlR", "dlW", "evictR", "evictW", "publish"} <=>
                          pc[h] \in {"dlR", "dlW", "evictR", "evictW", "publish"}
        /\ \A h \in G : pc'[h] = "evict" <=> pc[h] = "evict"
        /\ \A h \in G : pc'[h] \in {"evictR", "evictW"} => pc[h] \in {"evictR", "evictW"}
        /\ \A h \in G : pc[h] \in {"free", "publish", "sysclose"} =>
                          pc'[h] \in {"free", "publish", "sysclose"}
    BY <1>1, <1>3, <1>4
  <2> QED BY <1>0, <1>1, <2>1, LockedKept, EvictedKept, RegisteredKept
<1>8. Waiting'
  <2>0. m = ModeOf(g)
    BY DEF m
  <2>1. ASSUME NEW x \in Mode, NEW h \in G, gpp'[x] = h
        PROVE  pc'[h] = "parked" /\ ModeOf(h)' = x
    <3>1. CASE x = m
      <4>1. h = g /\ l = "parked"
        BY <1>2, <1>3, <1>4, <2>1, <3>1, NamesAssumption
      <4> QED BY <1>4, <2>0, <3>1, <4>1
    <3>2. CASE x # m
      <4>1. gpp[x] = h /\ h # g
        BY <1>0, <1>1, <1>4, <2>1, <3>2 DEF Waiting
      <4> QED BY <1>0, <1>4, <4>1 DEF Waiting
    <3> QED BY <3>1, <3>2
  <2>2. ASSUME NEW x \in Mode, gpp'[x] = "wait"
        PROVE  \E h \in G : pc'[h] \in {"recheck", "commit", "swap"} /\ ModeOf(h)' = x
    <3>1. CASE x = m
      BY <1>2, <1>3, <1>4, <2>0, <2>2, <3>1, NamesAssumption
    <3>2. CASE x # m
      BY <1>0, <1>4, <2>0, <2>2, <3>2 DEF Waiting
    <3> QED BY <3>1, <3>2
  <2>3. ASSUME NEW h \in unblocked'
        PROVE  pc'[h] = "parked" /\ \A x \in Mode : gpp'[x] # h
    <3>1. h \in G /\ h # g
      BY <1>0, <1>1 DEF Waiting, TypePoll
    <3>2. v # h
      BY <1>2, <1>3, <3>1, NamesAssumption
    <3> QED BY <1>0, <1>1, <1>4, <3>1, <3>2 DEF Waiting
  <2> QED BY <2>1, <2>2, <2>3 DEF Waiting
<1>9. Timers' /\ Published'
  BY <1>0, <1>1, TimersKept, PublishedKept
<1>10. Told'
  <2>1. \A p \in Poller, x \in Mode : Carries(p, x)' <=> Carries(p, x)
    BY <1>1 DEF Carries
  <2> SUFFICES ASSUME NEW h \in G, pc'[h] \in Waits, ModeOf(h) \in avail,
                      gpp'[ModeOf(h)] # "ready"
               PROVE  edge \cap {ModeOf(h), "err"} # {} \/ \E p \in Poller : Carries(p, ModeOf(h))
    BY <1>1, <1>4, <2>1 DEF Told, Waits
  <2>2. pc[h] \in Waits /\ gpp[ModeOf(h)] # "ready"
    <3>1. CASE h = g
      BY <1>1, <1>3, <1>4, <3>1 DEF Waits, m
    <3>2. CASE h # g
      <4>1. pc'[h] = pc[h] /\ ModeOf(h) # m
        BY <1>2, <1>4, <3>2 DEF Waits, IOs
      <4> QED BY <1>4, <4>1
    <3> QED BY <3>1, <3>2
  <2> QED BY <1>0, <2>2 DEF Told, Waits
<1>11. Cancelled'
  <2>1. ASSUME NEW h \in G, Parks(h)'
        PROVE  Parks(h)
    <3>1. CASE h = g
      BY <1>2, <1>3, <1>4, <2>1, <3>1 DEF Parks, m
    <3>2. CASE h # g
      <4>1. pc'[h] = pc[h] /\ pc[h] \in IOs
        BY <1>4, <2>1, <3>2 DEF Parks, IOs
      <4>2. ModeOf(h) # m
        BY <1>2, <3>2, <4>1
      <4> QED BY <1>4, <2>1, <4>1, <4>2 DEF Parks
    <3> QED BY <3>1, <3>2
  <2> QED BY <1>0, <1>1, <1>3, <1>4, <2>1, CancelledKept
<1> QED BY <1>0, <1>3, <1>5, <1>6, <1>7, <1>8, <1>9, <1>10, <1>11 DEF FdInv

-----------------------------------------------------------------------------
(* Taking goroutines out of rg and wg.                                     *)

\* The step readies R, and may move others inside SetDeadline or Close; it
\* keeps the rest of whom it took out of mode m in unblocked.
Released(R, m) ==
  /\ R \subseteq unblocked \cup Blocked(m)
  /\ \A h \in R : pc'[h] = "swap"
  /\ \A h \in G \ R : pc'[h] = pc[h] \/ (pc[h] \in Miscs /\ pc'[h] \in Miscs)
  /\ unblocked' \subseteq (unblocked \cup Blocked(m)) \ R

LEMMA UnblockFacts ==
  ASSUME TypeFd, TypePoll, Waiting, UNCHANGED op,
         NEW m \in Mode, NEW b \in BOOLEAN, Unblock(m, b), NEW R, Released(R, m)
  PROVE  /\ Waiting' /\ Within
         /\ gpp' \in [Mode -> {"nil", "ready", "wait"} \cup G] /\ unblocked' \in SUBSET G
         /\ \A h \in G : Parks(h)' => Parks(h) /\ ModeOf(h) # m
         /\ \A h \in G : pc'[h] \in Waits => pc[h] \in Waits
         /\ \A x \in Mode : gpp'[x] = "ready" <=> gpp[x] = "ready" \/ (b /\ x = m)
         /\ \A h \in R : h \in G /\ pc[h] = "parked"
<1> DEFINE v == IF gpp[m] = "ready" \/ b THEN "ready" ELSE "nil"
<1>1. gpp' = [gpp EXCEPT ![m] = v]
  BY DEF Unblock
<1>2. \A x \in Mode : gpp'[x] = IF x = m THEN v ELSE gpp[x]
  BY <1>1 DEF TypePoll
<1>3. \A h \in G : ModeOf(h)' = ModeOf(h)
  BY DEF ModeOf
<1>4. \A h \in unblocked \cup Blocked(m) : /\ h \in G /\ pc[h] = "parked"
                                           /\ \A x \in Mode : x # m => gpp[x] # h
  <2>1. \A h \in unblocked : h \in G /\ pc[h] = "parked" /\ \A x \in Mode : gpp[x] # h
    BY DEF Waiting, TypePoll
  <2>2. \A h \in Blocked(m) : h \in G /\ pc[h] = "parked" /\ ModeOf(h) = m
    BY BlockedParked
  <2>3. \A h \in Blocked(m), x \in Mode : x # m => gpp[x] # h
    BY <2>2 DEF Waiting
  <2> QED BY <2>1, <2>2, <2>3
<1>5. \A h \in R : h \in G /\ pc[h] = "parked" /\ \A x \in Mode : x # m => gpp[x] # h
  BY <1>4 DEF Released
<1>6. \A h \in G \ R : pc[h] \in IOs \/ pc'[h] \in IOs => pc'[h] = pc[h]
  BY DEF Released, Miscs, IOs
<1>7. Within
  BY <1>5 DEF Within, Released, IOs
<1>8. v \notin G /\ v # "wait"
  BY NamesAssumption
<1>9. Waiting'
  <2>1. ASSUME NEW x \in Mode, NEW h \in G, gpp'[x] = h
        PROVE  pc'[h] = "parked" /\ ModeOf(h)' = x
    <3>1. x # m /\ gpp[x] = h /\ h \notin R
      BY <1>2, <1>5, <1>8, <2>1
    <3>2. pc[h] = "parked" /\ ModeOf(h) = x
      BY <3>1 DEF Waiting
    <3> QED BY <1>3, <1>6, <3>1, <3>2 DEF IOs
  <2>2. ASSUME NEW x \in Mode, gpp'[x] = "wait"
        PROVE  \E h \in G : pc'[h] \in {"recheck", "commit", "swap"} /\ ModeOf(h)' = x
    <3>1. gpp[x] = "wait"
      BY <1>2, <1>8, <2>2
    <3>2. PICK h \in G : pc[h] \in {"recheck", "commit", "swap"} /\ ModeOf(h) = x
      BY <3>1 DEF Waiting
    <3>3. h \notin R
      BY <1>5, <3>2
    <3> QED BY <1>3, <1>6, <3>2, <3>3 DEF IOs
  <2>3. ASSUME NEW h \in unblocked'
        PROVE  pc'[h] = "parked" /\ \A x \in Mode : gpp'[x] # h
    <3>1. h \in unblocked \cup Blocked(m) /\ h \notin R
      BY <2>3 DEF Released
    <3>2. h \in G /\ pc[h] = "parked"
      BY <1>4, <3>1
    <3>3. pc'[h] = "parked"
      BY <1>6, <3>1, <3>2 DEF IOs
    <3> QED BY <1>2, <1>4, <1>8, <3>1, <3>2, <3>3
  <2> QED BY <2>1, <2>2, <2>3 DEF Waiting
<1>10. ASSUME NEW h \in G, Parks(h)'
       PROVE  Parks(h) /\ ModeOf(h) # m
  <2>1. h \notin R /\ pc'[h] \in IOs
    BY <1>10 DEF Parks, Released, IOs
  <2>2. pc'[h] = pc[h]
    BY <1>6, <2>1
  <2>3. ModeOf(h) \in Mode
    BY DEF ModeOf, Mode
  <2> QED BY <1>2, <1>3, <1>8, <1>10, <2>2, <2>3 DEF Parks
<1>11. ASSUME NEW h \in G, pc'[h] \in Waits
       PROVE  pc[h] \in Waits
  <2>1. CASE h \in R
    BY <1>5, <2>1 DEF Waits
  <2>2. CASE h \notin R
    BY <1>6, <1>11, <2>2 DEF Waits, IOs
  <2> QED BY <2>1, <2>2
<1>12. \A x \in Mode : gpp'[x] = "ready" <=> gpp[x] = "ready" \/ (b /\ x = m)
  BY <1>2
<1>13. gpp' \in [Mode -> {"nil", "ready", "wait"} \cup G]
  BY <1>1 DEF TypePoll
<1>14. unblocked' \in SUBSET G
  BY <1>4 DEF Released
<1> QED BY <1>5, <1>7, <1>9, <1>10, <1>11, <1>12, <1>13, <1>14

\* Who will unblock, if a goroutine, the timer function or nobody has pd.lock.
LEMMA HolderG ==
  ASSUME Locked, NEW g \in G, pc[g] \in {"dlR", "dlW", "evictR", "evictW"}, NEW m \in Mode,
         WillUnblock(m)
  PROVE  \/ pc[g] = "evictR" \/ (pc[g] = "evictW" /\ m = "w")
         \/ dl[m] < 0 /\ (pc[g] = "dlR" \/ (pc[g] = "dlW" /\ m = "w"))
<1>1. pdlock = g /\ cb = "none"
  BY NamesAssumption DEF Locked
<1>2. \A h \in G : pc[h] \in {"dlR", "dlW", "evictR", "evictW"} => h = g
  BY <1>1 DEF Locked
<1> QED BY <1>1, <1>2 DEF WillUnblock

LEMMA HolderT ==
  ASSUME Locked, cb # "none", NEW m \in Mode, WillUnblock(m)
  PROVE  (m = "r" /\ cb \in {"r", "rw"}) \/ (m = "w" /\ cb = "w")
<1>1. \A h \in G : pc[h] \notin {"dlR", "dlW", "evictR", "evictW"}
  BY NamesAssumption DEF Locked
<1> QED BY <1>1 DEF WillUnblock

LEMMA HolderNone ==
  ASSUME Locked, pdlock = None, NEW m \in Mode
  PROVE  ~WillUnblock(m) /\ cb = "none"
<1>1. /\ \A h \in G : pc[h] \notin {"dlR", "dlW", "evictR", "evictW"}
      /\ cb = "none"
  BY NamesAssumption DEF Locked
<1> QED BY <1>1 DEF WillUnblock

\* What every step under pd.lock that unblocks mode m keeps.
LEMMA UnblockCommon ==
  ASSUME FdInv, UNCHANGED <<op, fdmu, sysfd, owner, avail, edge, reg, info, fdseq, closing, dl,
                            ev, npc>>,
         pc' \in [G -> Labels], \A h \in G : pc'[h] = "evict" <=> pc[h] = "evict",
         \A h \in G : pc'[h] \in {"evictR", "evictW"} => pc[h] \in {"evictR", "evictW"},
         NEW m \in Mode, Unblock(m, FALSE), NEW R, Released(R, m)
  PROVE  /\ TypeFd' /\ Life' /\ Waiting' /\ Evicted' /\ Published' /\ Registered' /\ Told'
         /\ gpp' \in [Mode -> {"nil", "ready", "wait"} \cup G] /\ unblocked' \in SUBSET G
         /\ \A h \in G : Parks(h)' => Parks(h) /\ ModeOf(h) # m
         /\ \A h \in R : h \in G /\ pc[h] = "parked"
<1>0. TypeFd /\ TypePoll /\ Life /\ Waiting /\ Evicted /\ Published /\ Registered /\ Told
  BY DEF FdInv
<1>1. /\ Waiting' /\ Within
      /\ gpp' \in [Mode -> {"nil", "ready", "wait"} \cup G] /\ unblocked' \in SUBSET G
      /\ \A h \in G : Parks(h)' => Parks(h) /\ ModeOf(h) # m
      /\ \A h \in G : pc'[h] \in Waits => pc[h] \in Waits
      /\ \A x \in Mode : gpp'[x] = "ready" <=> gpp[x] = "ready"
      /\ \A h \in R : h \in G /\ pc[h] = "parked"
  BY <1>0, UnblockFacts
<1>2. TypeFd'
  BY <1>0 DEF TypeFd
<1>3. Life'
  BY <1>0, <1>1, LifeKept
<1>4. Evicted'
  BY <1>0, EvictedKept
<1>5. Registered'
  <2>1. \A h \in G : pc[h] \in {"free", "publish", "sysclose"} =>
                       pc'[h] \in {"free", "publish", "sysclose"}
    BY <1>1 DEF Released, Miscs
  <2> QED BY <1>0, <2>1, RegisteredKept
<1>6. Told'
  BY <1>0, <1>1, ToldKept
<1> QED BY <1>0, <1>1, <1>2, <1>3, <1>4, <1>5, <1>6, PublishedKept

\* SetDeadline and Close hold pd.lock, unblock mode m, and go on at l: with the
\* lock, or after having released it.
LEMMA HolderStep ==
  ASSUME FdInv, UNCHANGED <<op, fdmu, sysfd, owner, avail, edge, reg, info, fdseq, closing, dl,
                            ev, npc, cb, seq, fired, throw>>,
         NEW g \in G, NEW m \in Mode, Unblock(m, FALSE),
         pc[g] \in {"dlR", "dlW", "evictR", "evictW"}, NEW l \in {"dlW", "evictW", "decref"},
         l = "evictW" => pc[g] = "evictR",
         \/ /\ l \in {"dlW", "evictW"}
            /\ pc' = [pc EXCEPT ![g] = l] /\ unblocked' = Blocked(m) /\ UNCHANGED pdlock
         \/ /\ l = "decref"
            /\ \/ ReadyAndGoto(Blocked(m), g, l)
               \/ ReadyAndGoto(unblocked \cup Blocked(m), g, l)
            /\ Unlock,
         timer' \in [Mode -> Timer], run' \in [Mode -> BOOLEAN], Timers',
         \A x \in Mode : x # m /\ WillUnblock(x) => WillUnblock(x)'
  PROVE  FdInv'
<1>0. /\ TypeFd /\ TypePoll /\ Life /\ Locked /\ Waiting /\ Evicted /\ Timers
      /\ Published /\ Registered /\ Told /\ Cancelled /\ ~throw
  BY DEF FdInv
<1>1. \A h \in unblocked \cup Blocked(m) : h \in G /\ pc[h] = "parked"
  BY <1>0, BlockedParked DEF Waiting, TypePoll
<1>2. PICK R : /\ R \subseteq unblocked \cup Blocked(m)
               /\ pc' = [h \in G |-> IF h = g THEN l ELSE IF h \in R THEN "swap" ELSE pc[h]]
               /\ unblocked' \subseteq Blocked(m) \ R
  <2>1. CASE l \in {"dlW", "evictW"}
    <3>1. pc' = [h \in G |-> IF h = g THEN l ELSE IF h \in {} THEN "swap" ELSE pc[h]]
      BY <1>0, <2>1 DEF TypeFd
    <3> QED BY <2>1, <3>1
  <2>2. CASE l = "decref"
    BY <2>2 DEF ReadyAndGoto, Unlock
  <2> QED BY <2>1, <2>2
<1>3. g \notin R
  BY <1>1, <1>2
<1>4. pc' \in [G -> Labels]
  BY <1>0, <1>2 DEF TypeFd, Labels
<1>5. Released(R, m)
  BY <1>1, <1>2, <1>3 DEF Released, Miscs
<1>6. /\ \A h \in G : pc'[h] = "evict" <=> pc[h] = "evict"
      /\ \A h \in G : pc'[h] \in {"evictR", "evictW"} => pc[h] \in {"evictR", "evictW"}
  BY <1>1, <1>2
<1>7. /\ TypeFd' /\ Life' /\ Waiting' /\ Evicted' /\ Published' /\ Registered' /\ Told'
      /\ gpp' \in [Mode -> {"nil", "ready", "wait"} \cup G] /\ unblocked' \in SUBSET G
      /\ \A h \in G : Parks(h)' => Parks(h) /\ ModeOf(h) # m
  BY <1>4, <1>5, <1>6, UnblockCommon
<1>8. TypePoll'
  <2>1. pdlock' \in G \cup {None, "timer"}
    BY <1>0 DEF TypePoll, Unlock
  <2> QED BY <1>0, <1>7, <2>1 DEF TypePoll
<1>9. Locked'
  <2>1. pdlock = g /\ cb = "none"
    BY <1>0, NamesAssumption DEF Locked
  <2>2. \A h \in G : h # g => pc'[h] \notin {"dlR", "dlW", "evictR", "evictW", "publish"}
    BY <1>0, <1>2, <2>1 DEF Locked
  <2>3. pc'[g] = l
    BY <1>2
  <2>4. IF l = "decref" THEN pdlock' = None ELSE pdlock' = g
    BY <2>1 DEF Unlock
  <2> QED BY <2>1, <2>2, <2>3, <2>4, NamesAssumption DEF Locked
<1>10. Cancelled'
  <2>1. \A h \in G : ModeOf(h)' = ModeOf(h) /\ ModeOf(h) \in Mode
    BY DEF ModeOf, Mode
  <2> QED BY <1>0, <1>7, <2>1 DEF Cancelled
<1> QED BY <1>0, <1>7, <1>8, <1>9, <1>10 DEF FdInv

LEMMA EvictKeeps ==
  ASSUME FdInv, NEW g \in G, evictR(g) \/ evictW(g), UNCHANGED Outside
  PROVE  FdInv'
<1>0. TypeFd /\ TypePoll /\ Locked /\ Timers /\ ~throw
  BY DEF FdInv
<1>1. /\ UNCHANGED <<op, fdmu, sysfd, owner, avail, edge, reg, info, fdseq, closing, dl,
                     ev, npc, cb, seq, fired, throw>>
      /\ "r" \in Mode /\ "w" \in Mode
  BY DEF evictR, evictW, Outside, fdmuVars, fileVars, kernelVars, Mode
<1>2. CASE evictR(g)
  <2>1. /\ pc[g] = "evictR" /\ pc' = [pc EXCEPT ![g] = "evictW"] /\ Unblock("r", FALSE)
        /\ unblocked' = Blocked("r") /\ UNCHANGED <<pdlock, timer, run>>
    BY <1>2 DEF evictR, Goto
  <2>2. Timers'
    BY <1>0, <1>1, <2>1, TimersKept
  <2>3. pc'[g] = "evictW"
    BY <1>0, <2>1 DEF TypeFd
  <2>4. \A x \in Mode : x # "r" /\ WillUnblock(x) => WillUnblock(x)'
    BY <2>3 DEF WillUnblock, Mode
  <2>5. timer' \in [Mode -> Timer] /\ run' \in [Mode -> BOOLEAN]
    BY <1>0, <2>1 DEF TypePoll
  <2> QED BY <1>1, <2>1, <2>2, <2>4, <2>5, HolderStep
<1>3. CASE evictW(g)
  <2>1. /\ pc[g] = "evictW" /\ ReadyAndGoto(unblocked \cup Blocked("w"), g, "decref")
        /\ Unblock("w", FALSE) /\ Unlock
        /\ timer' = [m \in Mode |-> IF run[m] THEN Off ELSE timer[m]]
        /\ run' = [m \in Mode |-> FALSE]
    BY <1>3 DEF evictW
  <2>2. closing
    BY <2>1 DEF FdInv, Evicted
  <2>3. Timers'
    BY <1>0, <1>1, <2>1, <2>2 DEF Timers, Timely, First, Off
  <2>4. ~WillUnblock("r")
    BY <1>0, <1>1, <2>1, HolderG
  <2>5. timer' \in [Mode -> Timer] /\ run' \in [Mode -> BOOLEAN]
    BY <1>0, <2>1 DEF TypePoll, Off, Timer
  <2>6. \A x \in Mode : x # "w" /\ WillUnblock(x) => WillUnblock(x)'
    BY <2>4 DEF Mode
  <2> QED BY <1>1, <2>1, <2>3, <2>5, <2>6, HolderStep
<1> QED BY <1>2, <1>3

\* A deadline that has passed already.
LEMMA LateKeeps ==
  ASSUME FdInv, NEW g \in G, setDeadlineR(g) \/ setDeadlineW(g), UNCHANGED Outside
  PROVE  FdInv'
<1>0. TypeFd /\ TypePoll /\ Locked /\ Timers /\ ~throw
  BY DEF FdInv
<1>1. /\ UNCHANGED <<op, fdmu, sysfd, owner, avail, edge, reg, info, fdseq, closing, dl,
                     ev, npc, cb, seq, fired, timer, run, throw>>
      /\ "r" \in Mode /\ "w" \in Mode
  BY DEF setDeadlineR, setDeadlineW, Outside, fdmuVars, fileVars, kernelVars, Mode
<1>2. Timers' /\ timer' \in [Mode -> Timer] /\ run' \in [Mode -> BOOLEAN]
  BY <1>0, <1>1, TimersKept DEF TypePoll
<1>3. CASE setDeadlineR(g) /\ dl["w"] < 0
  <2>1. /\ pc[g] = "dlR" /\ pc' = [pc EXCEPT ![g] = "dlW"] /\ Unblock("r", FALSE)
        /\ unblocked' = Blocked("r") /\ UNCHANGED pdlock
    BY <1>3 DEF setDeadlineR, Goto
  <2>2. pc'[g] = "dlW"
    BY <1>0, <2>1 DEF TypeFd
  <2>3. \A x \in Mode : x # "r" /\ WillUnblock(x) => WillUnblock(x)'
    BY <1>1, <1>3, <2>2 DEF WillUnblock, Mode
  <2> QED BY <1>1, <1>2, <2>1, <2>3, HolderStep
<1>4. CASE setDeadlineR(g) /\ ~(dl["w"] < 0)
  <2>1. /\ pc[g] = "dlR" /\ ReadyAndGoto(Blocked("r"), g, "decref")
        /\ Unblock("r", FALSE) /\ Unlock
    BY <1>4 DEF setDeadlineR
  <2>2. ~WillUnblock("w")
    BY <1>0, <1>1, <1>4, <2>1, HolderG
  <2>3. \A x \in Mode : x # "r" /\ WillUnblock(x) => WillUnblock(x)'
    BY <2>2 DEF Mode
  <2> QED BY <1>1, <1>2, <2>1, <2>3, HolderStep
<1>5. CASE setDeadlineW(g)
  <2>1. /\ pc[g] = "dlW" /\ ReadyAndGoto(unblocked \cup Blocked("w"), g, "decref")
        /\ Unblock("w", FALSE) /\ Unlock
    BY <1>5 DEF setDeadlineW
  <2>2. ~WillUnblock("r")
    BY <1>0, <1>1, <2>1, HolderG
  <2>3. \A x \in Mode : x # "w" /\ WillUnblock(x) => WillUnblock(x)'
    BY <2>2 DEF Mode
  <2> QED BY <1>1, <1>2, <2>1, <2>3, HolderStep
<1> QED BY <1>3, <1>4, <1>5

-----------------------------------------------------------------------------
(* The timers.                                                             *)

\* The timer function unblocks, for a deadline that it has let expire.
LEMMA TimerUnblockKeeps ==
  ASSUME FdInv, deadlineR \/ deadlineW, UNCHANGED Outside
  PROVE  FdInv'
<1>0. /\ TypeFd /\ TypePoll /\ Life /\ Locked /\ Waiting /\ Evicted /\ Timers
      /\ Published /\ Registered /\ Told /\ Cancelled /\ ~throw
  BY DEF FdInv
<1>1. /\ UNCHANGED <<op, fdmu, sysfd, owner, avail, edge, reg, info, fdseq, closing, dl,
                     ev, npc, seq, fired, timer, run, throw>>
      /\ "r" \in Mode /\ "w" \in Mode
  BY DEF deadlineR, deadlineW, Outside, fdmuVars, fileVars, kernelVars, Mode
<1>2. PICK m \in Mode, R \in SUBSET G :
        /\ Unblock(m, FALSE) /\ R \subseteq unblocked \cup Blocked(m)
        /\ pc' = [h \in G |-> IF h \in R THEN "swap" ELSE pc[h]]
        /\ unblocked' \subseteq Blocked(m) \ R
        /\ \/ m = "r" /\ cb = "rw" /\ cb' = "expireW" /\ UNCHANGED pdlock
           \/ m = "r" /\ cb = "r" /\ cb' = "none" /\ pdlock' = None
           \/ m = "w" /\ cb = "w" /\ cb' = "none" /\ pdlock' = None
  <2>0. unblocked \in SUBSET G /\ \A x \in Mode : Blocked(x) \in SUBSET G
    BY <1>0 DEF TypePoll, Blocked
  <2>1. CASE deadlineR /\ cb = "rw"
    <3>1. pc' = [h \in G |-> IF h \in {} THEN "swap" ELSE pc[h]]
      BY <1>0, <2>1 DEF deadlineR, TypeFd
    <3>2. /\ Unblock("r", FALSE) /\ unblocked' = Blocked("r") \ {}
          /\ cb' = "expireW" /\ UNCHANGED pdlock
      BY <2>1 DEF deadlineR
    <3>3. {} \in SUBSET G /\ {} \subseteq unblocked \cup Blocked("r")
      OBVIOUS
    <3> QED BY <1>1, <2>1, <3>1, <3>2, <3>3
  <2>2. CASE deadlineR /\ cb # "rw"
    BY <1>1, <2>0, <2>2 DEF deadlineR, Ready, Unlock
  <2>3. CASE deadlineW
    BY <1>1, <2>0, <2>3 DEF deadlineW, Ready, Unlock
  <2> QED BY <2>1, <2>2, <2>3
<1>3. \A h \in R : h \in G /\ pc[h] = "parked"
  BY <1>0, <1>2, BlockedParked DEF Waiting, TypePoll
<1>4. /\ pc' \in [G -> Labels] /\ Released(R, m)
      /\ \A h \in G : pc'[h] = "evict" <=> pc[h] = "evict"
      /\ \A h \in G : pc'[h] \in {"evictR", "evictW"} => pc[h] \in {"evictR", "evictW"}
  BY <1>0, <1>2, <1>3 DEF TypeFd, Labels, Released
<1>5. /\ TypeFd' /\ Life' /\ Waiting' /\ Evicted' /\ Published' /\ Registered' /\ Told'
      /\ gpp' \in [Mode -> {"nil", "ready", "wait"} \cup G] /\ unblocked' \in SUBSET G
      /\ \A h \in G : Parks(h)' => Parks(h) /\ ModeOf(h) # m
  BY <1>1, <1>2, <1>4, UnblockCommon
<1>6. TypePoll'
  BY <1>0, <1>1, <1>2, <1>5 DEF TypePoll
<1>7. pdlock = "timer"
  BY <1>0, <1>2 DEF Locked
<1>8. Locked'
  <2>1. \A h \in G : pc'[h] \notin {"dlR", "dlW", "evictR", "evictW", "publish"}
    BY <1>0, <1>2, <1>7, NamesAssumption DEF Locked
  <2> QED BY <1>2, <1>7, <2>1, NamesAssumption DEF Locked
<1>9. Timers'
  BY <1>0, <1>1, <1>2 DEF Timers, Timely, First
<1>10. Cancelled'
  <2>1. \A h \in G : ModeOf(h)' = ModeOf(h) /\ ModeOf(h) \in Mode
    BY <1>1 DEF ModeOf, Mode
  <2>2. \A x \in Mode : x # m => ~WillUnblock(x)
    BY <1>0, <1>2, HolderT
  <2> QED BY <1>0, <1>1, <1>5, <2>1, <2>2 DEF Cancelled
<1> QED BY <1>0, <1>1, <1>5, <1>6, <1>8, <1>9, <1>10 DEF FdInv

\* A step that moves no goroutine and leaves rg, wg and the events alone.
LEMMA StillKeeps ==
  ASSUME FdInv, UNCHANGED <<pc, op, gpp, unblocked, fdmu, sysfd, owner, avail, edge, reg, fdseq,
                            closing, ev, npc>>
  PROVE  TypeFd' /\ Life' /\ Waiting' /\ Evicted' /\ Registered' /\ Told'
<1>0. TypeFd /\ Life /\ Waiting /\ Evicted /\ Registered /\ Told
  BY DEF FdInv
<1>1. TypeFd'
  BY <1>0 DEF TypeFd
<1>2. Life'
  BY <1>0, LifeKept DEF Within
<1>3. Waiting'
  BY <1>0 DEF Waiting, ModeOf
<1>4. Evicted' /\ Registered' /\ Told'
  BY <1>0, EvictedKept, RegisteredKept, ToldKept
<1> QED BY <1>1, <1>2, <1>3, <1>4

LEMMA FireKeeps ==
  ASSUME FdInv, NEW m \in Mode, Fire(m)
  PROVE  FdInv'
<1>0. /\ TypeFd /\ TypePoll /\ Life /\ Locked /\ Waiting /\ Evicted /\ Timers
      /\ Published /\ Registered /\ Told /\ Cancelled /\ ~throw
  BY DEF FdInv
<1> DEFINE c == [timer[m] EXCEPT !.on = FALSE]
<1>1. /\ UNCHANGED <<op, fdmu, sysfd, owner, avail, edge, reg, gpp, info, fdseq, closing, dl, run,
                     seq, pdlock, cb, unblocked, ev, npc, pc, throw>>
      /\ timer[m].on /\ timer' = [timer EXCEPT ![m] = Off] /\ fired' = fired \cup {c}
  BY DEF Fire, fireTimer, Outside, fdmuVars, fileVars, kernelVars
<1>2. TypeFd' /\ Life' /\ Waiting' /\ Evicted' /\ Registered' /\ Told'
  BY <1>1, StillKeeps
<1>3. /\ c \in Timer /\ First(c) = m /\ c.seq = timer[m].seq /\ c.modes = timer[m].modes
      /\ c.when = timer[m].when
  <2>1. timer[m] \in Timer
    BY <1>0 DEF TypePoll
  <2>2. /\ c \in Timer /\ c.seq = timer[m].seq /\ c.modes = timer[m].modes
        /\ c.when = timer[m].when
    BY <2>1 DEF Timer
  <2>3. First(timer[m]) = m
    BY <1>0, <1>1, <2>1 DEF Timers
  <2> QED BY <2>2, <2>3 DEF First
<1> HIDE DEF c
<1>4. TypePoll'
  <2>1. Off \in Timer
    BY DEF Off, Timer
  <2> QED BY <1>0, <1>1, <1>3, <2>1 DEF TypePoll
<1>5. Locked' /\ Published' /\ Cancelled'
  BY <1>0, <1>1, LockedKept, PublishedKept, CancelledKept DEF Parks, ModeOf
<1>6. Timers'
  <2>1. \A x \in Mode : timer'[x] = IF x = m THEN Off ELSE timer[x]
    BY <1>0, <1>1 DEF TypePoll
  <2>2. ~Off.on
    BY DEF Off
  <2>3. \A d : Timely(d)' <=> Timely(d)
    BY <1>1 DEF Timely
  <2>4. Timely(c)
    <3>1. timer[m] \in Timer
      BY <1>0 DEF TypePoll
    <3>2. Timely(timer[m])
      BY <1>0, <1>1, <3>1 DEF Timers
    <3> QED BY <1>3, <3>2 DEF Timely, First
  <2>5. \A d \in fired : First(d) = m /\ d.seq = seq[m] => c.seq # seq[m]
    BY <1>0, <1>1, <1>3 DEF Timers
  <2>6. \A d, e \in fired' : First(d) = First(e) /\ d.seq = seq[First(d)] /\ e.seq = d.seq => d = e
    BY <1>0, <1>1, <1>3, <2>5 DEF Timers
  <2>7. \A d \in fired' : timer'[First(d)].on /\ timer'[First(d)].seq = seq[First(d)] =>
                        d.seq # seq[First(d)]
    <3>1. \A d : First(d) \in Mode
      BY DEF First, Mode
    <3> QED BY <1>0, <1>1, <1>3, <2>1, <2>2, <3>1 DEF Timers
  <2>8. \A x \in Mode, d \in Timer : timer'[x] = d /\ d.on => First(d) = x /\ Timely(d)
    BY <1>0, <2>1, <2>2 DEF Timers
  <2>9. \A d \in fired' : Timely(d)
    BY <1>0, <1>1, <2>4 DEF Timers
  <2> QED BY <1>0, <1>1, <2>3, <2>6, <2>7, <2>8, <2>9 DEF Timers, Timely, First
<1> QED BY <1>0, <1>1, <1>2, <1>4, <1>5, <1>6 DEF FdInv

\* The timer function takes pd.lock; its deadline expires, or it is stale.
LEMMA DeadlineStartKeeps ==
  ASSUME FdInv, deadlineStart, UNCHANGED Outside
  PROVE  FdInv'
<1>0. /\ TypeFd /\ TypePoll /\ Life /\ Locked /\ Waiting /\ Evicted /\ Timers
      /\ Published /\ Registered /\ Told /\ Cancelled /\ ~throw
  BY DEF FdInv
<1>1. /\ UNCHANGED <<op, fdmu, sysfd, owner, avail, edge, reg, gpp, fdseq, closing, run,
                     seq, timer, unblocked, ev, npc, pc>>
      /\ pdlock = None
  BY DEF deadlineStart, Outside, fdmuVars, fileVars, kernelVars
<1>2. PICK c \in fired :
        /\ fired' = fired \ {c}
        /\ IF c.seq # seq[First(c)]
             THEN UNCHANGED <<dl, info, pdlock, cb, throw>>
             ELSE /\ Expire(First(c))
                  /\ throw' = (throw \/ dl[First(c)] <= 0 \/ ~run[First(c)])
                  /\ pdlock' = "timer"
                  /\ cb' = IF c.modes = {"r"} THEN "r" ELSE IF First(c) = "r" THEN "rw" ELSE "w"
  BY DEF deadlineStart, First
<1> DEFINE m == First(c)
<1>3. TypeFd' /\ Life' /\ Waiting' /\ Evicted' /\ Registered' /\ Told'
  BY <1>1, StillKeeps
<1>4. m \in Mode /\ c \in Timer /\ c.modes \in SUBSET Mode /\ Timely(c)
  BY <1>0 DEF TypePoll, Timer, Timers, First, Mode
<1>5. CASE c.seq # seq[m]
  <2>1. UNCHANGED <<dl, info, pdlock, cb, throw>> /\ fired' = fired \ {c}
    BY <1>2, <1>5
  <2>2. TypePoll'
    BY <1>0, <1>1, <2>1 DEF TypePoll
  <2>3. Locked' /\ Published' /\ Cancelled'
    BY <1>0, <1>1, <2>1, LockedKept, PublishedKept, CancelledKept DEF Parks, ModeOf
  <2>4. Timers'
    BY <1>0, <1>1, <2>1 DEF Timers, Timely, First
  <2> QED BY <1>0, <1>3, <2>1, <2>2, <2>3, <2>4 DEF FdInv
<1>6. CASE c.seq = seq[m]
  <2>1. /\ dl' = [dl EXCEPT ![m] = -1] /\ publishInfo(closing, dl', fdseq)
        /\ throw' = (throw \/ dl[m] <= 0 \/ ~run[m]) /\ pdlock' = "timer"
        /\ cb' = IF c.modes = {"r"} THEN "r" ELSE IF m = "r" THEN "rw" ELSE "w"
    BY <1>2, <1>6 DEF Expire
  <2>2. /\ run[m] /\ c.when > 0 /\ c.when \in Int /\ \A x \in c.modes : dl[x] = c.when
        /\ c.modes # {} /\ ~closing
    BY <1>4, <1>6 DEF Timely, Timer
  <2>3. m \in c.modes /\ dl[m] > 0
    BY <1>4, <2>2 DEF First, Mode
  <2>4. m = "w" => c.modes = {"w"}
    BY <1>4, <2>2 DEF First, Mode
  <2> HIDE DEF m
  <2>5. ~throw'
    BY <1>0, <1>4, <2>1, <2>2, <2>3 DEF TypePoll
  <2>6. \A x \in Mode : dl'[x] = IF x = m THEN -1 ELSE dl[x]
    BY <1>0, <2>1 DEF TypePoll
  <2>7. Published' /\ info' \in Info
    BY <1>0, <1>1, <1>4, <2>1 DEF Published, publishInfo, TypePoll, Info
  <2>8. TypePoll'
    BY <1>0, <1>1, <1>2, <1>4, <2>1, <2>7 DEF TypePoll
  <2>9. Locked'
    <3>1. \A g \in G : pc'[g] \notin {"dlR", "dlW", "evictR", "evictW", "publish"}
      BY <1>0, <1>1, NamesAssumption DEF Locked
    <3> QED BY <2>1, <3>1, NamesAssumption DEF Locked
  <2>10. Timers'
    <3>1. \A d : d # c /\ (d \in fired \/ \E x \in Mode : d = timer[x] /\ d.on)
                 /\ d.seq = seq[First(d)] => m \notin d.modes
      <4> SUFFICES ASSUME NEW d, d # c, m \in d.modes, d.seq = seq[First(d)],
                          d \in fired \/ \E x \in Mode : d = timer[x] /\ d.on
                   PROVE  FALSE
        OBVIOUS
      <4>1. Timely(d) /\ d.modes \in SUBSET Mode /\ (d \notin fired => timer[First(d)] = d /\ d.on)
        BY <1>0 DEF Timers, TypePoll, Timer
      <4>2. First(d) # m
        <5>1. CASE d \in fired
          BY <1>0, <1>6, <5>1 DEF Timers, m
        <5>2. CASE d \notin fired
          BY <1>0, <1>6, <4>1, <5>2 DEF Timers, m
        <5> QED BY <5>1, <5>2
      <4>3. First(d) = "r" /\ "r" \in d.modes /\ m = "w" /\ "w" \in d.modes
        BY <1>4, <4>1, <4>2 DEF First, Mode
      <4>4. dl["r"] = d.when /\ dl["w"] = d.when /\ d.when > 0
        BY <4>1, <4>3 DEF Timely
      <4>5. ~run["w"]
        BY <1>0, <4>4 DEF Timers
      <4> QED BY <2>2, <4>3, <4>5
    <3>2. \A d : d # c /\ Timely(d) /\ d.modes \in SUBSET Mode
                 /\ (d \in fired \/ \E x \in Mode : d = timer[x] /\ d.on) => Timely(d)'
      BY <1>1, <2>6, <3>1 DEF Timely
    <3>3. \A d \in fired' : Timely(d)'
      BY <1>0, <1>2, <3>2 DEF Timers, TypePoll, Timer
    <3>4. ASSUME NEW x \in Mode, NEW d \in Timer, timer'[x] = d, d.on
          PROVE  First(d) = x /\ Timely(d)'
      <4>1. timer[x] = d /\ Timely(d) /\ d.modes \in SUBSET Mode /\ First(d) = x
        BY <1>0, <1>1, <3>4 DEF Timers, Timer
      <4>2. d # c
        BY <1>0, <1>6, <3>4, <4>1 DEF Timers, m
      <4> QED BY <3>2, <3>4, <4>1, <4>2
    <3>5. cb' \in {"rw", "expireW"} => dl'["r"] < 0 /\ dl'["w"] > 0 /\ ~run'["w"]
      <4> SUFFICES ASSUME cb' = "rw"
                   PROVE  dl'["r"] < 0 /\ dl'["w"] > 0 /\ ~run'["w"]
        BY <2>1
      <4>1. m = "r" /\ "w" \in c.modes /\ "r" \in c.modes
        BY <1>4, <2>1, <2>3, <2>4 DEF Mode
      <4>2. dl["r"] > 0 /\ dl["r"] = dl["w"]
        BY <2>2, <4>1
      <4>3. ~run["w"]
        BY <1>0, <4>2 DEF Timers
      <4> QED BY <1>1, <1>4, <2>6, <4>1, <4>2, <4>3 DEF Mode
    <3>6. dl'["r"] > 0 /\ dl'["r"] = dl'["w"] => ~run'["w"]
      BY <1>0, <1>1, <1>4, <2>6 DEF Timers, Mode
    <3> QED BY <1>0, <1>1, <1>2, <3>3, <3>4, <3>5, <3>6 DEF Timers
  <2>11. Cancelled'
    <3>1. \A g \in G : ModeOf(g)' = ModeOf(g) /\ ModeOf(g) \in Mode /\ (Parks(g)' => Parks(g))
      BY <1>1 DEF ModeOf, Mode, Parks
    <3>2. \A g \in G : Parks(g) => ~closing /\ ~(dl[ModeOf(g)] < 0)
      BY <1>0, <1>1, <3>1, HolderNone DEF Cancelled
    <3>3. WillUnblock(m)'
      BY <1>4, <2>1, <2>4 DEF WillUnblock, Mode
    <3> QED BY <1>1, <2>6, <3>1, <3>2, <3>3 DEF Cancelled
  <2> QED BY <1>3, <2>5, <2>7, <2>8, <2>9, <2>10, <2>11 DEF FdInv
<1> QED BY <1>5, <1>6

\* A timer for both deadlines: the writer's expires too.
LEMMA ExpireWKeeps ==
  ASSUME FdInv, deadlineExpireW, UNCHANGED Outside
  PROVE  FdInv'
<1>0. /\ TypeFd /\ TypePoll /\ Life /\ Locked /\ Waiting /\ Evicted /\ Timers
      /\ Published /\ Registered /\ Told /\ Cancelled /\ ~throw
  BY DEF FdInv
<1>1. /\ UNCHANGED <<op, fdmu, sysfd, owner, avail, edge, reg, gpp, fdseq, closing, run,
                     seq, timer, fired, pdlock, unblocked, ev, npc, pc>>
      /\ cb = "expireW" /\ cb' = "w" /\ throw' = (throw \/ dl["w"] <= 0)
      /\ dl' = [dl EXCEPT !["w"] = -1] /\ publishInfo(closing, dl', fdseq)
      /\ "r" \in Mode /\ "w" \in Mode
  BY DEF deadlineExpireW, Expire, Outside, fdmuVars, fileVars, kernelVars, Mode
<1>2. TypeFd' /\ Life' /\ Waiting' /\ Evicted' /\ Registered' /\ Told'
  BY <1>1, StillKeeps
<1>3. dl["r"] < 0 /\ dl["w"] > 0 /\ ~run["w"]
  BY <1>0, <1>1 DEF Timers
<1>4. ~throw'
  BY <1>0, <1>1, <1>3 DEF TypePoll
<1>5. \A x \in Mode : dl'[x] = IF x = "w" THEN -1 ELSE dl[x]
  BY <1>0, <1>1 DEF TypePoll
<1>6. Published' /\ info' \in Info
  BY <1>0, <1>1 DEF Published, publishInfo, TypePoll, Info
<1>7. TypePoll'
  BY <1>0, <1>1, <1>6 DEF TypePoll
<1>8. Locked'
  BY <1>0, <1>1, NamesAssumption DEF Locked
<1>9. Timers'
  <2>1. \A d : Timely(d) /\ d.modes \in SUBSET Mode => Timely(d)'
    <3> SUFFICES ASSUME NEW d, Timely(d), d.modes \in SUBSET Mode, d.seq = seq[First(d)]
                 PROVE  FALSE
      BY <1>1 DEF Timely
    <3>1. CASE "r" \in d.modes
      <4>1. dl["r"] > 0
        BY <3>1 DEF Timely
      <4> QED BY <1>0, <1>1, <1>3, <4>1 DEF TypePoll
    <3>2. CASE "r" \notin d.modes
      BY <1>3, <3>2 DEF Timely, First
    <3> QED BY <3>1, <3>2
  <2>2. \A d \in fired : Timely(d)'
    BY <1>0, <2>1 DEF Timers, TypePoll, Timer
  <2>3. \A x \in Mode, d \in Timer : timer'[x] = d /\ d.on => First(d) = x /\ Timely(d)'
    BY <1>0, <1>1, <2>1 DEF Timers, Timer
  <2>4. ~(dl'["r"] > 0)
    BY <1>0, <1>1, <1>3, <1>5 DEF TypePoll
  <2> QED BY <1>0, <1>1, <2>2, <2>3, <2>4 DEF Timers
<1>10. Cancelled'
  <2>1. \A g \in G : ModeOf(g)' = ModeOf(g) /\ ModeOf(g) \in Mode /\ (Parks(g)' => Parks(g))
    BY <1>1 DEF ModeOf, Mode, Parks
  <2>2. \A g \in G : Parks(g) => ~closing /\ ~(dl[ModeOf(g)] < 0)
    BY <1>0, <1>1, <2>1, HolderT DEF Cancelled
  <2>3. WillUnblock("w")'
    BY <1>1 DEF WillUnblock
  <2> QED BY <1>1, <1>5, <2>1, <2>2, <2>3 DEF Cancelled
<1> QED BY <1>2, <1>4, <1>6, <1>7, <1>8, <1>9, <1>10 DEF FdInv

-----------------------------------------------------------------------------
(* SetDeadline.                                                            *)

\* A call of the timer function that stays valid keeps its deadline; where the
\* timer is set anew, there is none.
LEMMA SetDeadlineKeeps ==
  ASSUME FdInv, NEW g \in G, pollSetDeadline(g), UNCHANGED Outside
  PROVE  FdInv'
<1>0. /\ TypeFd /\ TypePoll /\ Life /\ Locked /\ Waiting /\ Evicted /\ Timers
      /\ Published /\ Registered /\ Told /\ Cancelled /\ ~throw
  BY DEF FdInv
<1> DEFINE new   == [m \in Mode |-> IF m \in op[g].modes THEN op[g].d ELSE dl[m]]
           combo == new["r"] > 0 /\ new["r"] = new["w"]
           was   == dl["r"] > 0 /\ dl["r"] = dl["w"]
           touch == {m \in Mode : ~run[m] \/ new[m] # dl[m] \/ combo # was}
           arm   == {m \in Mode : new[m] > 0 /\ ~(m = "w" /\ combo)}
           late  == {m \in Mode : new[m] < 0}
<1>1. /\ UNCHANGED <<op, fdmu, sysfd, owner, avail, edge, reg, gpp, fdseq, closing, fired, cb,
                     unblocked, ev, npc, throw>>
      /\ pdlock = None /\ pc[g] = "setdl" /\ "r" \in Mode /\ "w" \in Mode
  BY DEF pollSetDeadline, Outside, fdmuVars, fileVars, kernelVars, Mode
<1>2. PICK l \in {"decref", "dlR", "dlW"} :
        /\ pc' = [pc EXCEPT ![g] = l]
        /\ (l = "decref" /\ UNCHANGED pdlock) \/ (l # "decref" /\ pdlock' = g)
        /\ \/ closing /\ l = "decref" /\ UNCHANGED <<info, dl, run, seq, timer>>
           \/ /\ ~closing /\ dl' = new /\ publishInfo(closing, new, fdseq)
              /\ seq' = NewSeq(new, combo, was)
              /\ run' = [m \in Mode |-> IF m \in touch THEN m \in arm ELSE run[m]]
              /\ timer' = [m \in Mode |->
                     IF m \notin touch THEN timer[m]
                     ELSE IF m \notin arm THEN Off
                     ELSE [on |-> TRUE, modes |-> IF combo THEN Mode ELSE {m},
                           seq |-> seq'[m], when |-> new[m]]]
              /\ l = IF late = {} THEN "decref" ELSE From(late)
  <2> HIDE DEF new, combo, was, touch, arm, late
  <2>1. CASE closing
    <3>1. pc' = [pc EXCEPT ![g] = "decref"] /\ UNCHANGED <<info, dl, run, seq, timer, pdlock>>
      BY <2>1 DEF pollSetDeadline, Goto
    <3> QED BY <2>1, <3>1
  <2>2. CASE ~closing
    <3>1. From(late) \in {"dlR", "dlW"}
      BY DEF From
    <3>2. /\ dl' = new /\ publishInfo(closing, new, fdseq)
          /\ seq' = NewSeq(new, combo, was)
          /\ run' = [m \in Mode |-> IF m \in touch THEN m \in arm ELSE run[m]]
          /\ timer' = [m \in Mode |->
                 IF m \notin touch THEN timer[m]
                 ELSE IF m \notin arm THEN Off
                 ELSE [on |-> TRUE, modes |-> IF combo THEN Mode ELSE {m},
                       seq |-> seq'[m], when |-> new[m]]]
      BY <2>2 DEF pollSetDeadline, new, combo, was, touch, arm
    <3>3. IF late = {} THEN Goto(g, "decref") /\ UNCHANGED pdlock
                       ELSE Goto(g, From(late)) /\ pdlock' = g
      BY <2>2 DEF pollSetDeadline, late, new
    <3>4. CASE late = {}
      BY <2>2, <3>2, <3>3, <3>4 DEF Goto
    <3>5. CASE late # {}
      BY <2>2, <3>1, <3>2, <3>3, <3>5 DEF Goto
    <3> QED BY <3>4, <3>5
  <2> QED BY <2>1, <2>2
<1> HIDE DEF new, combo, was, touch, arm, late
<1>3. \A h \in G : pc'[h] = IF h = g THEN l ELSE pc[h]
  BY <1>0, <1>2 DEF TypeFd
<1>4. TypeFd'
  BY <1>0, <1>1, <1>2 DEF TypeFd, Labels
<1>5. Life'
  <2>1. Within
    BY <1>1, <1>3 DEF Within, Miscs
  <2> QED BY <1>0, <1>1, <2>1, LifeKept
<1>6. Locked'
  <2>1. \A h \in G : pc[h] \notin {"dlR", "dlW", "evictR", "evictW", "publish"}
    BY <1>0, <1>1, NamesAssumption DEF Locked
  <2> QED BY <1>0, <1>1, <1>2, <1>3, <2>1, NamesAssumption DEF Locked
<1>7. Waiting'
  <2>1. \A h \in G : ModeOf(h)' = ModeOf(h)
    BY <1>1 DEF ModeOf
  <2> QED BY <1>0, <1>1, <1>3, <2>1 DEF Waiting, TypePoll
<1>8. Evicted' /\ Registered' /\ Told'
  <2>1. /\ \A h \in G : pc'[h] = "evict" <=> pc[h] = "evict"
        /\ \A h \in G : pc'[h] \in {"evictR", "evictW"} => pc[h] \in {"evictR", "evictW"}
        /\ \A h \in G : pc[h] \in {"free", "publish", "sysclose"} =>
                          pc'[h] \in {"free", "publish", "sysclose"}
        /\ \A h \in G : pc'[h] \in Waits => pc[h] \in Waits
    BY <1>1, <1>3 DEF Waits
  <2> QED BY <1>0, <1>1, <2>1, EvictedKept, RegisteredKept, ToldKept
<1>9. pdlock' \in G \cup {None, "timer"}
  BY <1>0, <1>2 DEF TypePoll
<1>10. CASE closing /\ l = "decref" /\ UNCHANGED <<info, dl, run, seq, timer>>
  <2>1. TypePoll'
    BY <1>0, <1>1, <1>9, <1>10 DEF TypePoll
  <2>2. Timers' /\ Published'
    BY <1>0, <1>1, <1>10, TimersKept, PublishedKept
  <2>3. Cancelled'
    <3>1. \A h \in G : Parks(h)' => Parks(h)
      BY <1>1, <1>3, <1>10 DEF Parks, ModeOf
    <3> QED BY <1>0, <1>1, <1>3, <1>10, <3>1, CancelledKept
  <2> QED BY <1>0, <1>1, <1>4, <1>5, <1>6, <1>7, <1>8, <2>1, <2>2, <2>3 DEF FdInv
<1>11. CASE ~closing /\ dl' = new /\ l = IF late = {} THEN "decref" ELSE From(late)
  <2>1. /\ publishInfo(closing, new, fdseq) /\ seq' = NewSeq(new, combo, was)
        /\ run' = [m \in Mode |-> IF m \in touch THEN m \in arm ELSE run[m]]
        /\ timer' = [m \in Mode |->
               IF m \notin touch THEN timer[m]
               ELSE IF m \notin arm THEN Off
               ELSE [on |-> TRUE, modes |-> IF combo THEN Mode ELSE {m},
                     seq |-> seq'[m], when |-> new[m]]]
    BY <1>2, <1>11
  <2>2. new \in [Mode -> Int]
    <3>1. op[g].d \in Int
      BY <1>0 DEF TypeFd, Op
    <3> QED BY <1>0, <3>1 DEF new, TypePoll
  <2>3. /\ seq' \in [Mode -> Nat]
        /\ \A m \in Mode : seq'[m] >= seq[m]
        /\ \A m \in Mode : seq'[m] = seq[m] => m \notin touch \/ ~run[m]
    BY <1>0, <2>1 DEF NewSeq, TypePoll, touch
  <2>4. timer' \in [Mode -> Timer] /\ run' \in [Mode -> BOOLEAN]
    <3>1. \A m \in Mode : [on |-> TRUE, modes |-> IF combo THEN Mode ELSE {m},
                           seq |-> seq'[m], when |-> new[m]] \in Timer
      BY <2>2, <2>3 DEF Timer
    <3>2. Off \in Timer
      BY DEF Off, Timer
    <3>3. \A m \in Mode : (m \in arm) \in BOOLEAN
      OBVIOUS
    <3> QED BY <1>0, <2>1, <3>1, <3>2, <3>3 DEF TypePoll
  <2>5. Published' /\ info' \in Info
    BY <1>0, <1>1, <1>11, <2>1 DEF Published, publishInfo, TypePoll, Info
  <2>6. TypePoll'
    BY <1>0, <1>1, <1>9, <1>11, <2>2, <2>3, <2>4, <2>5 DEF TypePoll
  <2>7. ASSUME NEW c, Timely(c), c.modes \in SUBSET Mode, c.seq \in Nat, c.seq = seq'[First(c)]
        PROVE  c.seq = seq[First(c)] /\ First(c) \notin touch /\ \A x \in c.modes : new[x] = dl[x]
    <3> DEFINE m == First(c)
    <3>1. m \in Mode /\ m \in c.modes
      BY <2>7 DEF First, Mode, Timely
    <3>2. c.seq = seq[m] /\ seq'[m] = seq[m]
      <4>1. c.seq <= seq[m]
        BY <2>7 DEF Timely
      <4> QED BY <1>0, <2>3, <2>7, <3>1, <4>1 DEF TypePoll
    <3>3. run[m] /\ c.when > 0 /\ \A x \in c.modes : dl[x] = c.when
      BY <2>7, <3>2 DEF Timely
    <3>4. m \notin touch
      BY <2>3, <3>1, <3>2, <3>3
    <3>5. new[m] = dl[m] /\ (combo <=> was)
      BY <3>1, <3>3, <3>4 DEF touch
    <3>6. \A x \in c.modes : new[x] = dl[x]
      <4>1. CASE c.modes = Mode
        <5>1. was
          BY <1>1, <3>3, <4>1 DEF was
        <5>2. combo /\ m = "r"
          BY <3>5, <4>1, <5>1 DEF First, Mode
        <5> QED BY <3>5, <4>1, <5>1, <5>2 DEF combo, was, Mode
      <4>2. CASE c.modes # Mode
        <5>1. \A x \in c.modes : x = m
          BY <2>7, <3>1, <4>2 DEF First, Mode
        <5> QED BY <3>5, <5>1
      <4> QED BY <4>1, <4>2
    <3> QED BY <3>2, <3>4, <3>6
  <2>8. ASSUME NEW c, Timely(c), c.modes \in SUBSET Mode, c.seq \in Nat
        PROVE  Timely(c)'
    <3>1. First(c) \in Mode /\ c.modes # {} /\ c.seq <= seq'[First(c)]
      <4>1. First(c) \in Mode /\ c.modes # {} /\ c.seq <= seq[First(c)]
        BY <2>8 DEF First, Mode, Timely
      <4> QED BY <1>0, <2>3, <2>8, <4>1 DEF TypePoll
    <3>2. CASE c.seq # seq'[First(c)]
      BY <3>1, <3>2 DEF Timely, First
    <3>3. CASE c.seq = seq'[First(c)]
      <4>1. c.seq = seq[First(c)] /\ First(c) \notin touch /\ \A x \in c.modes : new[x] = dl[x]
        BY <2>7, <2>8, <3>3
      <4>2. run[First(c)] /\ c.when > 0 /\ \A x \in c.modes : dl[x] = c.when
        BY <2>8, <4>1 DEF Timely
      <4>3. run'[First(c)]
        BY <2>1, <3>1, <4>1, <4>2
      <4> QED BY <1>1, <1>11, <3>1, <4>1, <4>2, <4>3 DEF Timely, First
    <3> QED BY <3>2, <3>3
  <2>9. Timers'
    <3>1. \A c \in fired : Timely(c) /\ c.modes \in SUBSET Mode /\ c.seq \in Nat /\ First(c) \in Mode
      BY <1>0 DEF Timers, TypePoll, Timer, First, Mode
    <3>2. ASSUME NEW m \in Mode, NEW c \in Timer, timer'[m] = c, c.on
          PROVE  First(c) = m /\ Timely(c)'
      <4>1. c.modes \in SUBSET Mode /\ c.seq \in Nat
        BY DEF Timer
      <4>2. CASE m \notin touch
        <5>1. timer[m] = c
          BY <2>1, <3>2, <4>2
        <5>2. First(c) = m /\ Timely(c)
          BY <1>0, <3>2, <5>1 DEF Timers
        <5> QED BY <2>8, <4>1, <5>2
      <4>3. CASE m \in touch
        <5>1. m \in arm
          BY <2>1, <3>2, <4>3 DEF Off
        <5>2. /\ c.modes = IF combo THEN Mode ELSE {m}
              /\ c.seq = seq'[m] /\ c.when = new[m]
          BY <2>1, <3>2, <4>3, <5>1
        <5>3. new[m] > 0 /\ (combo => m = "r") /\ run'[m]
          BY <2>1, <4>3, <5>1 DEF arm, Mode
        <5>4. First(c) = m
          BY <5>2, <5>3 DEF First, Mode
        <5>5. \A x \in c.modes : new[x] = c.when
          BY <5>2, <5>3 DEF combo, Mode
        <5>6. seq'[m] <= seq'[m]
          BY <2>3
        <5> QED BY <1>1, <1>11, <5>2, <5>3, <5>4, <5>5, <5>6 DEF Timely, First, Mode
      <4> QED BY <4>2, <4>3
    <3>3. ASSUME NEW c \in fired, NEW d \in fired, First(c) = First(d), c.seq = seq'[First(c)],
                 d.seq = c.seq
          PROVE  c = d
      <4>1. c.seq = seq[First(c)]
        BY <2>7, <3>1, <3>3
      <4> QED BY <1>0, <3>3, <4>1 DEF Timers
    <3>4. ASSUME NEW c \in fired, timer'[First(c)].on, timer'[First(c)].seq = seq'[First(c)]
          PROVE  c.seq # seq'[First(c)]
      <4> SUFFICES ASSUME c.seq = seq'[First(c)]
                   PROVE  FALSE
        OBVIOUS
      <4>1. c.seq = seq[First(c)] /\ First(c) \notin touch
        BY <2>7, <3>1
      <4>2. timer'[First(c)] = timer[First(c)]
        BY <2>1, <3>1, <4>1
      <4> QED BY <1>0, <3>4, <4>1, <4>2 DEF Timers
    <3>5. dl'["r"] > 0 /\ dl'["r"] = dl'["w"] => ~run'["w"]
      <4> SUFFICES ASSUME combo
                   PROVE  ~run'["w"]
        BY <1>11 DEF combo
      <4>1. "w" \notin arm
        BY DEF arm
      <4>2. "w" \in touch
        BY <1>0, <1>1 DEF touch, was, Timers
      <4> QED BY <1>1, <2>1, <4>1, <4>2
    <3>6. cb' = "none"
      BY <1>0, <1>1, HolderNone
    <3> QED BY <1>1, <2>8, <3>1, <3>2, <3>3, <3>4, <3>5, <3>6 DEF Timers
  <2>10. Cancelled'
    <3>1. \A h \in G : ModeOf(h)' = ModeOf(h) /\ ModeOf(h) \in Mode
      BY <1>1 DEF ModeOf, Mode
    <3>2. \A m \in Mode : new[m] < 0 => WillUnblock(m)'
      <4> SUFFICES ASSUME NEW m \in Mode, new[m] < 0
                   PROVE  WillUnblock(m)'
        OBVIOUS
      <4>1. m \in late /\ pc'[g] = From(late)
        BY <1>3, <1>11 DEF late
      <4>2. pc'[g] = "dlR" \/ (pc'[g] = "dlW" /\ m = "w")
        BY <4>1 DEF From, Mode
      <4> QED BY <1>11, <4>2 DEF WillUnblock
    <3> QED BY <1>1, <1>11, <3>1, <3>2 DEF Cancelled
  <2> QED BY <1>0, <1>1, <1>4, <1>5, <1>6, <1>7, <1>8, <2>5, <2>6, <2>9, <2>10 DEF FdInv
<1> QED BY <1>2, <1>10, <1>11

-----------------------------------------------------------------------------
(* Close, and the end of the descriptor.                                   *)

\* Close starts to evict: no timer is valid any more.
LEMMA PollUnblockKeeps ==
  ASSUME FdInv, NEW g \in G, pollUnblock(g), UNCHANGED Outside
  PROVE  FdInv'
<1>0. /\ TypeFd /\ TypePoll /\ Life /\ Locked /\ Waiting /\ Evicted /\ Timers
      /\ Published /\ Registered /\ Told /\ Cancelled /\ ~throw
  BY DEF FdInv
<1>1. /\ UNCHANGED <<op, fdmu, sysfd, owner, avail, edge, reg, gpp, fdseq, dl, run, timer, fired,
                     cb, unblocked, ev, npc>>
      /\ pdlock = None /\ pc[g] = "evict" /\ pdlock' = g /\ closing' = TRUE
      /\ throw' = (throw \/ closing) /\ seq' = [m \in Mode |-> seq[m] + 1]
      /\ publishInfo(TRUE, dl, fdseq) /\ pc' = [pc EXCEPT ![g] = "evictR"]
  BY DEF pollUnblock, Goto, Outside, fdmuVars, fileVars, kernelVars
<1>2. \A h \in G : pc'[h] = IF h = g THEN "evictR" ELSE pc[h]
  BY <1>0, <1>1 DEF TypeFd
<1>3. TypeFd'
  BY <1>0, <1>1 DEF TypeFd, Labels
<1>4. Life'
  <2>1. Within
    BY <1>1, <1>2 DEF Within, Miscs
  <2> QED BY <1>0, <1>1, <2>1, LifeKept
<1>5. Locked'
  <2>1. \A h \in G : pc[h] \notin {"dlR", "dlW", "evictR", "evictW", "publish"}
    BY <1>0, <1>1, NamesAssumption DEF Locked
  <2> QED BY <1>0, <1>1, <1>2, <2>1, NamesAssumption DEF Locked
<1>6. Waiting'
  <2>1. \A h \in G : ModeOf(h)' = ModeOf(h)
    BY <1>1 DEF ModeOf
  <2> QED BY <1>0, <1>1, <1>2, <2>1 DEF Waiting, TypePoll
<1>7. Evicted' /\ ~throw'
  <2>1. ~closing /\ fdmu[op[g].f].closed /\ op[g].f = owner
    BY <1>0, <1>1 DEF Evicted, Life, Active, Using, InMisc
  <2>2. \A h \in G : pc'[h] # "evict"
    BY <1>0, <1>1, <1>2 DEF Evicted
  <2> QED BY <1>0, <1>1, <2>1, <2>2 DEF Evicted
<1>8. Published' /\ info' \in Info
  BY <1>0, <1>1 DEF Published, publishInfo, TypePoll, Info
<1>9. TypePoll'
  BY <1>0, <1>1, <1>8 DEF TypePoll
<1>10. Timers'
  <2>1. \A c : Timely(c) /\ c.seq \in Nat => Timely(c)' /\ c.seq # seq'[First(c)]
    <3> SUFFICES ASSUME NEW c, Timely(c), c.seq \in Nat
                 PROVE  Timely(c)' /\ c.seq # seq'[First(c)]
      OBVIOUS
    <3>1. First(c) \in Mode /\ c.seq <= seq[First(c)] /\ c.modes # {}
      BY DEF Timely, First, Mode
    <3>2. c.seq <= seq'[First(c)] /\ c.seq # seq'[First(c)]
      BY <1>0, <1>1, <3>1 DEF TypePoll
    <3> QED BY <3>1, <3>2 DEF Timely, First
  <2>2. \A c \in fired : Timely(c)' /\ c.seq # seq'[First(c)]
    BY <1>0, <2>1 DEF Timers, TypePoll, Timer
  <2>3. \A m \in Mode, c \in Timer : timer'[m] = c /\ c.on => First(c) = m /\ Timely(c)'
    BY <1>0, <1>1, <2>1 DEF Timers, Timer
  <2> QED BY <1>0, <1>1, <2>2, <2>3 DEF Timers
<1>11. Registered' /\ Told'
  <2>1. /\ \A h \in G : pc[h] \in {"free", "publish", "sysclose"} =>
                          pc'[h] \in {"free", "publish", "sysclose"}
        /\ \A h \in G : pc'[h] \in Waits => pc[h] \in Waits
    BY <1>1, <1>2 DEF Waits
  <2> QED BY <1>0, <1>1, <2>1, RegisteredKept, ToldKept
<1>12. Cancelled'
  <2>1. pc'[g] = "evictR"
    BY <1>2
  <2> QED BY <2>1 DEF Cancelled, WillUnblock
<1> QED BY <1>3, <1>4, <1>5, <1>6, <1>7, <1>8, <1>9, <1>10, <1>11, <1>12 DEF FdInv

\* Nobody waits, and nobody is about to, while the descriptor is destroyed.
LEMMA NobodyWaits ==
  ASSUME FdInv, NEW g \in G, pc[g] \in Destrs
  PROVE  /\ \A h \in G : pc[h] \notin IOs \cup Miscs
         /\ \A m \in Mode : gpp[m] \in {"nil", "ready"}
         /\ closing
<1>0. TypePoll /\ Life /\ Waiting /\ Evicted
  BY DEF FdInv
<1>1. Destroying(g)
  BY DEF Destroying, Destrs
<1>2. \A h \in G : pc[h] \notin IOs \cup Miscs
  <2>1. \A h \in G : ~Using(h)
    BY <1>0, <1>1, NoUser
  <2> QED BY <2>1 DEF Using, InIO, InMisc, IOs, Miscs
<1>3. \A m \in Mode : gpp[m] \in {"nil", "ready"}
  BY <1>0, <1>2 DEF TypePoll, Waiting, IOs
<1>4. closing
  <2>1. op[g].f \in F /\ owner = op[g].f /\ fdmu[op[g].f].closed
    BY <1>0, <1>1 DEF Life, Active
  <2> QED BY <1>0, <1>2, <2>1 DEF Evicted, Miscs
<1> QED BY <1>2, <1>3, <1>4

LEMMA DestroyKeeps ==
  ASSUME FdInv, NEW g \in G,
         destroy(g) \/ ((pollFree(g) \/ pollFreePublish(g)) /\ UNCHANGED Outside)
  PROVE  FdInv'
<1>0. /\ TypeFd /\ TypePoll /\ Life /\ Locked /\ Waiting /\ Evicted /\ Timers
      /\ Published /\ Registered /\ Told /\ Cancelled /\ ~throw
  BY DEF FdInv
<1>1. /\ UNCHANGED <<op, fdmu, sysfd, owner, avail, gpp, closing, dl, run, seq, timer, fired,
                     cb, ev, npc>>
      /\ pc[g] \in {"destroy", "free", "publish"}
  BY DEF destroy, pollClose, pollFree, pollFreePublish, pollVars, Outside, fdmuVars, fileVars,
         kernelVars
<1>2. /\ \A h \in G : pc[h] \notin IOs \cup Miscs
      /\ \A m \in Mode : gpp[m] \in {"nil", "ready"}
      /\ closing
  BY <1>1, NobodyWaits DEF Destrs
<1>3. PICK l \in {"free", "publish", "sysclose"} :
        /\ pc' = [pc EXCEPT ![g] = l]
        /\ \/ /\ pc[g] = "destroy" /\ l = "free" /\ reg' \in Nat /\ edge' = {}
              /\ UNCHANGED <<pdlock, unblocked, fdseq, info>>
           \/ /\ pc[g] = "free" /\ l = "publish" /\ pdlock = None /\ pdlock' = g
              /\ fdseq' = (fdseq + 1) % SeqMod /\ UNCHANGED <<info, unblocked, edge, reg>>
           \/ /\ pc[g] = "publish" /\ l = "sysclose" /\ pdlock' = None /\ unblocked' = {}
              /\ publishInfo(closing, dl, fdseq) /\ UNCHANGED <<fdseq, edge, reg>>
  <2>1. CASE destroy(g)
    BY <2>1 DEF destroy, pollClose, Goto, pollVars
  <2>2. CASE pollFree(g) /\ UNCHANGED Outside
    BY <2>2 DEF pollFree, Goto, Outside, kernelVars
  <2>3. CASE pollFreePublish(g) /\ UNCHANGED Outside
    BY <2>3 DEF pollFreePublish, Unlock, Goto, Outside, kernelVars
  <2> QED BY <2>1, <2>2, <2>3
<1>4. ~throw'
  <2>1. CASE destroy(g)
    BY <1>0, <1>2, <2>1 DEF destroy, pollClose, InUse
  <2>2. CASE pollFree(g) \/ pollFreePublish(g)
    BY <1>0, <2>2 DEF pollFree, pollFreePublish
  <2> QED BY <2>1, <2>2
<1>5. \A h \in G : pc'[h] = IF h = g THEN l ELSE pc[h]
  BY <1>0, <1>3 DEF TypeFd
<1>6. TypeFd'
  BY <1>0, <1>1, <1>3 DEF TypeFd, Labels
<1>7. Life'
  <2>1. Within
    BY <1>1, <1>3, <1>5 DEF Within, Destrs
  <2> QED BY <1>0, <1>1, <2>1, LifeKept
<1>8. Locked'
  BY <1>0, <1>1, <1>3, <1>5, NamesAssumption DEF Locked
<1>9. \A h \in G : pc'[h] \notin IOs \cup Miscs
  BY <1>2, <1>5 DEF IOs, Miscs
<1>10. Waiting'
  <2>1. unblocked = {}
    BY <1>0, <1>2 DEF Waiting, TypePoll, IOs
  <2> QED BY <1>1, <1>2, <1>3, <2>1, NamesAssumption DEF Waiting
<1>11. Evicted'
  BY <1>0, <1>1, <1>2, <1>9 DEF Evicted, Miscs
<1>12. Timers'
  BY <1>0, <1>1, TimersKept
<1>13. Published' /\ info' \in Info /\ fdseq' \in Nat
  <2>1. info' \in Info
    <3>1. info \in Info /\ closing \in BOOLEAN /\ fdseq \in Nat
      BY <1>0 DEF TypePoll
    <3>2. CASE publishInfo(closing, dl, fdseq)
      BY <3>1, <3>2 DEF publishInfo, Info
    <3> QED BY <1>3, <3>1, <3>2
  <2>2. fdseq' \in Nat
    BY <1>0, <1>3, SeqAssumption DEF TypePoll
  <2>3. Published'
    BY <1>0, <1>1, <1>3 DEF Published, publishInfo, TypePoll, Info
  <2> QED BY <2>1, <2>2, <2>3
<1>14. TypePoll'
  BY <1>0, <1>1, <1>3, <1>13 DEF TypePoll
<1>15. Registered'
  BY <1>5 DEF Registered
<1>16. Told'
  BY <1>9 DEF Told, IOs
<1>17. Cancelled'
  BY <1>9 DEF Cancelled, Parks, IOs
<1> QED BY <1>4, <1>6, <1>7, <1>8, <1>10, <1>11, <1>12, <1>13, <1>14, <1>15, <1>16, <1>17 DEF FdInv

-----------------------------------------------------------------------------
(* The kernel and the pollers.                                             *)

\* A step that changes neither the goroutines, nor their descriptors, nor the
\* deadlines.
LEMMA QuietKeeps ==
  ASSUME FdInv, UNCHANGED <<pc, op, fdmu, sysfd, owner, gpp, unblocked, pdlock, cb, closing, dl,
                            run, seq, timer, fired, fdseq, reg, throw>>,
         info' \in Info, info'.closing = info.closing, info'.expired = info.expired,
         ev' \in [Poller -> Event],
         npc' \in [Poller -> {"wait", "check", "err", "readyR", "readyW"}],
         avail' \in SUBSET Mode, edge' \in SUBSET (Mode \cup {"err"}), Told'
  PROVE  FdInv'
<1>0. /\ TypeFd /\ TypePoll /\ Life /\ Locked /\ Waiting /\ Evicted /\ Timers
      /\ Published /\ Registered /\ Told /\ Cancelled /\ ~throw
  BY DEF FdInv
<1>1. TypeFd' /\ TypePoll'
  BY <1>0 DEF TypeFd, TypePoll
<1>2. Life'
  BY <1>0, LifeKept DEF Within
<1>3. Waiting'
  BY <1>0 DEF Waiting, ModeOf
<1>4. Locked' /\ Evicted' /\ Timers' /\ Registered'
  BY <1>0, LockedKept, EvictedKept, TimersKept, RegisteredKept
<1>5. Published'
  BY <1>0 DEF Published
<1>6. Cancelled'
  BY <1>0, CancelledKept DEF Parks, ModeOf
<1> QED BY <1>0, <1>1, <1>2, <1>3, <1>4, <1>5, <1>6 DEF FdInv

\* The file becomes ready, or fails: an edge.
LEMMA EdgeKeeps ==
  ASSUME FdInv, fail \/ \E m \in Mode : arrive(m)
  PROVE  FdInv'
<1>0. TypePoll /\ Told
  BY DEF FdInv
<1>1. /\ UNCHANGED <<pc, op, fdmu, sysfd, owner, gpp, unblocked, pdlock, cb, closing, dl,
                     run, seq, timer, fired, fdseq, reg, throw, info, ev, npc>>
      /\ edge \subseteq edge' /\ edge' \in SUBSET (Mode \cup {"err"}) /\ avail' \in SUBSET Mode
      /\ \A m \in Mode : m \in avail' => m \in avail \/ m \in edge'
  BY <1>0 DEF fail, arrive, fdmuVars, pollVars, fileVars, TypePoll
<1>2. \A p \in Poller, m \in Mode : Carries(p, m)' <=> Carries(p, m)
  BY <1>1 DEF Carries
<1>3. \A g \in G : ModeOf(g)' = ModeOf(g) /\ ModeOf(g) \in Mode
  BY <1>1 DEF ModeOf, Mode
<1>4. Told'
  BY <1>0, <1>1, <1>2, <1>3 DEF Told
<1> QED BY <1>0, <1>1, <1>4, QuietKeeps DEF TypePoll

\* While somebody waits, the file is registered under the tag of the pollDesc.
LEMMA WaitsRegistered ==
  ASSUME FdInv, NEW g \in G, pc[g] \in Waits
  PROVE  reg = fdseq
<1>0. Life /\ Registered
  BY DEF FdInv
<1>1. InIO(g)
  BY DEF InIO, Waits
<1>2. op[g].f \in F /\ owner = op[g].f
  BY <1>0, <1>1 DEF Life, Active, Using
<1>3. \A h \in G : pc[h] \notin {"free", "publish", "sysclose"}
  BY <1>0, <1>1, NoUser DEF Using, Destroying
<1> QED BY <1>0, <1>2, <1>3 DEF Registered

\* EpollWait hands the edges to a poller.
LEMMA EpollWaitKeeps ==
  ASSUME FdInv, NEW p \in Poller, epollWait(p)
  PROVE  FdInv'
<1>0. TypePoll /\ Told
  BY DEF FdInv
<1> DEFINE e == [modes |-> IF "err" \in edge THEN Mode ELSE edge,
                 err |-> edge = {"err"}, tag |-> reg]
<1>1. /\ UNCHANGED <<pc, op, fdmu, sysfd, owner, gpp, unblocked, pdlock, cb, closing, dl,
                     run, seq, timer, fired, fdseq, reg, throw, info, avail>>
      /\ npc[p] = "wait" /\ ev' = [ev EXCEPT ![p] = e] /\ npc' = [npc EXCEPT ![p] = "check"]
      /\ edge' = {}
  BY DEF epollWait, PGoto, fdmuVars, fileVars
<1>2. e \in Event
  BY <1>0 DEF TypePoll, Event
<1>3. /\ ev' \in [Poller -> Event]
      /\ npc' \in [Poller -> {"wait", "check", "err", "readyR", "readyW"}]
  BY <1>0, <1>1, <1>2 DEF TypePoll
<1>4. /\ npc'[p] = "check" /\ ev'[p] = e
      /\ \A q \in Poller : q # p => npc'[q] = npc[q] /\ ev'[q] = ev[q]
  BY <1>0, <1>1 DEF TypePoll
<1>5. \A q \in Poller, m \in Mode : Carries(q, m) => Carries(q, m)'
  BY <1>1, <1>4 DEF Carries
<1>6. \A m \in Mode : edge \cap {m, "err"} # {} /\ reg = fdseq => Carries(p, m)'
  BY <1>1, <1>4 DEF Carries
<1>7. \A g \in G : ModeOf(g)' = ModeOf(g) /\ ModeOf(g) \in Mode
  BY <1>1 DEF ModeOf, Mode
<1>8. Told'
  <2> SUFFICES ASSUME NEW g \in G, pc[g] \in Waits, ModeOf(g) \in avail, gpp[ModeOf(g)] # "ready"
               PROVE  \E q \in Poller : Carries(q, ModeOf(g))'
    BY <1>1, <1>7 DEF Told, Waits
  <2>1. reg = fdseq
    BY WaitsRegistered
  <2>2. edge \cap {ModeOf(g), "err"} # {} \/ \E q \in Poller : Carries(q, ModeOf(g))
    BY <1>0 DEF Told, Waits
  <2> QED BY <1>5, <1>6, <1>7, <2>1, <2>2
<1>9. edge' \in SUBSET (Mode \cup {"err"}) /\ avail' \in SUBSET Mode /\ info' \in Info
  BY <1>0, <1>1 DEF TypePoll
<1> QED BY <1>1, <1>3, <1>8, <1>9, QuietKeeps

\* A poller compares the tag, and publishes whether the event is an error.
LEMMA PollerKeeps ==
  ASSUME FdInv, NEW p \in Poller, netpollCheck(p) \/ setEventErr(p), UNCHANGED Outside
  PROVE  FdInv'
<1>0. TypePoll /\ Told
  BY DEF FdInv
<1>1. /\ UNCHANGED <<pc, op, fdmu, sysfd, owner, gpp, unblocked, pdlock, cb, closing, dl,
                     run, seq, timer, fired, fdseq, reg, throw, edge, avail>>
  BY DEF netpollCheck, setEventErr, Outside, fdmuVars, fileVars, kernelVars
<1>2. /\ ev' \in [Poller -> Event]
      /\ npc' \in [Poller -> {"wait", "check", "err", "readyR", "readyW"}]
      /\ \A q \in Poller : q # p => npc'[q] = npc[q] /\ ev'[q] = ev[q]
      /\ \/ npc[p] = "check" /\ npc'[p] = "err" /\ ev'[p] = ev[p]
         \/ npc[p] = "check" /\ ev[p].tag # fdseq
         \/ npc[p] = "err" /\ npc'[p] = FirstReady(p) /\ ev'[p] = ev[p]
  <2>1. CASE netpollCheck(p)
    <3>1. NoEvent \in Event
      BY DEF NoEvent, Event
    <3> QED BY <1>0, <2>1, <3>1 DEF netpollCheck, PGoto, Drop, TypePoll
  <2>2. CASE setEventErr(p)
    BY <1>0, <2>2 DEF setEventErr, PGoto, FirstReady, TypePoll
  <2> QED BY <2>1, <2>2
<1>3. \A q \in Poller, m \in Mode : Carries(q, m) => Carries(q, m)'
  <2>1. \A q \in Poller, m \in Mode : q # p /\ Carries(q, m) => Carries(q, m)'
    BY <1>1, <1>2 DEF Carries
  <2>2. \A m \in Mode : Carries(p, m) => Carries(p, m)'
    BY <1>1, <1>2 DEF Carries, FirstReady, Mode
  <2> QED BY <2>1, <2>2
<1>4. \A g \in G : ModeOf(g)' = ModeOf(g) /\ ModeOf(g) \in Mode
  BY <1>1 DEF ModeOf, Mode
<1>5. Told'
  BY <1>0, <1>1, <1>3, <1>4 DEF Told
<1>6. info' \in Info /\ info'.closing = info.closing /\ info'.expired = info.expired
  <2>1. info \in Info /\ ev[p].err \in BOOLEAN
    BY <1>0 DEF TypePoll, Event
  <2>2. CASE netpollCheck(p)
    BY <2>1, <2>2 DEF netpollCheck
  <2>3. CASE setEventErr(p)
    BY <2>1, <2>3 DEF setEventErr, Info
  <2> QED BY <2>2, <2>3
<1>7. edge' \in SUBSET (Mode \cup {"err"}) /\ avail' \in SUBSET Mode
  BY <1>0, <1>1 DEF TypePoll
<1> QED BY <1>1, <1>2, <1>5, <1>6, <1>7, QuietKeeps

\* netpollready tells the waiter of mode m, if there is one, and leaves a
\* notification.
LEMMA NetpollreadyKeeps ==
  ASSUME FdInv, NEW p \in Poller, NEW m \in Mode, netpollready(p, m), UNCHANGED Outside
  PROVE  FdInv'
<1>0. /\ TypeFd /\ TypePoll /\ Life /\ Locked /\ Waiting /\ Evicted /\ Timers
      /\ Published /\ Registered /\ Told /\ Cancelled /\ ~throw
  BY DEF FdInv
<1> DEFINE R == Blocked(m)
<1>1. /\ UNCHANGED <<op, fdmu, sysfd, owner, unblocked, pdlock, cb, closing, dl, run, seq, timer,
                     fired, fdseq, reg, throw, edge, avail, info>>
      /\ Unblock(m, TRUE) /\ pc' = [h \in G |-> IF h \in R THEN "swap" ELSE pc[h]]
  BY DEF netpollready, Ready, Outside, fdmuVars, fileVars, kernelVars
<1>2. \A h \in R : h \in G /\ pc[h] = "parked" /\ h \notin unblocked
  <2>1. \A h \in R : h = gpp[m]
    BY DEF Blocked
  <2> QED BY <1>0, <2>1, BlockedParked DEF Waiting
<1>3. Released(R, m)
  BY <1>0, <1>1, <1>2 DEF Released
<1> HIDE DEF R
<1>4. /\ Waiting' /\ Within
      /\ gpp' \in [Mode -> {"nil", "ready", "wait"} \cup G] /\ unblocked' \in SUBSET G
      /\ \A h \in G : Parks(h)' => Parks(h) /\ ModeOf(h) # m
      /\ \A h \in G : pc'[h] \in Waits => pc[h] \in Waits
      /\ \A x \in Mode : gpp'[x] = "ready" <=> gpp[x] = "ready" \/ (TRUE /\ x = m)
  BY <1>0, <1>1, <1>3, UnblockFacts, Zenon
<1>5. /\ ev' \in [Poller -> Event]
      /\ npc' \in [Poller -> {"wait", "check", "err", "readyR", "readyW"}]
      /\ \A q \in Poller : q # p => npc'[q] = npc[q] /\ ev'[q] = ev[q]
      /\ npc[p] = IF m = "r" THEN "readyR" ELSE "readyW"
      /\ m = "r" /\ "w" \in ev[p].modes => npc'[p] = "readyW" /\ ev'[p] = ev[p]
  <2>1. NoEvent \in Event
    BY DEF NoEvent, Event
  <2> QED BY <1>0, <2>1 DEF netpollready, PGoto, Drop, TypePoll
<1>6. TypeFd'
  BY <1>0, <1>1 DEF TypeFd, Labels
<1>7. TypePoll'
  BY <1>0, <1>1, <1>4, <1>5 DEF TypePoll
<1>8. Life'
  BY <1>0, <1>1, <1>4, LifeKept
<1>9. \A h \in G : pc'[h] = pc[h] \/ (pc[h] = "parked" /\ pc'[h] = "swap")
  BY <1>1, <1>2
<1>10. Locked' /\ Evicted' /\ Registered'
  <2>1. /\ \A h \in G : pc'[h] \in {"dlR", "dlW", "evictR", "evictW", "publish"} <=>
                          pc[h] \in {"dlR", "dlW", "evictR", "evictW", "publish"}
        /\ \A h \in G : pc'[h] = "evict" <=> pc[h] = "evict"
        /\ \A h \in G : pc'[h] \in {"evictR", "evictW"} => pc[h] \in {"evictR", "evictW"}
        /\ \A h \in G : pc[h] \in {"free", "publish", "sysclose"} =>
                          pc'[h] \in {"free", "publish", "sysclose"}
    BY <1>9
  <2> QED BY <1>0, <1>1, <2>1, LockedKept, EvictedKept, RegisteredKept
<1>11. Timers' /\ Published'
  BY <1>0, <1>1, TimersKept, PublishedKept
<1>12. Told'
  <2>1. \A h \in G : ModeOf(h)' = ModeOf(h) /\ ModeOf(h) \in Mode
    BY <1>1 DEF ModeOf, Mode
  <2>2. \A q \in Poller, x \in Mode : x # m /\ Carries(q, x) => Carries(q, x)'
    <3>1. \A q \in Poller, x \in Mode : q # p /\ Carries(q, x) => Carries(q, x)'
      BY <1>1, <1>5 DEF Carries
    <3>2. \A x \in Mode : x # m /\ Carries(p, x) => Carries(p, x)'
      BY <1>1, <1>5 DEF Carries, Mode
    <3> QED BY <3>1, <3>2
  <2> SUFFICES ASSUME NEW h \in G, pc'[h] \in Waits, ModeOf(h) \in avail,
                      gpp'[ModeOf(h)] # "ready"
               PROVE  edge \cap {ModeOf(h), "err"} # {} \/ \E q \in Poller : Carries(q, ModeOf(h))'
    BY <1>1, <2>1 DEF Told, Waits
  <2>3. pc[h] \in Waits /\ gpp[ModeOf(h)] # "ready" /\ ModeOf(h) # m
    BY <1>4, <2>1
  <2> QED BY <1>0, <2>1, <2>2, <2>3 DEF Told, Waits
<1>13. Cancelled'
  BY <1>0, <1>1, <1>4, <1>9, CancelledKept
<1> QED BY <1>0, <1>1, <1>4, <1>6, <1>7, <1>8, <1>10, <1>11, <1>12, <1>13 DEF FdInv

\* The system call.  EAGAIN says that the file is not ready.
LEMMA SyscallKeeps ==
  ASSUME FdInv, NEW g \in G, syscall(g)
  PROVE  FdInv'
<1>0. /\ TypeFd /\ TypePoll /\ Life /\ Locked /\ Waiting /\ Evicted /\ Timers
      /\ Published /\ Registered /\ Told /\ Cancelled /\ ~throw
  BY DEF FdInv
<1>1. /\ UNCHANGED <<op, fdmu, sysfd, owner, gpp, unblocked, pdlock, cb, closing, dl, run, seq,
                     timer, fired, fdseq, reg, throw, edge, info, ev, npc>>
      /\ pc[g] = "sys"
  BY DEF syscall, pollVars, fdmuVars, fileVars
<1>2. PICK l \in {"unlock", "sys", "wait"} :
        /\ pc' = [pc EXCEPT ![g] = l] /\ avail' \subseteq avail
        /\ l = "wait" => ModeOf(g) \notin avail'
  BY DEF syscall, Goto
<1>3. \A h \in G : pc'[h] = IF h = g THEN l ELSE pc[h]
  BY <1>0, <1>2 DEF TypeFd
<1>4. TypeFd' /\ TypePoll'
  BY <1>0, <1>1, <1>2 DEF TypeFd, TypePoll, Labels
<1>5. Life'
  <2>1. Within
    BY <1>1, <1>3 DEF Within, IOs
  <2> QED BY <1>0, <1>1, <2>1, LifeKept
<1>6. Locked' /\ Evicted' /\ Registered'
  <2>1. /\ \A h \in G : pc'[h] \in {"dlR", "dlW", "evictR", "evictW", "publish"} <=>
                          pc[h] \in {"dlR", "dlW", "evictR", "evictW", "publish"}
        /\ \A h \in G : pc'[h] = "evict" <=> pc[h] = "evict"
        /\ \A h \in G : pc'[h] \in {"evictR", "evictW"} => pc[h] \in {"evictR", "evictW"}
        /\ \A h \in G : pc[h] \in {"free", "publish", "sysclose"} =>
                          pc'[h] \in {"free", "publish", "sysclose"}
    BY <1>1, <1>3
  <2> QED BY <1>0, <1>1, <2>1, LockedKept, EvictedKept, RegisteredKept
<1>7. \A h \in G : ModeOf(h)' = ModeOf(h) /\ ModeOf(h) \in Mode
  BY <1>1 DEF ModeOf, Mode
<1>8. Waiting'
  BY <1>0, <1>1, <1>3, <1>7 DEF Waiting, TypePoll
<1>9. Timers' /\ Published'
  BY <1>0, <1>1, TimersKept, PublishedKept
<1>10. Told'
  <2>1. \A p \in Poller, m \in Mode : Carries(p, m)' <=> Carries(p, m)
    BY <1>1 DEF Carries
  <2> QED BY <1>0, <1>1, <1>2, <1>3, <1>7, <2>1 DEF Told
<1>11. Cancelled'
  <2>1. \A h \in G : Parks(h)' => Parks(h)
    BY <1>1, <1>3, <1>7 DEF Parks
  <2> QED BY <1>0, <1>1, <1>3, <2>1, CancelledKept
<1> QED BY <1>0, <1>1, <1>4, <1>5, <1>6, <1>8, <1>9, <1>10, <1>11 DEF FdInv

\* FD.Init: the pollDesc is used by nobody, and nothing of it is left over.
LEMMA OpenKeeps ==
  ASSUME FdInv, NEW f \in F, NEW ok \in BOOLEAN, Open(f, ok)
  PROVE  FdInv'
<1>0. /\ TypeFd /\ TypePoll /\ Life /\ Locked /\ Waiting /\ Evicted /\ Timers
      /\ Published /\ Registered /\ Told /\ Cancelled /\ ~throw
  BY DEF FdInv
<1>1. /\ UNCHANGED <<op, pc, fdmu, unblocked, pdlock, cb, run, timer, fired, ev, npc>>
      /\ owner = None /\ sysfd[f] = "new" /\ pdlock = None
      /\ sysfd' = [sysfd EXCEPT ![f] = IF ok THEN "open" ELSE "bad"]
      /\ (ok /\ owner' = f /\ reg' = fdseq') \/ (~ok /\ UNCHANGED <<owner, reg>>)
      /\ throw' = (throw \/ \E m \in Mode : InUse(m))
      /\ closing' = FALSE /\ seq' = [m \in Mode |-> seq[m] + 1]
      /\ gpp' = [m \in Mode |-> "nil"] /\ dl' = [m \in Mode |-> 0]
      /\ info' = [closing |-> FALSE, eventErr |-> FALSE, expired |-> {}, seq |-> fdseq']
      /\ avail' = {} /\ edge' = {}
  BY DEF Open, pollOpen, fdmuVars
<1>2. fdseq' \in Nat
  <2> DEFINE s0 == IF fdseq = 0 THEN 1 ELSE fdseq
  <2>1. s0 \in Nat /\ fdseq' = IF ok THEN s0 ELSE (s0 + 1) % SeqMod
    BY <1>0 DEF Open, pollOpen, TypePoll
  <2> QED BY <2>1, SeqAssumption
<1>3. \A g \in G : ~Active(g)
  BY <1>0, <1>1, NamesAssumption DEF Life
<1>4. \A g \in G : pc[g] \notin IOs \cup Miscs \cup Destrs
  BY <1>3 DEF Active, Using, InIO, InMisc, Destroying, IOs, Miscs, Destrs
<1>5. \A x \in F : sysfd'[x] = IF x = f THEN (IF ok THEN "open" ELSE "bad") ELSE sysfd[x]
  BY <1>0, <1>1 DEF TypeFd
<1>6. TypeFd'
  BY <1>0, <1>1 DEF TypeFd, Sysfd
<1>7. TypePoll'
  <2>1. info' \in Info
    BY <1>1, <1>2 DEF Info
  <2>2. reg' \in Nat
    BY <1>0, <1>1, <1>2 DEF TypePoll
  <2>3. /\ gpp' \in [Mode -> {"nil", "ready", "wait"} \cup G] /\ dl' \in [Mode -> Int]
        /\ seq' \in [Mode -> Nat]
    BY <1>0, <1>1 DEF TypePoll
  <2>4. /\ closing' \in BOOLEAN /\ avail' \in SUBSET Mode
        /\ edge' \in SUBSET (Mode \cup {"err"})
    BY <1>1
  <2> QED BY <1>0, <1>1, <1>2, <2>1, <2>2, <2>3, <2>4 DEF TypePoll
<1>8. Life'
  <2>1. \A g \in G : /\ ~Active(g)' /\ ~InIO(g)' /\ ~Destroying(g)'
                     /\ (Asleep(g)' <=> Asleep(g))
    BY <1>1, <1>4 DEF Active, Using, InIO, InMisc, Destroying, Asleep, IOs, Miscs, Destrs
  <2>2. \A x \in F : Users(x)' = Users(x)
    BY <1>1 DEF Users, Using, InIO, InMisc
  <2>3. \A x \in F : fdmu'[x].refs = Cardinality(Users(x)')
    BY <1>0, <1>1, <2>2 DEF Life
  <2>4. \A g \in G : Asleep(g)' => op'[g].f \in F /\ sysfd'[op'[g].f] \in {"open", "closed"}
    BY <1>0, <1>1, <1>5, <2>1 DEF Life
  <2>5. \A x \in F : owner' = x <=> sysfd'[x] = "open"
    BY <1>0, <1>1, <1>5, NamesAssumption DEF Life
  <2>6. \A x \in F : /\ sysfd'[x] = "closed" => fdmu'[x].closed
                     /\ sysfd'[x] = "new" => ~fdmu'[x].closed
    BY <1>0, <1>1, <1>5 DEF Life
  <2> QED BY <2>1, <2>3, <2>4, <2>5, <2>6 DEF Life
<1>9. Locked'
  BY <1>0, <1>1, LockedKept
<1>10. Waiting'
  <2>1. unblocked = {}
    BY <1>0, <1>4 DEF Waiting, TypePoll, IOs
  <2> QED BY <1>1, <2>1, NamesAssumption DEF Waiting
<1>11. Evicted'
  <2>1. ~fdmu[f].closed
    BY <1>0, <1>1 DEF Life
  <2> QED BY <1>1, <1>4, <2>1, NamesAssumption DEF Evicted, Miscs
<1>12. Timers'
  <2>1. \A c : Timely(c) /\ c.seq \in Nat => Timely(c)' /\ c.seq # seq'[First(c)]
    <3> SUFFICES ASSUME NEW c, Timely(c), c.seq \in Nat
                 PROVE  Timely(c)' /\ c.seq # seq'[First(c)]
      OBVIOUS
    <3>1. First(c) \in Mode /\ c.seq <= seq[First(c)] /\ c.modes # {}
      BY DEF Timely, First, Mode
    <3>2. c.seq <= seq'[First(c)] /\ c.seq # seq'[First(c)]
      BY <1>0, <1>1, <3>1 DEF TypePoll
    <3> QED BY <3>1, <3>2 DEF Timely, First
  <2>2. \A c \in fired : Timely(c)' /\ c.seq # seq'[First(c)]
    BY <1>0, <2>1 DEF Timers, TypePoll, Timer
  <2>3. \A m \in Mode, c \in Timer : timer'[m] = c /\ c.on => First(c) = m /\ Timely(c)'
    BY <1>0, <1>1, <2>1 DEF Timers, Timer
  <2>4. cb' = "none"
    BY <1>0, <1>1, HolderNone DEF Mode
  <2>5. ~(dl'["r"] > 0)
    BY <1>1 DEF Mode
  <2> QED BY <1>0, <1>1, <2>2, <2>3, <2>4, <2>5 DEF Timers
<1>13. Published'
  <2>1. {m \in Mode : dl'[m] < 0} = {}
    BY <1>1
  <2> QED BY <1>1, <2>1 DEF Published
<1>14. Registered'
  BY <1>1, NamesAssumption DEF Registered
<1>15. Told' /\ Cancelled'
  BY <1>1, <1>4 DEF Told, Cancelled, Parks, IOs
<1>16. ~throw'
  <2>1. \A m \in Mode : gpp[m] \in {"nil", "ready"}
    BY <1>0, <1>4 DEF TypePoll, Waiting, IOs
  <2> QED BY <1>0, <1>1, <2>1 DEF InUse
<1> QED BY <1>6, <1>7, <1>8, <1>9, <1>10, <1>11, <1>12, <1>13, <1>14, <1>15, <1>16 DEF FdInv

-----------------------------------------------------------------------------
(* fdMutex.                                                                *)

\* What a method of fdMutex does to the word of f, but for the waiters.
Becomes(f, closed, lock, refs) ==
  /\ fdmu' \in [F -> Word] /\ \A x \in F : x # f => fdmu'[x] = fdmu[x]
  /\ fdmu'[f].closed = closed /\ fdmu'[f].lock = lock /\ fdmu'[f].refs = refs

LEMMA WordFacts ==
  ASSUME TypeFd, NEW f \in F, NEW m \in Mode
  PROVE  LET w == fdmu[f]
         IN  /\ w \in Word
             /\ incref(f) => ~w.closed /\ Becomes(f, FALSE, w.lock, w.refs + 1)
             /\ increfAndClose(f) => ~w.closed /\ Becomes(f, TRUE, w.lock, w.refs + 1)
             /\ rwlock(f, m) => /\ ~w.closed /\ ~w.lock[m]
                                /\ Becomes(f, FALSE, [w.lock EXCEPT ![m] = TRUE], w.refs + 1)
             /\ rwlockWait(f, m) => Becomes(f, w.closed, w.lock, w.refs)
             /\ w.refs > 0 /\ decref(f) => Becomes(f, w.closed, w.lock, w.refs - 1)
             /\ w.refs > 0 /\ rwunlock(f, m) =>
                  Becomes(f, w.closed, [w.lock EXCEPT ![m] = FALSE], w.refs - 1)
<1>0. PICK w \in Word : w = fdmu[f]
  BY DEF TypeFd
<1>1. /\ w.closed \in BOOLEAN /\ w.lock \in [Mode -> BOOLEAN] /\ w.refs \in Nat
      /\ w.wait \in [Mode -> Nat]
  BY DEF Word
<1>2. ASSUME NEW v \in Word, fdmu' = [fdmu EXCEPT ![f] = v]
      PROVE  Becomes(f, v.closed, v.lock, v.refs)
  BY <1>2 DEF Becomes, TypeFd
<1>3. ASSUME incref(f)
      PROVE  ~w.closed /\ Becomes(f, FALSE, w.lock, w.refs + 1)
  <2> DEFINE v == [w EXCEPT !.refs = w.refs + 1]
  <2>1. v \in Word /\ v.closed = w.closed /\ v.lock = w.lock /\ v.refs = w.refs + 1
    BY <1>1 DEF Word
  <2>2. ~w.closed /\ fdmu' = [fdmu EXCEPT ![f] = v]
    BY <1>3, <1>0 DEF incref
  <2> HIDE DEF v
  <2>3. Becomes(f, v.closed, v.lock, v.refs)
    BY <1>2, <2>1, <2>2
  <2> QED BY <1>1, <2>1, <2>2, <2>3
<1>4. ASSUME increfAndClose(f)
      PROVE  ~w.closed /\ Becomes(f, TRUE, w.lock, w.refs + 1)
  <2>1. PICK t \in [Mode -> Nat], r \in Nat : t = [x \in Mode |-> 0] /\ r = w.refs + 1
    <3>1. [x \in Mode |-> 0] \in [Mode -> Nat] /\ w.refs + 1 \in Nat
      BY <1>1
    <3> QED BY <3>1
  <2>2. PICK v : v = [w EXCEPT !.closed = TRUE, !.refs = r, !.wait = t]
    OBVIOUS
  <2>3. ~w.closed /\ fdmu' = [fdmu EXCEPT ![f] = v]
    BY <1>0, <1>4, <2>1, <2>2 DEF increfAndClose
  <2>4. v \in Word
    BY <2>2 DEF Word
  <2>5. v.closed = TRUE /\ v.lock = w.lock /\ v.refs = r
    BY <2>2, <2>4 DEF Word
  <2> QED BY <1>2, <2>1, <2>3, <2>4, <2>5
<1>5. ASSUME rwlock(f, m)
      PROVE  /\ ~w.closed /\ ~w.lock[m]
             /\ Becomes(f, FALSE, [w.lock EXCEPT ![m] = TRUE], w.refs + 1)
  <2>1. PICK k \in [Mode -> BOOLEAN], r \in Nat :
          k = [w.lock EXCEPT ![m] = TRUE] /\ r = w.refs + 1
    <3>1. [w.lock EXCEPT ![m] = TRUE] \in [Mode -> BOOLEAN] /\ w.refs + 1 \in Nat
      BY <1>1
    <3> QED BY <3>1
  <2>2. PICK v : v = [w EXCEPT !.lock = k, !.refs = r]
    OBVIOUS
  <2>3. ~w.closed /\ ~w.lock[m] /\ fdmu' = [fdmu EXCEPT ![f] = v]
    BY <1>0, <1>5, <2>1, <2>2 DEF rwlock
  <2>4. v \in Word
    BY <2>2 DEF Word
  <2>5. v.closed = w.closed /\ v.lock = k /\ v.refs = r
    BY <2>2, <2>4 DEF Word
  <2> QED BY <1>1, <1>2, <2>1, <2>3, <2>4, <2>5
<1>6. ASSUME rwlockWait(f, m)
      PROVE  Becomes(f, w.closed, w.lock, w.refs)
  <2> DEFINE v == [w EXCEPT !.wait = [w.wait EXCEPT ![m] = w.wait[m] + 1]]
  <2>1. v \in Word /\ v.closed = w.closed /\ v.lock = w.lock /\ v.refs = w.refs
    BY <1>1 DEF Word
  <2>2. fdmu' = [fdmu EXCEPT ![f] = v]
    BY <1>6, <1>0 DEF rwlockWait
  <2> HIDE DEF v
  <2>3. Becomes(f, v.closed, v.lock, v.refs)
    BY <1>2, <2>1, <2>2
  <2> QED BY <2>1, <2>3
<1>7. ASSUME w.refs > 0, decref(f)
      PROVE  Becomes(f, w.closed, w.lock, w.refs - 1)
  <2> DEFINE v == [w EXCEPT !.refs = w.refs - 1]
  <2>1. v \in Word /\ v.closed = w.closed /\ v.lock = w.lock /\ v.refs = w.refs - 1
    BY <1>1, <1>7 DEF Word
  <2>2. fdmu' = [fdmu EXCEPT ![f] = v]
    BY <1>7, <1>0 DEF decref
  <2> HIDE DEF v
  <2>3. Becomes(f, v.closed, v.lock, v.refs)
    BY <1>2, <2>1, <2>2
  <2> QED BY <2>1, <2>3
<1>8. ASSUME w.refs > 0, rwunlock(f, m)
      PROVE  Becomes(f, w.closed, [w.lock EXCEPT ![m] = FALSE], w.refs - 1)
  <2> DEFINE n == IF w.wait[m] > 0 THEN 1 ELSE 0
  <2>1. PICK k \in [Mode -> BOOLEAN], r \in Nat, t \in [Mode -> Nat] :
          /\ k = [w.lock EXCEPT ![m] = FALSE] /\ r = w.refs - 1
          /\ t = [w.wait EXCEPT ![m] = w.wait[m] - n]
    <3>1. w.wait[m] - n \in Nat /\ w.refs - 1 \in Nat
      BY <1>1, <1>8
    <3>2. [w.wait EXCEPT ![m] = w.wait[m] - n] \in [Mode -> Nat]
      BY <1>1, <3>1
    <3> QED BY <1>1, <3>1, <3>2
  <2>2. PICK v : v = [w EXCEPT !.lock = k, !.refs = r, !.wait = t]
    OBVIOUS
  <2>3. fdmu' = [fdmu EXCEPT ![f] = v]
    <3>1. fdmu' = [fdmu EXCEPT ![f] =
                     [w EXCEPT !.lock = [w.lock EXCEPT ![m] = FALSE], !.refs = w.refs - 1,
                               !.wait = [w.wait EXCEPT ![m] = w.wait[m] - n]]]
      BY <1>0, <1>8 DEF rwunlock
    <3> QED BY <2>1, <2>2, <3>1
  <2>4. v \in Word
    BY <2>2 DEF Word
  <2>5. v.closed = w.closed /\ v.lock = k /\ v.refs = r
    BY <2>2, <2>4 DEF Word
  <2> QED BY <1>1, <1>2, <2>1, <2>3, <2>4, <2>5
<1> QED BY <1>1, <1>3, <1>4, <1>5, <1>6, <1>7, <1>8, <1>0

\* The count follows when g starts or stops to use f.
LEMMA UsersStep ==
  ASSUME Life, NEW g \in G, NEW f \in F,
         \A h \in G : h # g => (Using(h)' <=> Using(h)) /\ op'[h] = op[h],
         \A x \in F : x # f => fdmu'[x] = fdmu[x],
         Using(g) => op[g].f = f, Using(g)' => op'[g].f = f,
         fdmu'[f].refs = IF Using(g) /\ ~Using(g)' THEN fdmu[f].refs - 1
                         ELSE IF Using(g)' /\ ~Using(g) THEN fdmu[f].refs + 1
                         ELSE fdmu[f].refs
  PROVE  \A x \in F : fdmu'[x].refs = Cardinality(Users(x)')
<1>1. \A x \in F : Users(x) \in SUBSET G /\ IsFiniteSet(Users(x))
  BY FS_Subset, OpsAssumption DEF Users
<1>2. ASSUME NEW x \in F, x # f
      PROVE  fdmu'[x].refs = Cardinality(Users(x)')
  <2>1. Users(x)' = Users(x)
    BY <1>2 DEF Users
  <2> QED BY <1>2, <2>1 DEF Life
<1>3. fdmu'[f].refs = Cardinality(Users(f)')
  <2>0. fdmu[f].refs = Cardinality(Users(f))
    BY DEF Life
  <2>1. CASE Using(g) /\ ~Using(g)'
    <3>1. g \in Users(f) /\ Users(f)' = Users(f) \ {g}
      BY <2>1 DEF Users
    <3> QED BY <1>1, <2>0, <2>1, <3>1, FS_RemoveElement
  <2>2. CASE Using(g)' /\ ~Using(g)
    <3>1. g \notin Users(f) /\ Users(f)' = Users(f) \cup {g}
      BY <2>2 DEF Users
    <3> QED BY <1>1, <2>0, <2>2, <3>1, FS_AddElement
  <2>3. CASE Using(g)' <=> Using(g)
    <3>1. Users(f)' = Users(f)
      BY <2>3 DEF Users
    <3>2. fdmu'[f].refs = fdmu[f].refs
      BY <2>3
    <3> QED BY <2>0, <3>1, <3>2
  <2> QED BY <2>1, <2>2, <2>3
<1> QED BY <1>2, <1>3

\* A method that moves between the poller's work and the rest.
LEMMA MethodKeeps ==
  ASSUME FdInv, NEW g \in G, NEW l \in Labels, NEW o \in Op,
         pc' = [pc EXCEPT ![g] = l], op' = [op EXCEPT ![g] = o],
         UNCHANGED <<pollVars, avail, edge, reg>>, ~throw',
         pc[g] \notin Waits \cup {"dlR", "dlW", "evictR", "evictW", "publish"},
         l \notin Waits \cup {"dlR", "dlW", "evictR", "evictW", "publish"},
         TypeFd', Life', Evicted', Registered'
  PROVE  FdInv'
<1>0. /\ TypeFd /\ TypePoll /\ Life /\ Locked /\ Waiting /\ Evicted /\ Timers
      /\ Published /\ Registered /\ Told /\ Cancelled
  BY DEF FdInv
<1>1. UNCHANGED <<gpp, info, fdseq, closing, dl, run, seq, timer, fired, pdlock, cb, unblocked,
                  ev, npc>>
  BY DEF pollVars
<1>2. /\ \A h \in G : pc'[h] = IF h = g THEN l ELSE pc[h]
      /\ \A h \in G : h # g => ModeOf(h)' = ModeOf(h)
      /\ \A h \in G : ModeOf(h) \in Mode /\ ModeOf(h)' \in Mode
  BY <1>0 DEF TypeFd, ModeOf, Mode
<1>3. TypePoll'
  BY <1>0, <1>1 DEF TypePoll
<1>4. Locked'
  BY <1>0, <1>1, <1>2, LockedKept
<1>5. Waiting'
  BY <1>0, <1>1, <1>2 DEF Waiting, Waits, TypePoll
<1>6. Timers' /\ Published'
  BY <1>0, <1>1, TimersKept, PublishedKept
<1>7. Told'
  <2>1. \A p \in Poller, m \in Mode : Carries(p, m)' <=> Carries(p, m)
    BY <1>1 DEF Carries
  <2> QED BY <1>0, <1>1, <1>2, <2>1 DEF Told, Waits
<1>8. Cancelled'
  <2>1. \A h \in G : Parks(h)' => h # g /\ Parks(h)
    BY <1>1, <1>2 DEF Parks, Waits
  <2>2. \A m \in Mode : WillUnblock(m) => WillUnblock(m)'
    BY <1>1, <1>2 DEF WillUnblock
  <2> QED BY <1>0, <1>1, <1>2, <2>1, <2>2 DEF Cancelled
<1> QED BY <1>0, <1>3, <1>4, <1>5, <1>6, <1>7, <1>8 DEF FdInv

\* g goes on with o at l.
Moves(g, o, l) == pc' = [pc EXCEPT ![g] = l] /\ op' = [op EXCEPT ![g] = o]

ModeFor(o) == IF "r" \in o.modes THEN "r" ELSE "w"

LEMMA MoveFacts ==
  ASSUME TypeFd, NEW g \in G, NEW l \in Labels, NEW o \in Op, Moves(g, o, l)
  PROVE  /\ pc' \in [G -> Labels] /\ op' \in [G -> Op]
         /\ pc'[g] = l /\ op'[g] = o /\ ModeOf(g)' = ModeFor(o) /\ ModeFor(o) \in Mode
         /\ \A h \in G : h # g =>
              /\ pc'[h] = pc[h] /\ op'[h] = op[h] /\ ModeOf(h)' = ModeOf(h)
              /\ InIO(h)' <=> InIO(h)
              /\ Using(h)' <=> Using(h)
              /\ Destroying(h)' <=> Destroying(h)
              /\ Active(h)' <=> Active(h)
              /\ Asleep(h)' <=> Asleep(h)
         /\ InIO(g)' <=> l \in IOs
         /\ Using(g)' <=> l \in IOs \cup Miscs
         /\ Destroying(g)' <=> l \in Destrs
         /\ Active(g)' <=> l \in IOs \cup Miscs \cup Destrs
         /\ Asleep(g)' <=> l \in {"rwsleep", "rwlock"}
<1>1. /\ pc' \in [G -> Labels] /\ op' \in [G -> Op] /\ pc'[g] = l /\ op'[g] = o
      /\ \A h \in G : h # g => pc'[h] = pc[h] /\ op'[h] = op[h]
  BY DEF TypeFd, Moves
<1>2. ModeOf(g)' = ModeFor(o) /\ ModeFor(o) \in Mode
  BY <1>1 DEF ModeOf, ModeFor, Mode
<1>3. ASSUME NEW h \in G, h # g
      PROVE  /\ pc'[h] = pc[h] /\ op'[h] = op[h] /\ ModeOf(h)' = ModeOf(h)
             /\ InIO(h)' <=> InIO(h)
             /\ Using(h)' <=> Using(h)
             /\ Destroying(h)' <=> Destroying(h)
             /\ Active(h)' <=> Active(h)
             /\ Asleep(h)' <=> Asleep(h)
  BY <1>1, <1>3 DEF ModeOf, InIO, Using, InMisc, Destroying, Active, Asleep
<1>4. /\ InIO(g)' <=> l \in IOs
      /\ Using(g)' <=> l \in IOs \cup Miscs
      /\ Destroying(g)' <=> l \in Destrs
      /\ Active(g)' <=> l \in IOs \cup Miscs \cup Destrs
      /\ Asleep(g)' <=> l \in {"rwsleep", "rwlock"}
  BY <1>1 DEF InIO, InMisc, Using, Destroying, Active, Asleep, IOs, Miscs, Destrs
<1> QED BY <1>1, <1>2, <1>3, <1>4

\* g starts to use f: a Read or Write with the lock of its mode, Close for good.
LEMMA EnterKeeps ==
  ASSUME FdInv, NEW g \in G, NEW f \in F, NEW o \in Op, o.f = f,
         NEW l \in {"prepare", "setdl", "evict"},
         pc[g] \in {"idle", "rwlock"}, sysfd[f] \in {"open", "closed"}, ~fdmu[f].closed,
         Moves(g, o, l), fdmu' \in [F -> Word], \A x \in F : x # f => fdmu'[x] = fdmu[x],
         fdmu'[f].closed <=> l = "evict", fdmu'[f].refs = fdmu[f].refs + 1,
         l = "prepare" => /\ ~fdmu[f].lock[ModeFor(o)]
                          /\ fdmu'[f].lock = [fdmu[f].lock EXCEPT ![ModeFor(o)] = TRUE],
         l # "prepare" => fdmu'[f].lock = fdmu[f].lock,
         UNCHANGED Rest
  PROVE  FdInv'
<1>0. TypeFd /\ Life /\ Evicted /\ Registered /\ ~throw
  BY DEF FdInv
<1>1. l \in Labels /\ l \notin Destrs /\ (l \in IOs <=> l = "prepare") /\ l \in IOs \cup Miscs
  BY DEF Labels, Destrs, IOs, Miscs
<1>2. UNCHANGED <<pollVars, throw, sysfd, owner, avail, edge, reg, closing, fdseq>>
  BY DEF Rest, kernelVars, pollVars
<1>3. /\ fdmu' \in [F -> Word] /\ \A x \in F : x # f => fdmu'[x] = fdmu[x]
      /\ fdmu'[f].closed <=> l = "evict"
      /\ fdmu'[f].refs = fdmu[f].refs + 1
  OBVIOUS
<1>4. fdmu[f].lock \in [Mode -> BOOLEAN]
  BY <1>0 DEF TypeFd, Word
<1>5. sysfd[f] = "open" /\ owner = f /\ ~closing
  BY <1>0 DEF Life, Evicted
<1>6. /\ \A h \in G : ~Destroying(h)
      /\ \A h \in G : Using(h) => op[h].f = f
      /\ ~Using(g)
  BY <1>0, <1>5 DEF Life, Active, Using, InIO, InMisc
<1>7. TypeFd'
  BY <1>0, <1>1, <1>2, <1>3, MoveFacts DEF TypeFd
<1>8. Life'
  <2>1. \A h \in G : Active(h)' => op'[h].f \in F /\ owner' = op'[h].f
    BY <1>0, <1>1, <1>2, <1>5, MoveFacts DEF Life
  <2>2. \A h \in G : Asleep(h)' => op'[h].f \in F /\ sysfd'[op'[h].f] \in {"open", "closed"}
    BY <1>0, <1>1, <1>2, MoveFacts DEF Life
  <2>3. \A x \in F : /\ owner' = x <=> sysfd'[x] = "open"
                     /\ sysfd'[x] = "closed" => fdmu'[x].closed
                     /\ sysfd'[x] = "new" => ~fdmu'[x].closed
    BY <1>0, <1>2, <1>3, <1>5 DEF Life
  <2>4. \A x \in F : fdmu'[x].refs = Cardinality(Users(x)')
    <3>1. \A h \in G : h # g => (Using(h)' <=> Using(h)) /\ op'[h] = op[h]
      BY <1>0, <1>1, MoveFacts
    <3>2. Using(g)' /\ op'[g].f = f
      BY <1>0, <1>1, MoveFacts
    <3> QED BY <1>0, <1>3, <1>6, <3>1, <3>2, UsersStep
  <2>5. \A h \in G : InIO(h)' => fdmu'[op'[h].f].lock[ModeOf(h)']
    <3>1. ASSUME NEW h \in G, h # g, InIO(h)'
          PROVE  fdmu'[op'[h].f].lock[ModeOf(h)']
      <4>1. InIO(h) /\ op'[h] = op[h] /\ op[h].f = f /\ ModeOf(h)' = ModeOf(h) /\ ModeOf(h) \in Mode
        BY <1>0, <1>1, <1>6, <3>1, MoveFacts DEF Using, ModeOf, Mode
      <4>2. fdmu[f].lock[ModeOf(h)]
        BY <1>0, <4>1 DEF Life
      <4> QED BY <1>3, <1>4, <4>1, <4>2
    <3>2. ASSUME InIO(g)'
          PROVE  fdmu'[op'[g].f].lock[ModeOf(g)']
      BY <1>0, <1>1, <1>3, <1>4, <3>2, MoveFacts
    <3> QED BY <3>1, <3>2
  <2>6. \A h, i \in G : InIO(h)' /\ InIO(i)' /\ ModeOf(h)' = ModeOf(i)' => h = i
    <3>1. \A h \in G : h # g /\ InIO(h)' =>
            InIO(h) /\ ModeOf(h)' = ModeOf(h) /\ fdmu[f].lock[ModeOf(h)]
      BY <1>0, <1>1, <1>6, MoveFacts DEF Life, Using
    <3>2. InIO(g)' => ModeOf(g)' = ModeFor(o) /\ ~fdmu[f].lock[ModeFor(o)]
      BY <1>0, <1>1, MoveFacts
    <3> QED BY <1>0, <3>1, <3>2 DEF Life
  <2>7. \A h \in G : ~Destroying(h)'
    BY <1>0, <1>1, <1>6, MoveFacts
  <2> QED BY <2>1, <2>2, <2>3, <2>4, <2>5, <2>6, <2>7 DEF Life
<1>9. Evicted'
  <2>1. \A h \in G : pc[h] # "evict"
    <3> SUFFICES ASSUME NEW h \in G, pc[h] = "evict"
                 PROVE  FALSE
      OBVIOUS
    <3>1. op[h].f = f
      BY <1>6 DEF Using, InMisc
    <3> QED BY <1>0, <3>1 DEF Evicted
  <2>2. \A h \in G : pc'[h] = IF h = g THEN l ELSE pc[h]
    BY <1>0, <1>1, MoveFacts
  <2>3. op'[g].f = f
    BY <1>0, <1>1, MoveFacts
  <2>4. \A h \in G : pc'[h] = "evict" <=> h = g /\ l = "evict"
    BY <2>1, <2>2
  <2>5. closing' = FALSE /\ owner' = f
    BY <1>0, <1>2, <1>5 DEF FdInv, TypePoll
  <2>6. \A h \in G : pc'[h] = "evict" => ~closing' /\ fdmu'[op'[h].f].closed
    BY <1>3, <2>3, <2>4, <2>5
  <2>7. \A h \in G : pc'[h] \in {"evictR", "evictW"} => closing'
    BY <1>0, <1>2, <2>2 DEF Evicted
  <2>8. \A x \in F : owner' = x /\ fdmu'[x].closed => \E h \in G : pc'[h] = "evict"
    BY <1>3, <2>4, <2>5
  <2> QED BY <2>4, <2>5, <2>6, <2>7, <2>8 DEF Evicted
<1>10. Registered'
  <2>1. \A h \in G : pc'[h] = IF h = g THEN l ELSE pc[h]
    BY <1>0, <1>1, MoveFacts
  <2> QED BY <1>0, <1>2, <2>1, RegisteredKept
<1>11. /\ pc[g] \notin Waits \cup {"dlR", "dlW", "evictR", "evictW", "publish"}
       /\ l \notin Waits \cup {"dlR", "dlW", "evictR", "evictW", "publish"}
  BY DEF Waits
<1>12. ~throw'
  BY <1>0, <1>2
<1> QED BY <1>1, <1>2, <1>7, <1>8, <1>9, <1>10, <1>11, <1>12, MethodKeeps DEF Moves

\* g stops to use f: its last user destroys it.
LEMMA LeaveKeeps ==
  ASSUME FdInv, NEW g \in G, pc[g] \in {"unlock", "decref"}, NEW f, f = op[g].f,
         NEW o \in Op, NEW l \in {"idle", "csema", "destroy"}, NEW k,
         Moves(g, o, l), Becomes(f, fdmu[f].closed, k, fdmu[f].refs - 1),
         pc[g] = "unlock" => k = [fdmu[f].lock EXCEPT ![ModeOf(g)] = FALSE],
         pc[g] # "unlock" => k = fdmu[f].lock,
         l = "destroy" => o = op[g] /\ Last(fdmu'[f]),
         UNCHANGED <<pollVars, sysfd, owner, kernelVars>>, ~throw'
  PROVE  FdInv'
<1>0. TypeFd /\ Life /\ Evicted /\ Registered
  BY DEF FdInv
<1>1. l \in Labels /\ (l \in Destrs <=> l = "destroy") /\ l \notin IOs \cup Miscs
  BY DEF Labels, Destrs, IOs, Miscs
<1>2. UNCHANGED <<pollVars, sysfd, owner, avail, edge, reg, closing, fdseq>>
  BY DEF kernelVars, pollVars
<1>3. Using(g) /\ f \in F /\ owner = f
  BY <1>0 DEF Using, InIO, InMisc, Life, Active
<1>4. /\ fdmu' \in [F -> Word] /\ \A x \in F : x # f => fdmu'[x] = fdmu[x]
      /\ fdmu'[f].closed = fdmu[f].closed /\ fdmu'[f].lock = k
      /\ fdmu'[f].refs = fdmu[f].refs - 1
  BY DEF Becomes
<1>5. fdmu[f].lock \in [Mode -> BOOLEAN]
  BY <1>0, <1>3 DEF TypeFd, Word
<1>6. /\ \A h \in G : ~Destroying(h)
      /\ \A h \in G : Using(h) => op[h].f = f
  BY <1>0, <1>3, NoUser DEF Life, Active
<1>7. TypeFd'
  BY <1>0, <1>1, <1>2, <1>4, MoveFacts DEF TypeFd
<1>8. Life'
  <2>1. \A h \in G : Active(h)' => op'[h].f \in F /\ owner' = op'[h].f
    BY <1>0, <1>1, <1>2, <1>3, MoveFacts DEF Life
  <2>2. \A h \in G : Asleep(h)' => op'[h].f \in F /\ sysfd'[op'[h].f] \in {"open", "closed"}
    BY <1>0, <1>1, <1>2, MoveFacts DEF Life
  <2>3. \A x \in F : /\ owner' = x <=> sysfd'[x] = "open"
                     /\ sysfd'[x] = "closed" => fdmu'[x].closed
                     /\ sysfd'[x] = "new" => ~fdmu'[x].closed
    BY <1>0, <1>2, <1>4 DEF Life
  <2>4. \A x \in F : fdmu'[x].refs = Cardinality(Users(x)')
    <3>1. \A h \in G : h # g => (Using(h)' <=> Using(h)) /\ op'[h] = op[h]
      BY <1>0, <1>1, MoveFacts
    <3>2. ~Using(g)'
      BY <1>0, <1>1, MoveFacts
    <3> QED BY <1>0, <1>3, <1>4, <3>1, <3>2, UsersStep
  <2>5. \A h \in G : InIO(h)' => /\ h # g /\ InIO(h) /\ op'[h] = op[h] /\ op[h].f = f
                                 /\ ModeOf(h)' = ModeOf(h) /\ ModeOf(h) \in Mode
    BY <1>0, <1>1, <1>6, MoveFacts DEF Using, ModeOf, Mode
  <2>6. \A h \in G : InIO(h)' => fdmu'[op'[h].f].lock[ModeOf(h)']
    <3> SUFFICES ASSUME NEW h \in G, InIO(h)'
                 PROVE  fdmu'[f].lock[ModeOf(h)]
      BY <2>5
    <3>1. fdmu[f].lock[ModeOf(h)]
      BY <1>0, <2>5 DEF Life
    <3>2. pc[g] = "unlock" => ModeOf(h) # ModeOf(g)
      BY <1>0, <2>5 DEF Life, InIO
    <3> QED BY <1>4, <1>5, <2>5, <3>1, <3>2
  <2>7. \A h, i \in G : InIO(h)' /\ InIO(i)' /\ ModeOf(h)' = ModeOf(i)' => h = i
    BY <1>0, <2>5 DEF Life
  <2>8. \A h \in G : Destroying(h)' => h = g /\ op'[h].f = f /\ Last(fdmu'[f])
    BY <1>0, <1>1, <1>6, MoveFacts
  <2> QED BY <2>1, <2>2, <2>3, <2>4, <2>6, <2>7, <2>8 DEF Life, Last
<1>9. \A h \in G : pc'[h] = IF h = g THEN l ELSE pc[h]
  BY <1>0, <1>1, MoveFacts
<1>10. Evicted'
  <2>1. \A h \in G : h # g => op'[h] = op[h]
    BY <1>0, <1>1, MoveFacts
  <2>2. \A h \in G : pc[h] = "evict" => op[h].f = f
    BY <1>6 DEF Using, InMisc
  <2> QED BY <1>0, <1>2, <1>3, <1>4, <1>9, <2>1, <2>2 DEF Evicted
<1>11. Registered'
  BY <1>0, <1>2, <1>9, RegisteredKept
<1>12. /\ pc[g] \notin Waits \cup {"dlR", "dlW", "evictR", "evictW", "publish"}
       /\ l \notin Waits \cup {"dlR", "dlW", "evictR", "evictW", "publish"}
  BY DEF Waits
<1> QED BY <1>1, <1>2, <1>7, <1>8, <1>10, <1>11, <1>12, MethodKeeps DEF Moves

\* g uses no descriptor before and after the step.
LEMMA RestKeeps ==
  ASSUME FdInv, NEW g \in G, pc[g] \in {"idle", "rwsleep", "rwlock", "csema"},
         NEW o \in Op, NEW l \in {"idle", "rwsleep", "rwlock"}, Moves(g, o, l),
         l # "idle" => o.f \in F /\ sysfd[o.f] \in {"open", "closed"},
         fdmu' \in [F -> Word],
         \A x \in F : /\ fdmu'[x].closed = fdmu[x].closed /\ fdmu'[x].lock = fdmu[x].lock
                      /\ fdmu'[x].refs = fdmu[x].refs,
         UNCHANGED <<pollVars, throw, sysfd, owner, kernelVars>>
  PROVE  FdInv'
<1>0. TypeFd /\ Life /\ Evicted /\ Registered /\ ~throw
  BY DEF FdInv
<1>1. l \in Labels /\ l \notin IOs \cup Miscs \cup Destrs
  BY DEF Labels, Destrs, IOs, Miscs
<1>2. UNCHANGED <<pollVars, throw, sysfd, owner, avail, edge, reg, closing, fdseq>>
  BY DEF kernelVars, pollVars
<1>3. ~Using(g) /\ ~Active(g) /\ pc[g] # "evict"
  BY DEF Active, Using, InIO, InMisc, Destroying
<1>4. TypeFd'
  BY <1>0, <1>1, <1>2, MoveFacts DEF TypeFd
<1>5. Life'
  <2>1. \A h \in G : Active(h)' => Active(h) /\ op'[h] = op[h]
    BY <1>0, <1>1, MoveFacts
  <2>2. \A h \in G : Asleep(h)' => op'[h].f \in F /\ sysfd'[op'[h].f] \in {"open", "closed"}
    BY <1>0, <1>1, <1>2, MoveFacts DEF Life
  <2>3. \A x \in F : fdmu'[x].refs = Cardinality(Users(x)')
    <3>1. \A x \in F : Users(x)' = Users(x)
      BY <1>0, <1>1, <1>3, MoveFacts DEF Users
    <3> QED BY <1>0, <3>1 DEF Life
  <2>4. \A h \in G : InIO(h)' => InIO(h) /\ op'[h] = op[h] /\ ModeOf(h)' = ModeOf(h)
    BY <1>0, <1>1, MoveFacts
  <2>5. \A h \in G : InIO(h) => op[h].f \in F
    BY <1>0 DEF Life, Active, Using
  <2>6. \A h \in G : Destroying(h)' => Destroying(h) /\ op'[h] = op[h]
    BY <1>0, <1>1, MoveFacts
  <2>7. \A h \in G : Destroying(h) => op[h].f \in F
    BY <1>0 DEF Life, Active
  <2>8. \A h \in G : InIO(h)' => fdmu'[op'[h].f].lock[ModeOf(h)']
    BY <1>0, <2>4, <2>5 DEF Life
  <2>9. \A h, i \in G : InIO(h)' /\ InIO(i)' /\ ModeOf(h)' = ModeOf(i)' => h = i
    BY <1>0, <2>4 DEF Life
  <2>10. \A h \in G : Destroying(h)' => fdmu'[op'[h].f].closed /\ fdmu'[op'[h].f].refs = 0
    BY <1>0, <2>6, <2>7 DEF Life
  <2>11. \A h, i \in G : Destroying(h)' /\ Destroying(i)' => h = i
    BY <1>0, <2>6 DEF Life
  <2>12. /\ \A h \in G : Active(h)' => op'[h].f \in F /\ owner' = op'[h].f
         /\ \A x \in F : /\ owner' = x <=> sysfd'[x] = "open"
                         /\ sysfd'[x] = "closed" => fdmu'[x].closed
                         /\ sysfd'[x] = "new" => ~fdmu'[x].closed
    BY <1>0, <1>2, <2>1 DEF Life
  <2> QED BY <2>2, <2>3, <2>8, <2>9, <2>10, <2>11, <2>12 DEF Life
<1>6. \A h \in G : pc'[h] = IF h = g THEN l ELSE pc[h]
  BY <1>0, <1>1, MoveFacts
<1>7. Evicted'
  <2>1. \A h \in G : pc'[h] = "evict" <=> pc[h] = "evict"
    BY <1>3, <1>6
  <2>2. \A h \in G : pc'[h] = "evict" => op'[h] = op[h] /\ op[h].f \in F
    <3>1. \A h \in G : pc[h] = "evict" => h # g /\ Active(h)
      BY <1>3 DEF Active, Using, InMisc
    <3> QED BY <1>0, <1>1, <2>1, <3>1, MoveFacts DEF Life
  <2>3. \A h \in G : pc'[h] \in {"evictR", "evictW"} => pc[h] \in {"evictR", "evictW"}
    BY <1>6
  <2>4. \A h \in G : pc'[h] = "evict" => ~closing' /\ fdmu'[op'[h].f].closed
    BY <1>0, <1>2, <2>1, <2>2 DEF Evicted
  <2>5. \A x \in F : owner' = x /\ fdmu'[x].closed /\ ~closing' => \E h \in G : pc'[h] = "evict"
    BY <1>0, <1>2, <2>1 DEF Evicted
  <2> QED BY <1>0, <1>2, <2>1, <2>3, <2>4, <2>5 DEF Evicted
<1>8. Registered'
  BY <1>0, <1>2, <1>6, RegisteredKept
<1>9. /\ pc[g] \notin Waits \cup {"dlR", "dlW", "evictR", "evictW", "publish"}
      /\ l \notin Waits \cup {"dlR", "dlW", "evictR", "evictW", "publish"}
  BY DEF Waits
<1>10. ~throw'
  BY <1>0, <1>2
<1> QED BY <1>1, <1>2, <1>4, <1>5, <1>7, <1>8, <1>9, <1>10, MethodKeeps DEF Moves

LEMMA NoOpFacts == NoOp \in Op
BY DEF NoOp, Op

\* destroy gives the pollDesc back and closes the file: nobody uses it.
LEMMA SysfdKeeps ==
  ASSUME FdInv, NEW g \in G, destroySysfd(g)
  PROVE  FdInv'
<1>0. TypeFd /\ Life /\ Evicted /\ Registered /\ ~throw
  BY DEF FdInv
<1> DEFINE f == op[g].f
<1>1. PICK o \in Op, l \in {"idle", "csema"} : Moves(g, o, l)
  <2>1. op[g] \in Op /\ op = [op EXCEPT ![g] = op[g]]
    BY <1>0 DEF TypeFd
  <2>2. CASE op[g].kind = "close"
    BY <2>1, <2>2 DEF destroySysfd, AfterDecref, Goto, Moves
  <2>3. CASE op[g].kind # "close"
    BY <2>3, NoOpFacts DEF destroySysfd, AfterDecref, Return, Do, Goto, Moves
  <2> QED BY <2>2, <2>3
<1>2. /\ UNCHANGED <<pollVars, throw, fdmu, avail, edge, reg, closing>> /\ pc[g] = "sysclose"
      /\ owner' = None /\ sysfd' = [sysfd EXCEPT ![f] = "closed"]
  BY DEF destroySysfd, kernelVars, pollVars, fdmuVars
<1>3. l \in Labels /\ l \notin IOs \cup Miscs \cup Destrs /\ l \notin {"rwsleep", "rwlock"}
  BY DEF Labels, Destrs, IOs, Miscs
<1>4. Destroying(g) /\ ~Using(g) /\ f \in F /\ owner = f /\ fdmu[f].closed
  BY <1>0, <1>2 DEF Destroying, Life, Active, Using, InIO, InMisc
<1>5. \A h \in G : ~Using(h) /\ (Destroying(h) => h = g)
  BY <1>0, <1>4, NoUser DEF Life
<1>6. \A x \in F : sysfd'[x] = IF x = f THEN "closed" ELSE sysfd[x]
  BY <1>0, <1>2 DEF TypeFd
<1>7. TypeFd'
  BY <1>0, <1>1, <1>2, <1>3, <1>4, MoveFacts DEF TypeFd, Sysfd
<1>8. Life'
  <2>1. \A h \in G : ~Active(h)'
    BY <1>0, <1>1, <1>3, <1>5, MoveFacts DEF Active
  <2>2. \A h \in G : ~InIO(h)' /\ ~Using(h)' /\ ~Destroying(h)'
    BY <2>1 DEF Active, Using
  <2>3. \A h \in G : Asleep(h)' => op'[h].f \in F /\ sysfd'[op'[h].f] \in {"open", "closed"}
    BY <1>0, <1>1, <1>3, <1>6, MoveFacts DEF Life
  <2>4. \A x \in F : /\ owner' = x <=> sysfd'[x] = "open"
                     /\ sysfd'[x] = "closed" => fdmu'[x].closed
                     /\ sysfd'[x] = "new" => ~fdmu'[x].closed
    BY <1>0, <1>2, <1>4, <1>6, NamesAssumption DEF Life
  <2>5. \A x \in F : fdmu'[x].refs = Cardinality(Users(x)')
    <3>1. \A x \in F : Users(x)' = Users(x)
      BY <1>5, <2>2 DEF Users
    <3> QED BY <1>0, <1>2, <3>1 DEF Life
  <2> QED BY <2>1, <2>2, <2>3, <2>4, <2>5 DEF Life
<1>9. Evicted' /\ Registered'
  <2>1. \A h \in G : pc'[h] # "evict"
    BY <1>0, <1>1, <1>3, <1>5, MoveFacts DEF Using, InMisc
  <2>2. \A h \in G : pc'[h] \notin {"evictR", "evictW"}
    BY <1>0, <1>1, <1>3, <1>5, MoveFacts DEF Using, InMisc
  <2> QED BY <1>2, <2>1, <2>2, NamesAssumption DEF Evicted, Registered
<1>10. /\ pc[g] \notin Waits \cup {"dlR", "dlW", "evictR", "evictW", "publish"}
       /\ l \notin Waits \cup {"dlR", "dlW", "evictR", "evictW", "publish"}
  BY <1>2 DEF Waits
<1>11. ~throw'
  BY <1>0, <1>2
<1> QED BY <1>1, <1>2, <1>3, <1>7, <1>8, <1>9, <1>10, <1>11, MethodKeeps DEF Moves

\* A method is refused: the descriptor is closed.
LEMMA RefusedKeeps ==
  ASSUME FdInv, NEW g \in G, pc[g] \in {"idle", "rwlock"}, Return(g), UNCHANGED <<fdmuVars, Rest>>
  PROVE  FdInv'
<1>1. Moves(g, NoOp, "idle")
  BY DEF Return, Do, Goto, Moves
<1>2. fdmu' \in [F -> Word] /\ UNCHANGED <<fdmu, pollVars, throw, sysfd, owner, kernelVars>>
  BY DEF FdInv, TypeFd, fdmuVars, Rest
<1> QED BY <1>1, <1>2, NoOpFacts, RestKeeps

LEMMA FdLockKeeps ==
  ASSUME FdInv, NEW g \in G, pc[g] \in {"idle", "rwlock"}, NEW o \in Op, o.f \in F,
         sysfd[o.f] \in {"open", "closed"}, fdLock(g, o), UNCHANGED Rest
  PROVE  FdInv'
<1>0. TypeFd
  BY DEF FdInv
<1> DEFINE m == ModeFor(o)
           f == o.f
<1>1. m \in Mode
  BY DEF ModeFor, Mode
<1>2. CASE rwlock(f, m) /\ Do(g, o, "prepare")
  <2>1. /\ ~fdmu[f].closed /\ ~fdmu[f].lock[m]
        /\ Becomes(f, FALSE, [fdmu[f].lock EXCEPT ![m] = TRUE], fdmu[f].refs + 1)
    BY <1>0, <1>1, <1>2, WordFacts
  <2>2. Moves(g, o, "prepare")
    BY <1>2 DEF Do, Goto, Moves
  <2> QED BY <2>1, <2>2, EnterKeeps DEF Becomes
<1>3. CASE rwlockWait(f, m) /\ Do(g, o, "rwsleep")
  <2>1. Becomes(f, fdmu[f].closed, fdmu[f].lock, fdmu[f].refs)
    BY <1>0, <1>1, <1>3, WordFacts
  <2>2. /\ fdmu' \in [F -> Word]
        /\ \A x \in F : /\ fdmu'[x].closed = fdmu[x].closed /\ fdmu'[x].lock = fdmu[x].lock
                        /\ fdmu'[x].refs = fdmu[x].refs
    BY <2>1 DEF Becomes
  <2>3. Moves(g, o, "rwsleep")
    BY <1>3 DEF Do, Goto, Moves
  <2>4. UNCHANGED <<pollVars, throw, sysfd, owner, kernelVars>>
    BY DEF Rest
  <2> QED BY <2>2, <2>3, <2>4, RestKeeps
<1>4. CASE Return(g) /\ UNCHANGED fdmuVars
  BY <1>4, RefusedKeeps
<1> QED BY <1>2, <1>3, <1>4 DEF fdLock, ModeFor

LEMMA FdRefKeeps ==
  ASSUME FdInv, NEW g \in G, pc[g] = "idle", NEW o \in Op, o.f \in F,
         sysfd[o.f] \in {"open", "closed"}, fdIncref(g, o) \/ fdClose(g, o), UNCHANGED Rest
  PROVE  FdInv'
<1>0. TypeFd /\ "r" \in Mode
  BY DEF FdInv, Mode
<1> DEFINE f == o.f
<1>1. CASE incref(f) /\ Do(g, o, "setdl")
  <2>1. ~fdmu[f].closed /\ Becomes(f, FALSE, fdmu[f].lock, fdmu[f].refs + 1)
    BY <1>0, <1>1, WordFacts
  <2>2. Moves(g, o, "setdl")
    BY <1>1 DEF Do, Goto, Moves
  <2> QED BY <2>1, <2>2, EnterKeeps DEF Becomes
<1>2. CASE increfAndClose(f) /\ Do(g, o, "evict")
  <2>1. ~fdmu[f].closed /\ Becomes(f, TRUE, fdmu[f].lock, fdmu[f].refs + 1)
    BY <1>0, <1>2, WordFacts
  <2>2. Moves(g, o, "evict")
    BY <1>2 DEF Do, Goto, Moves
  <2> QED BY <2>1, <2>2, EnterKeeps DEF Becomes
<1>3. CASE Return(g) /\ UNCHANGED fdmuVars
  BY <1>3, RefusedKeeps
<1> QED BY <1>1, <1>2, <1>3 DEF fdIncref, fdClose

LEMMA CallKeeps ==
  ASSUME FdInv, NEW g \in G, NEW o \in Ops[g], Call(g, o)
  PROVE  FdInv'
<1>1. o \in Op /\ o.f \in F
  BY OpsAssumption DEF Op
<1> QED BY <1>1, FdLockKeeps, FdRefKeeps DEF Call, Calls

\* The semaphore of fdMutex was released: rwlock starts over.
LEMMA WokenKeeps ==
  ASSUME FdInv, NEW g \in G, fdLockWoken(g) \/ fdLockAgain(g)
  PROVE  FdInv'
<1>0. TypeFd /\ Life
  BY DEF FdInv
<1>1. op[g] \in Op /\ op[g].f \in F /\ sysfd[op[g].f] \in {"open", "closed"}
  BY <1>0 DEF Life, TypeFd, Asleep, fdLockWoken, fdLockAgain
<1>2. CASE fdLockWoken(g)
  <2>1. Moves(g, op[g], "rwlock")
    BY <1>0, <1>2 DEF fdLockWoken, Goto, Moves, TypeFd
  <2>2. /\ pc[g] = "rwsleep" /\ fdmu' \in [F -> Word]
        /\ UNCHANGED <<fdmu, pollVars, throw, sysfd, owner, kernelVars>>
    BY <1>0, <1>2 DEF fdLockWoken, rwlockWoken, TypeFd, Rest
  <2> QED BY <1>1, <2>1, <2>2, RestKeeps
<1>3. CASE fdLockAgain(g)
  BY <1>1, <1>3, FdLockKeeps DEF fdLockAgain
<1> QED BY <1>2, <1>3

LEMMA UnlockKeeps ==
  ASSUME FdInv, NEW g \in G, fdUnlock(g) \/ fdDecref(g)
  PROVE  FdInv'
<1>0. TypeFd /\ Life /\ ModeOf(g) \in Mode
  BY DEF FdInv, ModeOf, Mode
<1> DEFINE f == op[g].f
<1>a. pc[g] \in {"unlock", "decref"}
  BY DEF fdUnlock, fdDecref
<1>2. f \in F /\ fdmu[f].refs > 0
  <2>1. Using(g) /\ f \in F
    BY <1>0, <1>a DEF Using, InIO, InMisc, Life, Active
  <2>2. g \in Users(f) /\ Users(f) \in SUBSET G
    BY <2>1 DEF Users
  <2>3. IsFiniteSet(Users(f)) /\ Users(f) # {}
    BY <2>2, FS_Subset, OpsAssumption
  <2>4. Cardinality(Users(f)) \in Nat /\ Cardinality(Users(f)) # 0
    BY <2>3, FS_CardinalityType, FS_EmptySet
  <2> QED BY <1>0, <2>1, <2>4 DEF Life
<1>1. UNCHANGED <<pollVars, sysfd, owner, kernelVars>> /\ ~throw'
  <2>1. ~throw /\ ~decrefPanics(f) /\ (pc[g] = "unlock" => ~rwunlockPanics(f, ModeOf(g)))
    BY <1>0, <1>2 DEF FdInv, Life, InIO, decrefPanics, rwunlockPanics
  <2>2. CASE fdUnlock(g)
    BY <2>1, <2>2 DEF fdUnlock, fileVars
  <2>3. CASE fdDecref(g)
    BY <2>1, <2>3 DEF fdDecref, fileVars
  <2> QED BY <2>2, <2>3
<1>3. PICK o \in Op, l \in {"idle", "csema", "destroy"} :
        Moves(g, o, l) /\ (l = "destroy" => o = op[g] /\ Last(fdmu'[f]))
  <2>1. op[g] \in Op /\ op = [op EXCEPT ![g] = op[g]]
    BY <1>0 DEF TypeFd
  <2>2. CASE Last(fdmu'[f])
    <3>1. Moves(g, op[g], "destroy")
      BY <2>1, <2>2 DEF fdUnlock, fdDecref, Goto, Moves
    <3> QED BY <2>1, <2>2, <3>1
  <2>3. CASE ~Last(fdmu'[f])
    <3>1. Return(g) \/ (Goto(g, "csema") /\ UNCHANGED op)
      BY <2>3 DEF fdUnlock, fdDecref, AfterDecref
    <3>2. Moves(g, NoOp, "idle") \/ Moves(g, op[g], "csema")
      BY <2>1, <3>1 DEF Return, Do, Goto, Moves
    <3> QED BY <2>1, <3>2, NoOpFacts
  <2> QED BY <2>2, <2>3
<1>4. CASE fdUnlock(g)
  <2>1. Becomes(f, fdmu[f].closed, [fdmu[f].lock EXCEPT ![ModeOf(g)] = FALSE], fdmu[f].refs - 1)
    BY <1>0, <1>2, <1>4, WordFacts DEF fdUnlock
  <2>2. pc[g] = "unlock"
    BY <1>4 DEF fdUnlock
  <2> QED BY <1>a, <1>1, <1>3, <2>1, <2>2, LeaveKeeps
<1>5. CASE fdDecref(g)
  <2>1. Becomes(f, fdmu[f].closed, fdmu[f].lock, fdmu[f].refs - 1)
    BY <1>0, <1>2, <1>5, WordFacts DEF fdDecref, Mode
  <2>2. pc[g] = "decref"
    BY <1>5 DEF fdDecref
  <2> QED BY <1>a, <1>1, <1>3, <2>1, <2>2, LeaveKeeps
<1> QED BY <1>4, <1>5

LEMMA CloseWaitKeeps ==
  ASSUME FdInv, NEW g \in G, closeWait(g)
  PROVE  FdInv'
<1>1. Moves(g, NoOp, "idle")
  BY DEF closeWait, Return, Do, Goto, Moves
<1>2. /\ pc[g] = "csema" /\ fdmu' \in [F -> Word]
      /\ UNCHANGED <<fdmu, pollVars, throw, sysfd, owner, kernelVars>>
  BY DEF FdInv, TypeFd, fdmuVars, closeWait
<1> QED BY <1>1, <1>2, NoOpFacts, RestKeeps

-----------------------------------------------------------------------------
(* The theorems.                                                           *)

LEMMA InitInv == Init => FdInv
<1> SUFFICES ASSUME Init
             PROVE  FdInv
  OBVIOUS
<1>0. /\ \A g \in G : pc[g] = "idle" /\ op[g] = NoOp
      /\ \A f \in F : fdmu[f] = Unused /\ sysfd[f] = "new"
      /\ \A m \in Mode : gpp[m] = "nil" /\ dl[m] = 0 /\ timer[m] = Off /\ run[m] = FALSE
      /\ owner = None /\ fired = {} /\ unblocked = {} /\ cb = "none" /\ pdlock = None
      /\ closing = FALSE /\ throw = FALSE /\ "r" \in Mode /\ "w" \in Mode
  BY DEF Init, FdMutexInit, PollInit, Mode
<1>1. TypeFd
  <2>1. Unused \in Word
    BY DEF Unused, Word
  <2> QED BY <2>1, NoOpFacts DEF Init, FdMutexInit, TypeFd, Labels, Sysfd
<1>2. TypePoll
  <2>1. Off \in Timer /\ NoEvent \in Event
    BY DEF Off, Timer, NoEvent, Event
  <2>2. info \in Info
    BY DEF Init, PollInit, Info
  <2>3. /\ gpp \in [Mode -> {"nil", "ready", "wait"} \cup G] /\ timer \in [Mode -> Timer]
        /\ dl \in [Mode -> Int] /\ run \in [Mode -> BOOLEAN] /\ seq \in [Mode -> Nat]
    BY <2>1 DEF Init, PollInit
  <2>4. ev \in [Poller -> Event] /\ npc \in [Poller -> {"wait", "check", "err", "readyR", "readyW"}]
    BY <2>1 DEF Init, PollInit
  <2> QED BY <1>0, <2>2, <2>3, <2>4 DEF Init, PollInit, TypePoll
<1>3. Life
  <2>1. \A g \in G : ~Active(g) /\ ~Using(g) /\ ~InIO(g) /\ ~Destroying(g) /\ ~Asleep(g)
    BY <1>0 DEF Active, Using, InIO, InMisc, Destroying, Asleep
  <2>2. \A f \in F : Users(f) = {}
    BY <2>1 DEF Users
  <2>3. \A f \in F : fdmu[f].closed = FALSE /\ fdmu[f].refs = 0
    <3>1. Unused.closed = FALSE /\ Unused.refs = 0
      BY DEF Unused
    <3> QED BY <1>0, <3>1
  <2> QED BY <1>0, <2>1, <2>2, <2>3, FS_EmptySet, NamesAssumption DEF Life
<1>4. Locked /\ Waiting /\ Evicted
  BY <1>0, NamesAssumption DEF Locked, Waiting, Evicted
<1>5. Timers
  BY <1>0 DEF Timers, Off
<1>6. Published
  <2>1. info.closing = FALSE /\ info.expired = {}
    BY DEF Init, PollInit
  <2>2. {m \in Mode : dl[m] < 0} = {}
    BY <1>0
  <2> QED BY <1>0, <2>1, <2>2 DEF Published
<1>7. Registered /\ Told /\ Cancelled
  BY <1>0, NamesAssumption DEF Registered, Told, Cancelled, Parks
<1> QED BY <1>0, <1>1, <1>2, <1>3, <1>4, <1>5, <1>6, <1>7 DEF FdInv

LEMMA RunPollKeeps ==
  ASSUME FdInv, NEW g \in G, RunPoll(g), UNCHANGED Outside
  PROVE  FdInv'
<1>1. CASE pollReset(g) \/ pollWait(g) \/ netpollRecheck(g)
  BY <1>1, CheckKeeps
<1>2. CASE pollResetStore(g) \/ netpollblock(g) \/ netpollblockcommit(g) \/ netpollSwap(g)
  BY <1>2, WaiterKeeps
<1>3. CASE pollSetDeadline(g)
  BY <1>3, SetDeadlineKeeps
<1>4. CASE setDeadlineR(g) \/ setDeadlineW(g)
  BY <1>4, LateKeeps
<1>5. CASE pollUnblock(g)
  BY <1>5, PollUnblockKeeps
<1>6. CASE evictR(g) \/ evictW(g)
  BY <1>6, EvictKeeps
<1>7. CASE pollFree(g) \/ pollFreePublish(g)
  BY <1>7, DestroyKeeps
<1> QED BY <1>1, <1>2, <1>3, <1>4, <1>5, <1>6, <1>7 DEF RunPoll

LEMMA RunKeeps ==
  ASSUME FdInv, NEW g \in G, Run(g)
  PROVE  FdInv'
<1>1. CASE RunPoll(g) /\ UNCHANGED Outside
  BY <1>1, RunPollKeeps
<1>2. CASE fdLockWoken(g) \/ fdLockAgain(g)
  BY <1>2, WokenKeeps
<1>3. CASE syscall(g)
  BY <1>3, SyscallKeeps
<1>4. CASE fdUnlock(g) \/ fdDecref(g)
  BY <1>4, UnlockKeeps
<1>5. CASE destroy(g)
  BY <1>5, DestroyKeeps
<1>6. CASE destroySysfd(g)
  BY <1>6, SysfdKeeps
<1>7. CASE closeWait(g)
  BY <1>7, CloseWaitKeeps
<1> QED BY <1>1, <1>2, <1>3, <1>4, <1>5, <1>6, <1>7 DEF Run

LEMMA StutterKeeps == FdInv /\ UNCHANGED vars => FdInv'
<1> SUFFICES ASSUME FdInv, UNCHANGED vars
             PROVE  FdInv'
  OBVIOUS
<1>1. /\ UNCHANGED <<pc, op, fdmu, sysfd, owner, gpp, unblocked, pdlock, cb, closing, dl,
                     run, seq, timer, fired, fdseq, reg, throw>>
      /\ UNCHANGED <<info, ev, npc, avail, edge>>
  BY DEF vars, fdmuVars, pollVars, fileVars, kernelVars
<1>2. Told'
  BY <1>1, ToldKept DEF FdInv
<1> QED BY <1>1, <1>2, QuietKeeps DEF FdInv, TypePoll

LEMMA NextInv == FdInv /\ [Next]_vars => FdInv'
<1> SUFFICES ASSUME FdInv, [Next]_vars
             PROVE  FdInv'
  OBVIOUS
<1>1. ASSUME NEW f \in F, NEW ok \in BOOLEAN, Open(f, ok)
      PROVE  FdInv'
  BY <1>1, OpenKeeps
<1>2. CASE fail \/ \E m \in Mode : arrive(m)
  BY <1>2, EdgeKeeps
<1>3. ASSUME NEW m \in Mode, Fire(m)
      PROVE  FdInv'
  BY <1>3, FireKeeps
<1>4. ASSUME NEW g \in G, Run(g) \/ \E o \in Ops[g] : Call(g, o)
      PROVE  FdInv'
  BY <1>4, RunKeeps, CallKeeps
<1>5. CASE RunTimer
  BY <1>5, DeadlineStartKeeps, TimerUnblockKeeps, ExpireWKeeps DEF RunTimer
<1>6. ASSUME NEW p \in Poller, RunPoller(p)
      PROVE  FdInv'
  BY <1>6, EpollWaitKeeps, PollerKeeps, NetpollreadyKeeps DEF RunPoller, Poll
<1>7. CASE UNCHANGED vars
  BY <1>7, StutterKeeps
<1> QED BY <1>1, <1>2, <1>3, <1>4, <1>5, <1>6, <1>7 DEF Next

\* The invariant holds of FD, whatever the goroutines call.
THEOREM FdInvariant == Spec => []FdInv
<1>1. Init => FdInv
  BY InitInv
<1>2. FdInv /\ [Next]_vars => FdInv'
  BY NextInv
<1> QED BY <1>1, <1>2, PTL DEF Spec

\* Whoever works on a descriptor works on its own open file and pollDesc, and
\* whoever destroys them is alone.
THEOREM FdAliveAlways == Spec => []FdAlive
<1>1. FdInv => FdAlive
  <2> SUFFICES ASSUME FdInv, NEW g \in G
               PROVE  /\ Active(g) => sysfd[op[g].f] = "open" /\ owner = op[g].f
                      /\ Destroying(g) => \A h \in G : h # g => ~Active(h)
    BY DEF FdAlive, Active, Using
  <2>0. Life
    BY DEF FdInv
  <2>1. Active(g) => sysfd[op[g].f] = "open" /\ owner = op[g].f
    BY <2>0 DEF Life
  <2>2. Destroying(g) => \A h \in G : h # g => ~Active(h)
    BY <2>0, NoUser DEF Life, Active
  <2> QED BY <2>1, <2>2
<1> QED BY <1>1, FdInvariant, PTL

\* None of the throws of netpoll.go and of the panics of fd_mutex.go is reached.
THEOREM NeverThrows == Spec => []NoThrow
<1>1. FdInv => NoThrow
  BY DEF FdInv, NoThrow
<1> QED BY <1>1, FdInvariant, PTL

\* Whoever is parked on a file that is ready for it will be told.
THEOREM ReadyNotLost == Spec => []NoLostReady
<1>1. FdInv => NoLostReady
  <2> SUFFICES ASSUME FdInv, NEW g \in G, pc[g] = "parked", gpp[ModeOf(g)] = g,
                      ModeOf(g) \in avail
               PROVE  \/ edge \cap {ModeOf(g), "err"} # {}
                      \/ \E p \in Poller : Carries(p, ModeOf(g))
    BY DEF NoLostReady
  <2>1. Told /\ gpp[ModeOf(g)] # "ready"
    BY NamesAssumption DEF FdInv
  <2> QED BY <2>1 DEF Told
<1> QED BY <1>1, FdInvariant, PTL

\* Nobody stays parked on a descriptor that is closing or past its deadline.
THEOREM CancelNotLost == Spec => []NoLostCancel
<1>1. FdInv => NoLostCancel
  <2> SUFFICES ASSUME FdInv, NEW g \in G, pc[g] = "parked", gpp[ModeOf(g)] = g,
                      info.closing \/ ModeOf(g) \in info.expired
               PROVE  WillUnblock(ModeOf(g))
    BY DEF NoLostCancel
  <2>1. closing \/ dl[ModeOf(g)] < 0
    BY DEF FdInv, Published
  <2>2. Parks(g) /\ Cancelled
    BY DEF FdInv, Parks
  <2> QED BY <2>1, <2>2 DEF Cancelled
<1> QED BY <1>1, FdInvariant, PTL

\* Only deadlineStart takes a call of the timer function off.
LEMMA FiredKept ==
  ASSUME Next
  PROVE  fired \subseteq fired' \/ deadlineStart
<1>1. ASSUME NEW f \in F, NEW ok \in BOOLEAN, Open(f, ok)
      PROVE  fired \subseteq fired'
  BY <1>1 DEF Open, pollOpen
<1>2. CASE fail \/ \E m \in Mode : arrive(m)
  BY <1>2 DEF fail, arrive, pollVars
<1>3. ASSUME NEW m \in Mode, Fire(m)
      PROVE  fired \subseteq fired'
  BY <1>3 DEF Fire, fireTimer
<1>4. ASSUME NEW g \in G, Run(g)
      PROVE  fired \subseteq fired'
  <2>1. CASE RunPoll(g)
    BY <2>1 DEF RunPoll, pollVars, pollReset, pollResetStore, pollWait, netpollblock,
                netpollRecheck, netpollblockcommit, netpollSwap, pollSetDeadline, setDeadlineR,
                setDeadlineW, pollUnblock, evictR, evictW, pollFree, pollFreePublish
  <2>2. CASE \/ fdLockWoken(g) \/ fdLockAgain(g) \/ syscall(g) \/ fdUnlock(g) \/ fdDecref(g)
             \/ destroy(g) \/ destroySysfd(g) \/ closeWait(g)
    BY <2>2 DEF fdLockWoken, fdLockAgain, syscall, fdUnlock, fdDecref, destroy, pollClose,
                destroySysfd, closeWait, Rest, pollVars
  <2> QED BY <1>4, <2>1, <2>2 DEF Run
<1>5. ASSUME NEW g \in G, NEW o \in Ops[g], Call(g, o)
      PROVE  fired \subseteq fired'
  BY <1>5 DEF Call, Rest, pollVars
<1>6. CASE RunTimer
  BY <1>6 DEF RunTimer, deadlineR, deadlineExpireW, deadlineW
<1>7. ASSUME NEW p \in Poller, RunPoller(p)
      PROVE  fired \subseteq fired'
  BY <1>7 DEF RunPoller, epollWait, Poll, netpollCheck, setEventErr, netpollready
<1> QED BY <1>1, <1>2, <1>3, <1>4, <1>5, <1>6, <1>7 DEF Next

\* A deadline expires only by the timer that was set for it.
THEOREM ExpiresOnTime == Spec => OnTime
<1> DEFINE A == \A c \in fired \ fired' : dl' # dl => \A m \in c.modes : dl[m] = c.when
<1>1. FdInv /\ [Next]_vars => [A]_vars
  <2> SUFFICES ASSUME FdInv, Next, NEW c \in fired, c \notin fired', dl' # dl, NEW m \in c.modes
               PROVE  dl[m] = c.when
    OBVIOUS
  <2>1. deadlineStart
    BY FiredKept
  <2>2. c.seq = seq[First(c)]
    <3>1. PICK d \in fired : /\ fired' = fired \ {d}
                             /\ d.seq # seq[First(d)] => UNCHANGED dl
      BY <2>1 DEF deadlineStart, First
    <3> QED BY <3>1
  <2>3. Timely(c)
    BY DEF FdInv, Timers
  <2> QED BY <2>2, <2>3 DEF Timely
<1> QED BY <1>1, FdInvariant, PTL DEF Spec, OnTime

=============================================================================
