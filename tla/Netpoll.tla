------------------------------ MODULE Netpoll -------------------------------
(***************************************************************************)
(* One pollDesc of the network poller (runtime/netpoll.go and, for the     *)
(* events, runtime/netpoll_epoll.go): goroutines that wait for a           *)
(* descriptor to become ready, deadlines, eviction, and the reuse of the   *)
(* pollDesc for another descriptor while old events and timers are about.  *)
(*                                                                         *)
(* pd.lock does not keep the waiters out: they use the words rg, wg and    *)
(* atomicInfo only.  So a section under the lock takes one step for each   *)
(* of these words it writes; it readies the goroutines it has unblocked in *)
(* the step that releases the lock, since nobody sees them before.         *)
(***************************************************************************)
EXTENDS FdMutex

CONSTANTS
  G,        \* goroutines
  None,     \* nobody
  Poller,   \* threads that call netpoll
  SeqMod    \* fdseq counts modulo this (1 << tagBits)

ASSUME SeqAssumption == SeqMod \in Nat /\ SeqMod > 1

ASSUME NamesAssumption ==
  /\ None \notin G \cup F
  /\ {"nil", "ready", "wait", "timer"} \cap (G \cup {None}) = {}

VARIABLES
  gpp,      \* rg and wg: "nil", "ready", "wait" or the goroutine that waits
  info,     \* atomicInfo
  fdseq, closing,
  dl,       \* rd and wd: 0 none, -1 expired, else an instant in the future
  run,      \* rrun and wrun
  seq,      \* rseq and wseq
  timer,    \* rt and wt: the modes whose deadline it is and its seq, if it is armed
  fired,    \* calls of netpolldeadlineimpl that wait for pd.lock
  pdlock,   \* the owner of pd.lock: a goroutine, or "timer" for such a call
  cb,       \* where that call is
  unblocked,\* goroutines the owner of pd.lock has unblocked
  ev,       \* the event each poller is at
  npc,      \* where each poller is with it
  pc,       \* where each goroutine is
  op,       \* the operation it is in
  throw     \* the runtime has thrown

pollVars == <<gpp, info, fdseq, closing, dl, run, seq, timer, fired, pdlock, cb,
              unblocked, ev, npc>>

Off      == [on |-> FALSE, modes |-> {}, seq |-> 0, when |-> 0]
NoEvent  == [modes |-> {}, err |-> FALSE, tag |-> 0]

\* The kind of an operation is "io" (Read or Write, in the mode of modes),
\* "deadline" (SetDeadline, of the modes to d) or "close"; f is the descriptor.
ModeOf(g) == IF "r" \in op[g].modes THEN "r" ELSE "w"

Goto(g, l) == pc' = [pc EXCEPT ![g] = l]

\* publishInfo, with the values just stored: all but the pollEventErr bit.
publishInfo(c, d, s) ==
  info' = [info EXCEPT !.closing = c, !.expired = {m \in Mode : d[m] < 0}, !.seq = s]

netpollcheckerr(m) ==
  IF info.closing THEN "closing"
  ELSE IF m \in info.expired THEN "timeout"
  ELSE IF m = "r" /\ info.eventErr THEN "notpollable"
  ELSE "none"

\* netpollunblock: what becomes of rg or wg, and whom it returns.
Unblock(m, ioready) ==
  gpp' = [gpp EXCEPT ![m] = IF @ = "ready" \/ ioready THEN "ready" ELSE "nil"]
Blocked(m) == {gpp[m]} \cap G

\* The owner of pd.lock releases it and readies whom it has unblocked, among
\* them gs; g itself goes on at l.
Ready(gs)            == pc' = [h \in G |-> IF h \in gs THEN "swap" ELSE pc[h]]
ReadyAndGoto(gs, g, l) ==
  pc' = [h \in G |-> IF h = g THEN l ELSE IF h \in gs THEN "swap" ELSE pc[h]]
Unlock == pdlock' = None /\ unblocked' = {}

PollInit ==
  /\ gpp = [m \in Mode |-> "nil"]
  /\ info = [closing |-> FALSE, eventErr |-> FALSE, expired |-> {}, seq |-> 0]
  /\ fdseq = 0 /\ closing = FALSE
  /\ dl = [m \in Mode |-> 0] /\ run = [m \in Mode |-> FALSE]
  /\ seq = [m \in Mode |-> 0] /\ timer = [m \in Mode |-> Off]
  /\ fired = {} /\ pdlock = None /\ cb = "none" /\ unblocked = {}
  /\ ev = [p \in Poller |-> NoEvent] /\ npc = [p \in Poller |-> "wait"]
  /\ throw = FALSE

-----------------------------------------------------------------------------
(* Waiting.  The caller goes on at "sys" (do the I/O) or, with an error,   *)
(* at "unlock".  Which error is left out: no caller here tells them apart. *)

\* poll_runtime_pollReset: the check, then the store.
pollReset(g) ==
  /\ pc[g] = "prepare"
  /\ Goto(g, IF netpollcheckerr(ModeOf(g)) = "none" THEN "reset" ELSE "unlock")
  /\ UNCHANGED <<pollVars, op, throw>>

pollResetStore(g) ==
  /\ pc[g] = "reset"
  /\ gpp' = [gpp EXCEPT ![ModeOf(g)] = "nil"]
  /\ Goto(g, "sys")
  /\ UNCHANGED <<info, fdseq, closing, dl, run, seq, timer, fired, pdlock, cb, unblocked,
                 ev, npc, op, throw>>

\* poll_runtime_pollWait: the check before each netpollblock.
pollWait(g) ==
  /\ pc[g] = "wait"
  /\ Goto(g, IF netpollcheckerr(ModeOf(g)) = "none" THEN "block" ELSE "unlock")
  /\ UNCHANGED <<pollVars, op, throw>>

\* netpollblock: consume a notification, or announce to wait.
netpollblock(g) ==
  LET m == ModeOf(g)
  IN  /\ pc[g] = "block"
      /\ CASE gpp[m] = "ready" -> /\ gpp' = [gpp EXCEPT ![m] = "nil"]
                                  /\ Goto(g, "sys") /\ UNCHANGED throw
           [] gpp[m] = "nil"   -> /\ gpp' = [gpp EXCEPT ![m] = "wait"]
                                  /\ Goto(g, "recheck") /\ UNCHANGED throw
           [] OTHER            -> throw' = TRUE /\ UNCHANGED <<gpp, pc>>
      /\ UNCHANGED <<info, fdseq, closing, dl, run, seq, timer, fired, pdlock, cb, unblocked,
                     ev, npc, op>>

\* Mutant: parks without a second look.
netpollRecheckBlind(g) ==
  /\ pc[g] = "recheck"
  /\ Goto(g, "commit")
  /\ UNCHANGED <<pollVars, op, throw>>

\* Look for an error again, now that the others can see the announcement.
netpollRecheck(g) ==
  /\ pc[g] = "recheck"
  /\ Goto(g, IF netpollcheckerr(ModeOf(g)) = "none" THEN "commit" ELSE "swap")
  /\ UNCHANGED <<pollVars, op, throw>>

\* gopark: if the announcement has been taken back, do not park.
netpollblockcommit(g) ==
  LET m == ModeOf(g)
  IN  /\ pc[g] = "commit"
      /\ IF gpp[m] = "wait" THEN gpp' = [gpp EXCEPT ![m] = g] /\ Goto(g, "parked")
                            ELSE UNCHANGED gpp /\ Goto(g, "swap")
      /\ UNCHANGED <<info, fdseq, closing, dl, run, seq, timer, fired, pdlock, cb, unblocked,
                     ev, npc, op, throw>>

\* Mutant: a notification that came meanwhile is lost.
netpollSwapLose(g) ==
  LET m == ModeOf(g)
  IN  /\ pc[g] = "swap"
      /\ gpp' = [gpp EXCEPT ![m] = "nil"]
      /\ Goto(g, "wait")
      /\ throw' = (throw \/ gpp[m] \in G)
      /\ UNCHANGED <<info, fdseq, closing, dl, run, seq, timer, fired, pdlock, cb, unblocked,
                     ev, npc, op>>

\* Mutant: pollWait tries again without looking for an error.
netpollSwapRetry(g) ==
  LET m == ModeOf(g)
  IN  /\ pc[g] = "swap"
      /\ gpp' = [gpp EXCEPT ![m] = "nil"]
      /\ Goto(g, IF gpp[m] = "ready" THEN "sys" ELSE "block")
      /\ throw' = (throw \/ gpp[m] \in G)
      /\ UNCHANGED <<info, fdseq, closing, dl, run, seq, timer, fired, pdlock, cb, unblocked,
                     ev, npc, op>>

\* The end of netpollblock, for a goroutine that was readied or did not park.
netpollSwap(g) ==
  LET m == ModeOf(g)
  IN  /\ pc[g] = "swap"
      /\ gpp' = [gpp EXCEPT ![m] = "nil"]
      /\ Goto(g, IF gpp[m] = "ready" THEN "sys" ELSE "wait")
      /\ throw' = (throw \/ gpp[m] \in G)
      /\ UNCHANGED <<info, fdseq, closing, dl, run, seq, timer, fired, pdlock, cb, unblocked,
                     ev, npc, op>>

-----------------------------------------------------------------------------
(* Deadlines.                                                              *)

\* Mutant: a running timer is not invalidated.
NewSeqKeep(d, c, c0) == seq

\* A running timer whose deadline changes gets a new sequence number.  c and c0:
\* one timer serves, or served, for both deadlines.
NewSeq(d, c, c0) ==
  [m \in Mode |-> IF run[m] /\ (d[m] # dl[m] \/ c # c0) THEN seq[m] + 1 ELSE seq[m]]

\* Where the unblocking of the modes ms starts.
From(ms) == IF "r" \in ms THEN "dlR" ELSE "dlW"

\* poll_runtime_pollSetDeadline up to publishInfo and the timers.
pollSetDeadline(g) ==
  LET new   == [m \in Mode |-> IF m \in op[g].modes THEN op[g].d ELSE dl[m]]
      combo == new["r"] > 0 /\ new["r"] = new["w"]
      was   == dl["r"] > 0 /\ dl["r"] = dl["w"]
      touch == {m \in Mode : ~run[m] \/ new[m] # dl[m] \/ combo # was}
      arm   == {m \in Mode : new[m] > 0 /\ ~(m = "w" /\ combo)}
      late  == {m \in Mode : new[m] < 0}
  IN  /\ pc[g] = "setdl" /\ pdlock = None
      /\ IF closing
           THEN /\ Goto(g, "decref")
                /\ UNCHANGED <<info, dl, run, seq, timer, pdlock>>
           ELSE /\ dl' = new
                /\ publishInfo(closing, new, fdseq)
                /\ seq' = NewSeq(new, combo, was)
                /\ run' = [m \in Mode |-> IF m \in touch THEN m \in arm ELSE run[m]]
                /\ timer' = [m \in Mode |->
                     IF m \notin touch THEN timer[m]
                     ELSE IF m \notin arm THEN Off
                     ELSE [on |-> TRUE, modes |-> IF combo THEN Mode ELSE {m},
                           seq |-> seq'[m], when |-> new[m]]]
                /\ IF late = {} THEN Goto(g, "decref") /\ UNCHANGED pdlock
                                ELSE Goto(g, From(late)) /\ pdlock' = g
      /\ UNCHANGED <<gpp, fdseq, closing, fired, cb, unblocked, ev, npc, op, throw>>

\* A deadline in the past unblocks the pending I/O.
setDeadlineR(g) ==
  /\ pc[g] = "dlR"
  /\ Unblock("r", FALSE)
  /\ IF dl["w"] < 0 THEN unblocked' = Blocked("r") /\ Goto(g, "dlW") /\ UNCHANGED pdlock
                    ELSE ReadyAndGoto(Blocked("r"), g, "decref") /\ Unlock
  /\ UNCHANGED <<info, fdseq, closing, dl, run, seq, timer, fired, cb, ev, npc, op, throw>>

setDeadlineW(g) ==
  /\ pc[g] = "dlW"
  /\ Unblock("w", FALSE)
  /\ ReadyAndGoto(unblocked \cup Blocked("w"), g, "decref") /\ Unlock
  /\ UNCHANGED <<info, fdseq, closing, dl, run, seq, timer, fired, cb, ev, npc, op, throw>>

\* The timer of mode m fires: its function is called, and waits for pd.lock.
fireTimer(m) ==
  /\ timer[m].on
  /\ timer' = [timer EXCEPT ![m] = Off]
  /\ fired' = fired \cup {[timer[m] EXCEPT !.on = FALSE]}
  /\ UNCHANGED <<gpp, info, fdseq, closing, dl, run, seq, pdlock, cb, unblocked, ev, npc,
                 pc, op, throw>>

\* Expire the deadline of m, under the lock.
Expire(m) ==
  /\ dl' = [dl EXCEPT ![m] = -1]
  /\ publishInfo(closing, dl', fdseq)

\* netpolldeadlineimpl takes the lock: a stale call is ignored.
deadlineStart ==
  /\ pdlock = None
  /\ \E c \in fired :
       LET m == IF "r" \in c.modes THEN "r" ELSE "w"
       IN  /\ fired' = fired \ {c}
           /\ IF c.seq # seq[m]
                THEN UNCHANGED <<dl, info, pdlock, cb, throw>>
                ELSE /\ Expire(m)
                     /\ throw' = (throw \/ dl[m] <= 0 \/ ~run[m])
                     /\ pdlock' = "timer"
                     /\ cb' = IF c.modes = {"r"} THEN "r" ELSE IF m = "r" THEN "rw" ELSE "w"
  /\ UNCHANGED <<gpp, fdseq, closing, run, seq, timer, unblocked, ev, npc, pc, op>>

\* Unblock the reader; if the timer is for both deadlines, the writer follows.
deadlineR ==
  /\ cb \in {"r", "rw"}
  /\ Unblock("r", FALSE)
  /\ IF cb = "rw" THEN /\ unblocked' = Blocked("r") /\ cb' = "expireW"
                       /\ UNCHANGED <<pdlock, pc>>
                  ELSE Ready(Blocked("r")) /\ Unlock /\ cb' = "none"
  /\ UNCHANGED <<info, fdseq, closing, dl, run, seq, timer, fired, ev, npc, op, throw>>

deadlineExpireW ==
  /\ cb = "expireW"
  /\ Expire("w")
  /\ throw' = (throw \/ dl["w"] <= 0)
  /\ cb' = "w"
  /\ UNCHANGED <<gpp, fdseq, closing, run, seq, timer, fired, pdlock, unblocked, ev, npc, pc,
                 op>>

deadlineW ==
  /\ cb = "w"
  /\ Unblock("w", FALSE)
  /\ Ready(unblocked \cup Blocked("w"))
  /\ Unlock /\ cb' = "none"
  /\ UNCHANGED <<info, fdseq, closing, dl, run, seq, timer, fired, ev, npc, op, throw>>

-----------------------------------------------------------------------------
(* Eviction, closing and reuse.                                            *)

\* poll_runtime_pollUnblock up to publishInfo.
pollUnblock(g) ==
  /\ pc[g] = "evict" /\ pdlock = None
  /\ throw' = (throw \/ closing)
  /\ closing' = TRUE
  /\ seq' = [m \in Mode |-> seq[m] + 1]
  /\ publishInfo(TRUE, dl, fdseq)
  /\ pdlock' = g
  /\ Goto(g, "evictR")
  /\ UNCHANGED <<gpp, fdseq, dl, run, timer, fired, cb, unblocked, ev, npc, op>>

evictR(g) ==
  /\ pc[g] = "evictR"
  /\ Unblock("r", FALSE) /\ unblocked' = Blocked("r")
  /\ Goto(g, "evictW")
  /\ UNCHANGED <<info, fdseq, closing, dl, run, seq, timer, fired, pdlock, cb, ev, npc,
                 op, throw>>

\* ... the rest: stop the timers, unlock.
evictW(g) ==
  /\ pc[g] = "evictW"
  /\ Unblock("w", FALSE)
  /\ ReadyAndGoto(unblocked \cup Blocked("w"), g, "decref")
  /\ timer' = [m \in Mode |-> IF run[m] THEN Off ELSE timer[m]]
  /\ run' = [m \in Mode |-> FALSE]
  /\ Unlock
  /\ UNCHANGED <<info, fdseq, closing, dl, seq, fired, cb, ev, npc, op, throw>>

InUse(m) == gpp[m] \notin {"nil", "ready"}

\* poll_runtime_pollClose: its checks; the descriptor leaves the kernel's set.
pollClose(g) ==
  /\ pc[g] = "destroy"
  /\ throw' = (throw \/ ~closing \/ \E m \in Mode : InUse(m))
  /\ Goto(g, "free")
  /\ UNCHANGED <<pollVars, op>>

\* pollCache.free: from now on old events do not match.
pollFree(g) ==
  /\ pc[g] = "free" /\ pdlock = None
  /\ pdlock' = g
  /\ fdseq' = (fdseq + 1) % SeqMod
  /\ Goto(g, "publish")
  /\ UNCHANGED <<gpp, info, closing, dl, run, seq, timer, fired, cb, unblocked, ev, npc,
                 op, throw>>

pollFreePublish(g) ==
  /\ pc[g] = "publish"
  /\ publishInfo(closing, dl, fdseq)
  /\ Unlock
  /\ Goto(g, "sysclose")
  /\ UNCHANGED <<gpp, fdseq, closing, dl, run, seq, timer, fired, cb, ev, npc, op, throw>>

\* poll_runtime_pollOpen; if netpollopen fails (~ok), the pollDesc is freed.
pollOpen(ok) ==
  LET s0 == IF fdseq = 0 THEN 1 ELSE fdseq
      s  == IF ok THEN s0 ELSE (s0 + 1) % SeqMod
  IN  /\ pdlock = None
      /\ throw' = (throw \/ \E m \in Mode : InUse(m))
      /\ fdseq' = s /\ closing' = FALSE
      /\ info' = [closing |-> FALSE, eventErr |-> FALSE, expired |-> {}, seq |-> s]
      /\ seq' = [m \in Mode |-> seq[m] + 1]
      /\ gpp' = [m \in Mode |-> "nil"]
      /\ dl' = [m \in Mode |-> 0]
      /\ UNCHANGED <<run, timer, fired, pdlock, cb, unblocked, ev, npc, pc, op>>

-----------------------------------------------------------------------------
(* netpoll, with the event it got from the kernel.                         *)

PGoto(p, l) == npc' = [npc EXCEPT ![p] = l]
Drop(p)     == PGoto(p, "wait") /\ ev' = [ev EXCEPT ![p] = NoEvent]

netpollCheck(p) ==
  /\ npc[p] = "check"
  /\ IF fdseq = ev[p].tag THEN PGoto(p, "err") /\ UNCHANGED ev ELSE Drop(p)
  /\ UNCHANGED <<gpp, info, fdseq, closing, dl, run, seq, timer, fired, pdlock, cb, unblocked,
                 pc, op, throw>>

\* Where netpollready starts.
FirstReady(p) == IF "r" \in ev[p].modes THEN "readyR" ELSE "readyW"

\* Mutant: the tag is not compared again.
setEventErrBlind(p) ==
  /\ npc[p] = "err"
  /\ info' = [info EXCEPT !.eventErr = ev[p].err]
  /\ PGoto(p, FirstReady(p))
  /\ UNCHANGED <<gpp, fdseq, closing, dl, run, seq, timer, fired, pdlock, cb, unblocked, ev,
                 pc, op, throw>>

setEventErr(p) ==
  /\ npc[p] = "err"
  /\ info' = IF info.seq = ev[p].tag THEN [info EXCEPT !.eventErr = ev[p].err] ELSE info
  /\ PGoto(p, FirstReady(p))
  /\ UNCHANGED <<gpp, fdseq, closing, dl, run, seq, timer, fired, pdlock, cb, unblocked, ev,
                 pc, op, throw>>

\* netpollready: rg, then wg, as the event says.  The goroutines it returns in a
\* list may run from now on: the scheduler decides when.
netpollready(p, m) ==
  /\ npc[p] = IF m = "r" THEN "readyR" ELSE "readyW"
  /\ Unblock(m, TRUE) /\ Ready(Blocked(m))
  /\ IF m = "r" /\ "w" \in ev[p].modes THEN PGoto(p, "readyW") /\ UNCHANGED ev ELSE Drop(p)
  /\ UNCHANGED <<info, fdseq, closing, dl, run, seq, timer, fired, pdlock, cb, unblocked,
                 op, throw>>

Poll(p) ==
  netpollCheck(p) \/ setEventErr(p) \/ \E m \in Mode : netpollready(p, m)

RunPoll(g) ==
  \/ pollReset(g) \/ pollResetStore(g) \/ pollWait(g) \/ netpollblock(g)
  \/ netpollRecheck(g) \/ netpollblockcommit(g) \/ netpollSwap(g)
  \/ pollSetDeadline(g) \/ setDeadlineR(g) \/ setDeadlineW(g)
  \/ pollUnblock(g) \/ evictR(g) \/ evictW(g) \/ pollFree(g) \/ pollFreePublish(g)

=============================================================================
