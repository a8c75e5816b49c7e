--------------------------------- MODULE FD ---------------------------------
(***************************************************************************)
(* poll.FD (internal/poll/fd_unix.go): goroutines read, write, set         *)
(* deadlines of and close descriptors, through fdMutex and the poller.     *)
(* The descriptors use one pollDesc, one after the other.  The kernel is   *)
(* what epoll in edge-triggered mode does with one file.                   *)
(***************************************************************************)
EXTENDS Netpoll, FiniteSets

CONSTANTS
  Ops,        \* for each goroutine, the operations it may call
  MaxCalls,   \* bound: calls of all goroutines
  MaxEvents   \* bound: times the file becomes ready or fails

ASSUME OpsAssumption ==
  /\ IsFiniteSet(G)
  /\ \A g \in G : Ops[g] \subseteq [kind : {"io", "deadline", "close"}, f : F,
                                    modes : SUBSET Mode, d : Int]

VARIABLES
  sysfd,      \* the file of each descriptor: "new", "open", "closed" or "bad"
  owner,      \* the descriptor that has the pollDesc
  csema,      \* csema of each descriptor
  calls, events,
  avail,      \* the kernel: modes in which the file is ready
  edge,       \* what it has yet to tell: modes that became ready, or "err"
  reg,        \* the tag the file is registered with, 0 if it is not
  failed      \* history: the file of the owner has had an error

kernelVars == <<events, avail, edge, reg, failed>>
fileVars   == <<sysfd, owner, csema, calls>>
vars == <<fdmuVars, pollVars, pc, op, throw, fileVars, kernelVars>>

NoOp == [kind |-> "none", f |-> None, modes |-> {}, d |-> 0]

Init ==
  /\ FdMutexInit /\ PollInit
  /\ pc = [g \in G |-> "idle"] /\ op = [g \in G |-> NoOp]
  /\ sysfd = [f \in F |-> "new"] /\ owner = None
  /\ csema = [f \in F |-> 0] /\ calls = 0
  /\ events = 0 /\ avail = {} /\ edge = {} /\ reg = 0 /\ failed = FALSE

-----------------------------------------------------------------------------
(* Descriptors and the kernel.                                             *)

\* FD.Init of a new descriptor, which gets the pollDesc from pollcache:
\* pollOpen, and netpollopen with the tag of the pollDesc.
Open(f, ok) ==
  /\ owner = None /\ sysfd[f] = "new"
  /\ f = CHOOSE x \in F : sysfd[x] = "new"     \* they are all alike
  /\ pollOpen(ok)
  /\ sysfd' = [sysfd EXCEPT ![f] = IF ok THEN "open" ELSE "bad"]
  /\ IF ok THEN owner' = f /\ reg' = fdseq' ELSE UNCHANGED <<owner, reg>>
  /\ avail' = {} /\ edge' = {} /\ failed' = FALSE
  /\ UNCHANGED <<fdmuVars, csema, calls, events>>

\* The file becomes ready in a mode, or more ready than it was: an edge.
arrive(m) ==
  /\ reg # 0 /\ events < MaxEvents
  /\ events' = events + 1
  /\ avail' = avail \cup {m} /\ edge' = edge \cup {m}
  /\ UNCHANGED <<fdmuVars, pollVars, pc, op, throw, fileVars, reg, failed>>

\* The file fails: EPOLLERR.
fail ==
  /\ reg # 0 /\ events < MaxEvents
  /\ events' = events + 1
  /\ edge' = edge \cup {"err"} /\ failed' = TRUE
  /\ UNCHANGED <<fdmuVars, pollVars, pc, op, throw, fileVars, reg, avail>>

\* EpollWait returns what there is to tell, once.
epollWait(p) ==
  /\ npc[p] = "wait" /\ edge # {}
  /\ ev' = [ev EXCEPT ![p] = [modes |-> IF "err" \in edge THEN Mode ELSE edge,
                              err |-> edge = {"err"}, tag |-> reg]]
  /\ PGoto(p, "check")
  /\ edge' = {}
  /\ UNCHANGED <<fdmuVars, gpp, info, fdseq, closing, dl, run, seq, timer, fired, pdlock, cb,
                 unblocked, pc, op, throw, fileVars, events, avail, reg, failed>>

-----------------------------------------------------------------------------
(* The methods.                                                            *)

Rest == <<pollVars, throw, sysfd, owner, csema, kernelVars>>

\* g calls the operation o.
Calls(g, o) ==
  /\ pc[g] = "idle" /\ calls < MaxCalls
  /\ sysfd[o.f] \in {"open", "closed"}
  /\ calls' = calls + 1

\* g goes on with o at l.
Do(g, o, l) == Goto(g, l) /\ op' = [op EXCEPT ![g] = o]
Return(g)   == Do(g, NoOp, "idle")

\* readLock or writeLock: locked, asleep on the semaphore, or refused.
fdLock(g, o) ==
  /\ o.kind = "io"
  /\ LET m == IF "r" \in o.modes THEN "r" ELSE "w"
     IN  \/ rwlock(o.f, m) /\ Do(g, o, "prepare")
         \/ rwlockWait(o.f, m) /\ Do(g, o, "rwsleep")
         \/ fdmu[o.f].closed /\ Return(g) /\ UNCHANGED fdmuVars

fdLockWoken(g) ==
  /\ pc[g] = "rwsleep"
  /\ rwlockWoken(op[g].f, ModeOf(g))
  /\ Goto(g, "rwlock")
  /\ UNCHANGED <<Rest, op, calls>>

fdLockAgain(g) ==
  /\ pc[g] = "rwlock"
  /\ fdLock(g, op[g])
  /\ UNCHANGED <<Rest, calls>>

\* SetDeadline takes a reference, Close the last one there will be.
fdIncref(g, o) ==
  /\ o.kind = "deadline"
  /\ \/ incref(o.f) /\ Do(g, o, "setdl")
     \/ fdmu[o.f].closed /\ Return(g) /\ UNCHANGED fdmuVars

fdClose(g, o) ==
  /\ o.kind = "close"
  /\ \/ increfAndClose(o.f) /\ Do(g, o, "evict")
     \/ fdmu[o.f].closed /\ Return(g) /\ UNCHANGED fdmuVars

\* A method is called and takes its first step.
Call(g, o) ==
  /\ Calls(g, o)
  /\ fdLock(g, o) \/ fdIncref(g, o) \/ fdClose(g, o)
  /\ UNCHANGED Rest

\* The system call: it succeeds, and the file may stay ready; a Write that has
\* more to write goes on; or it says EAGAIN, or reports the error of the file.
syscall(g) ==
  LET m == ModeOf(g)
  IN  /\ pc[g] = "sys"
      /\ IF m \in avail
           THEN /\ avail' \in {avail, avail \ {m}}
                /\ Goto(g, "unlock") \/ (m = "w" /\ Goto(g, "sys"))
           ELSE /\ Goto(g, "wait") \/ (failed /\ Goto(g, "unlock"))
                /\ UNCHANGED avail
      /\ UNCHANGED <<fdmuVars, pollVars, op, throw, fileVars, events, edge, reg, failed>>

\* readUnlock or writeUnlock; the last user destroys.
fdUnlock(g) ==
  LET f == op[g].f
  IN  /\ pc[g] = "unlock"
      /\ rwunlock(f, ModeOf(g))
      /\ throw' = (throw \/ rwunlockPanics(f, ModeOf(g)))
      /\ IF Last(fdmu'[f]) THEN Goto(g, "destroy") /\ UNCHANGED op ELSE Return(g)
      /\ UNCHANGED <<pollVars, fileVars, kernelVars>>

\* Where a method goes on after its decref: Close waits for the descriptor to
\* be closed.
AfterDecref(g) == IF op[g].kind = "close" THEN Goto(g, "csema") /\ UNCHANGED op ELSE Return(g)

fdDecref(g) ==
  LET f == op[g].f
  IN  /\ pc[g] = "decref"
      /\ decref(f)
      /\ throw' = (throw \/ decrefPanics(f))
      /\ IF Last(fdmu'[f]) THEN Goto(g, "destroy") /\ UNCHANGED op ELSE AfterDecref(g)
      /\ UNCHANGED <<pollVars, fileVars, kernelVars>>

\* destroy: pollClose takes the file out of the epoll set,
destroy(g) ==
  /\ pollClose(g)
  /\ reg' = 0 /\ edge' = {}
  /\ UNCHANGED <<fdmuVars, fileVars, events, avail, failed>>

\* ... the pollDesc goes back to pollcache, and then the file is closed.  An Open
\* between the two takes the pollDesc only, so they can be one step.
destroySysfd(g) ==
  /\ pc[g] = "sysclose"
  /\ owner' = None
  /\ sysfd' = [sysfd EXCEPT ![op[g].f] = "closed"]
  /\ csema' = [csema EXCEPT ![op[g].f] = @ + 1]
  /\ AfterDecref(g)
  /\ UNCHANGED <<fdmuVars, pollVars, throw, calls, kernelVars>>

closeWait(g) ==
  /\ pc[g] = "csema" /\ csema[op[g].f] > 0
  /\ csema' = [csema EXCEPT ![op[g].f] = @ - 1]
  /\ Return(g)
  /\ UNCHANGED <<fdmuVars, pollVars, throw, sysfd, owner, calls, kernelVars>>

-----------------------------------------------------------------------------

Outside == <<fdmuVars, fileVars, kernelVars>>

Run(g) ==
  \/ RunPoll(g) /\ UNCHANGED Outside
  \/ fdLockWoken(g) \/ fdLockAgain(g) \/ syscall(g) \/ fdUnlock(g) \/ fdDecref(g)
  \/ destroy(g) \/ destroySysfd(g) \/ closeWait(g)

RunTimer  == (deadlineStart \/ deadlineR \/ deadlineExpireW \/ deadlineW) /\ UNCHANGED Outside
Fire(m)   == fireTimer(m) /\ UNCHANGED Outside
RunPoller(p) == epollWait(p) \/ (Poll(p) /\ UNCHANGED Outside)

Next ==
  \/ \E f \in F, ok \in BOOLEAN : Open(f, ok)
  \/ fail \/ \E m \in Mode : arrive(m) \/ Fire(m)
  \/ \E g \in G : Run(g) \/ \E o \in Ops[g] : Call(g, o)
  \/ RunTimer
  \/ \E p \in Poller : RunPoller(p)

\* Goroutines, timer functions and pollers run; an armed timer fires in the end.
Fairness == /\ \A g \in G : WF_vars(Run(g))
            /\ WF_vars(RunTimer \/ \E m \in Mode : Fire(m))
            /\ \A p \in Poller : WF_vars(RunPoller(p))

Spec == Init /\ [][Next]_vars /\ Fairness

-----------------------------------------------------------------------------
(* Properties.                                                             *)

InIO(g)   == pc[g] \in {"prepare", "reset", "sys", "wait", "block", "recheck", "commit",
                        "parked", "swap", "unlock"}
InMisc(g) == pc[g] \in {"setdl", "dlR", "dlW", "evict", "evictR", "evictW", "decref"}
Destroying(g) == pc[g] \in {"destroy", "free", "publish", "sysclose"}

\* Whoever works on a descriptor works on its own open file and its own
\* pollDesc: neither is closed or given to another descriptor under its feet,
\* and one goroutine destroys them, when nobody else uses them.
FdAlive ==
  \A g \in G :
    /\ InIO(g) \/ InMisc(g) \/ Destroying(g) => sysfd[op[g].f] = "open" /\ owner = op[g].f
    /\ Destroying(g) => \A h \in G : h # g /\ op[h].f = op[g].f =>
                          ~(InIO(h) \/ InMisc(h) \/ Destroying(h))

\* The throws of netpoll.go and the panics of fd_mutex.go are unreachable: no
\* double wait, no goroutine blocked on a pollDesc that is closed or reused, no
\* inconsistent deadline, no lock or reference dropped that nobody has.
NoThrow == ~throw

\* Poller p has an event for mode m of the current descriptor and has yet to
\* act on it.
Carries(p, m) == /\ m \in ev[p].modes /\ ev[p].tag = fdseq
                 /\ npc[p] \in {"check", "err", "readyR"} \cup (IF m = "w" THEN {"readyW"} ELSE {})

\* No lost readiness: a goroutine parked on a file that is ready for it will be
\* told.  An edge is reported once; pollReset may have thrown it away.
NoLostReady ==
  \A g \in G : pc[g] = "parked" /\ gpp[ModeOf(g)] = g /\ ModeOf(g) \in avail =>
    edge \cap {ModeOf(g), "err"} # {} \/ \E p \in Poller : Carries(p, ModeOf(g))

\* The owner of pd.lock has yet to unblock mode m.
WillUnblock(m) ==
  \/ \E g \in G : \/ pc[g] = "evictR" \/ (pc[g] = "evictW" /\ m = "w")
                  \/ dl[m] < 0 /\ (pc[g] = "dlR" \/ (pc[g] = "dlW" /\ m = "w"))
  \/ m = "r" /\ cb \in {"r", "rw"}
  \/ m = "w" /\ cb = "w"

\* No lost cancellation: nobody stays parked on a descriptor that is closing or
\* past its deadline, although the waiter uses no lock.
NoLostCancel ==
  \A g \in G :
    LET m == ModeOf(g)
    IN  pc[g] = "parked" /\ gpp[m] = g /\ (info.closing \/ m \in info.expired) => WillUnblock(m)

\* A deadline expires only by the timer that was set for it: not by one that was
\* set for an earlier deadline or an earlier descriptor, however late it runs.
OnTime ==
  [][\A c \in fired \ fired' : dl' # dl => \A m \in c.modes : dl[m] = c.when]_vars

\* A descriptor reports ErrNotPollable only for an error of its own file, not
\* for an event of the one that had the pollDesc before.
EventErrOwn == owner # None /\ info.eventErr => failed

OnClosed(g)      == \E f \in F : op[g].f = f /\ fdmu[f].closed
UnderDeadline(g) == InIO(g) /\ dl[ModeOf(g)] # 0

\* Close returns, and so do all operations on a descriptor that is closed,
\* wherever they were: asleep on fdMutex, about to park, parked.
CloseReturns == (\E g \in G : OnClosed(g)) ~> (\A g \in G : ~OnClosed(g))

\* Reads and Writes under a deadline return, unless the deadline is removed.
DeadlineReturns == (\E g \in G : UnderDeadline(g)) ~> (\A g \in G : ~UnderDeadline(g))

=============================================================================
