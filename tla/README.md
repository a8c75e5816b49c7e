# A verification of the concurrency core of Goo

Goo is a fork of the Go toolchain and runtime with a friendlier surface syntax
(truthy conditions, enums, `check`, one-based `#` indexing, an implicit `main`).
Nearly all of the repository is the Go compiler, linker, runtime and standard
library. What its programs stand on, and what is hardest to test, is the
concurrency core of the runtime and of `sync`. This project models that core in
TLA+, checks it with TLC and proves part of it with TLAPS.

Paths below are relative to the repository; the Go source tree is `src/`.

## The system's parts

| Part | State it keeps | Operations | What is hard | What makes it correct |
|---|---|---|---|---|
| channels (`runtime/chan.go`) | `hchan`: closed, qcount, circular buffer, wait queues, lock | `makechan`, `chansend`, `chanrecv`, `closechan`, non-blocking forms | unlocked fast paths, hand-over between goroutines, close against waiters | linearizable bounded FIFO; nobody is lost or woken twice |
| select (`runtime/select.go`) | `g.waiting`, `g.selectDone`, `g.param`, lock order | `selectgo` in three passes, `selparkcommit` | one goroutine in many queues, several locks at once, early wake-up | exactly one case wins; no sudog is left behind; no deadlock |
| semaphores (`runtime/sema.go`) | `semaRoot`: treap of waiters, `nwait`, lock | `semacquire1`, `semrelease1`, `notifyList` | unlocked `nwait` and `cansemacquire` checks, direct hand-off, ticket wrap-around | no lost wake-up, no unit created or lost |
| mutex (`internal/sync/mutex.go`) | one word: locked, woken, starving, waiter count | `Lock`, `TryLock`, `Unlock` | normal against starvation mode, spinning, handoff | mutual exclusion; the "inconsistent mutex state" throws cannot happen; a waiter is not forgotten |
| reader/writer lock (`sync/rwmutex.go`) | readerCount, readerWait, two semaphores, a mutex | RLock, RUnlock, Lock, Unlock, Try... | a writer arriving while readers leave | readers exclude writers; a pending writer is not starved |
| wait groups, once, cond, pool, map | one or two atomic words each, or a lock-free structure | Add/Wait, Do, Wait/Signal, Get/Put, Load/Store | ABA, reuse while waiters leave | each its own contract |
| contexts, pipes, singleflight | a tree of cancelers, two channels, a map of calls | cancel, read/write/close, Do | cancellation races with registration | cancellation reaches every descendant, once |
| descriptors (`internal/poll/fd_mutex.go`, `fd_unix.go`) | one word: closed, two locks, references, waiters | Init, Read, Write, SetDeadline, Close | Close against operations under way | nobody uses a closed file; Close returns |
| network poller (`runtime/netpoll.go`, `netpoll_epoll.go`) | `pollDesc`: `rg`, `wg`, `atomicInfo`, deadlines, sequence numbers | open, reset, wait, set deadline, unblock, close, `netpoll` | waiters without a lock; late timers and events after the `pollDesc` was reused | no lost readiness, expiry or eviction; nothing of the old descriptor reaches the new one |
| timers (`runtime/time.go`) | a heap for each P | add, modify, stop, run | a timer modified while it runs | a timer runs once for each setting |
| scheduler (`runtime/proc.go`) | Ps, run queues, idle lists, `nmspinning` | runqput, runqget, runqsteal, wakep, findRunnable, injectglist | lock-free stealing; a thread that goes to sleep while work arrives | no goroutine is lost or run twice; none waits for long beside an idle P |
| memory (`runtime/mgc*.go`, `malloc.go`) | heap, mark bits, spans | allocate, mark, sweep | concurrent marking | out of scope: too large for a faithful small model |
| Goo language (`cmd/compile`, `runtime/truthy.go`) | none (pure) | truthiness, enum and `#` rewriting | every type that can appear in a condition | agreement with the documented rules |

How they interact: goroutines call channel and `sync` operations; these block with
`gopark` and are released with `goready`, the two scheduler calls every part
shares. Channels use the runtime's low-level `mutex` (modelled as a lock that one
goroutine owns at a time); `sync.Mutex` and everything above it use semaphores.
A descriptor guards its file with `fdMutex` (on semaphores), waits in the poller, and
is woken by events, by timers and by `Close`. `goready` puts a goroutine into a run
queue of the scheduler and calls `wakep`; `gopark` ends in `findRunnable`.

How the modules compose:

```
Chan  <- ChanRefinement (implements ChanSpec) <- MCChan
      <- ChanNonblock (adds a history variable) <- MCChanNonblock
      <- ChanInv <- ChanProofs (extends ChanRefinement and ChanNonblock too)
Sema  <- SemaInv <- SemaUse <- SemaUseProofs        SemaInv <- SemaProofs
      <- Mutex (calls Sema's operators) <- MutexInv <- MutexProofs
RWMutex <- RWMutexProofs     (on what Sema and Mutex promise)
FdMutex <- Netpoll <- FD <- MCFD
                      FD <- FDProofs
Runq  <- MCRunq              Runq <- RunqProofs
Sched <- SchedProofs         (on what Runq promises)
```

## Channels and select

**`Chan`** models `runtime/chan.go` and `runtime/select.go`. Its variables are the
fields of `hchan` (`closed`, `qcount`, `sendx`, `recvx`, `buf`, `recvq`, `sendq`,
`lock`), the fields of `g` that channels use (`selectDone`, `param`), what a wake-up
carries (`success`, `elem`), and the locals of the running operation. A *sudog* is the
pair of a goroutine and a case of its operation. One step is what no other goroutine
can look into:

- one load of a lock-free fast path: `sendClosed` and `sendFull` of a non-blocking
  `chansend`, in either order, since its comment allows the loads to be reordered; the three loads of a non-blocking `chanrecv` (`recvEmpty`, `recvClosed`,
  `recvRecheck`);
- one critical section under `c.lock`, with every effect it has: the direct
  hand-over to a dequeued waiter, the copy through a full buffer, the enqueue
  and park;
- one iteration of `selectgo`'s loops: `sellock` takes one lock at a time in lock
  order, pass 1 polls one case at a time in any order (the poll order is a random
  permutation), pass 2 enqueues, pass 3 dequeues;
- one lock released by `selparkcommit` after the goroutine is already marked as
  waiting, so that it can be woken before its commit function has finished;
- one `goready`.

`closechan` sets `closed` and empties the two queues in separate steps under the lock,
because the fast paths look without it. `dequeue` drops a sudog whose select was won
elsewhere (`selectDone`). Elements are the call and case that sent them, so that a lost,
duplicated or reordered element shows.

**`ChanSpec`** is what channels promise: bounded FIFO queues that can be closed, on
which every operation takes effect in one atomic step. **`ChanRefinement`** maps
`Chan` to it: a waiter's operation takes effect in the critical section of whoever
dequeues its sudog. **`ChanNonblock`** records in a history variable whether there was
a moment during a non-blocking call at which none of its cases could proceed.

## Semaphores

**`Sema`** models `semacquire1` and `semrelease1` on the words of one `semaRoot`: the
easy case, the section under `root.lock` with the `nwait` increment before the second
`cansemacquire`, the sleep, the retry without a ticket; `semrelease1`'s add, its
unlocked look at `nwait`, the dequeue, the hand-off by ticket and the ready. The treap
with its lists of waiters is a list for each address; `lifo` puts a waiter first.
**`SemaUse`** lets goroutines call it in any order and with any arguments, and counts
the calls on each word, for `Conserved`. The words
stay below the call bounds, so the 32-bit width does not matter.

## Mutex

**`Mutex`** models `internal/sync/mutex.go` and calls `Sema`'s own steps for
`runtime_SemacquireMutex` and `runtime_Semrelease`, so that an unlock and a lock
interleave inside the semaphore too. The word is a record of its three bits and the
waiter count. One step is one atomic access to it: the fast path of `Lock`, a load, the
spin's CAS of `mutexWoken`, the CAS to `New`, the look after waking up, the
unconditional add of the hand-over (`lockFix`), and the loop of `unlockSlow`.
`runtime_canSpin` may say no at any time; the 1ms threshold is a choice that must come
true once a goroutine has slept `Patience + 1` times. Locals go back to their first values
when they are dead, so that TLC does not tell states apart by them. `Unlock` is called by the holder
only: an unlock of an unlocked mutex ends the program and is outside the model.

## Reader/writer lock

**`RWMutex`** models `sync/rwmutex.go`. One step is one access to `readerCount`,
`readerWait`, a semaphore or the inner mutex `w`: the writer's announcement (subtract
`rwmutexMaxReaders`) and its look at `readerWait` are two steps, between which readers
leave through the slow path of `RUnlock`; `Unlock` releases the waiting readers one at a
time. The semaphores are counters that whoever comes first may take from, and `w` has
one owner: what `Sema` and `Mutex` show of the real ones. The semaphores give a unit to
anybody: a reader that arrives later may take one that was released for an earlier
reader, and the model allows that.

## Descriptors and the poller

**`FdMutex`** models the word of `internal/poll/fd_mutex.go`: each method is a loop
around one compare-and-swap, so it is one step; `increfAndClose` wakes every waiter.
**`Netpoll`** models one `pollDesc`. Its lock does not keep the waiters out, who use
`rg`, `wg` and `atomicInfo` only, so a section under `pd.lock` takes one step for each of
those words: `publishInfo` and the two `netpollunblock` of an eviction, of
`pollSetDeadline` and of `netpolldeadlineimpl` are steps of their own, and so are the
waiter's compare-and-swap to `pdWait`, its second look at `atomicInfo`, the commit that
stores the goroutine and the swap after it is woken. A timer that has fired waits for
`pd.lock` as long as it likes and carries the `rseq` or `wseq` it was armed with; a poller
that has an event carries the tag of its registration and takes a step for the check of
`fdseq`, for the event error and for each mode it readies. **`FD`** puts both under
`Read`, `Write`, `SetDeadline` and `Close` of `fd_unix.go`, with a kernel (external) that
reports each edge once. Two descriptors use the one `pollDesc` after each other, so that
what is late meets the next one. `destroy` frees the `pollDesc` and closes the file in one
step after the eviction; the code does one before the other, but an `Open` in between takes the
`pollDesc` only.

## Scheduler

**`Runq`** models the run queues of `runtime/proc.go`: the ring of each P with the free
running indices `runqhead` and `runqtail` (modulo `Wrap`), `runnext`, the overflow of half
a ring to the global queue, `runqdrain`, and `runqsteal`/`runqgrab`. Only the owner
stores, so its operations are one step, the compare-and-swap that succeeds; a thief takes
a step for each word it loads and copies goroutines out of the ring before its
compare-and-swap tells whether they were still there. A thread without a P calls
`runqempty`, which looks at three words.

**`Sched`** models how threads spin, go to sleep and are woken: `ready` and `wakep`,
`startm`, `findRunnable` from the look at the queues through `becomeSpinning`,
`stealWork`, the giving up of the P and the "delicate dance" (drop `nmspinning`, then look
at every queue again), `resetspinning`, and `injectglist` by a thread without a P. A
queue is a number of goroutines, none of which is lost or taken twice: what `Runq` shows. A
batch is taken in one step (under `sched.lock`, or with the compare-and-swap of a thief) and
put on the local queue in another, `runqputbatch`; in between it is in no queue but in the
`hand` of its thread, where nobody can see it. A goroutine that is preempted goes the way of
one that yields, `goschedImpl`.

## What the runs check

| Run | What it shows |
|---|---|
| `chan_select` | Selects on an unbuffered and a buffered channel against each other, a receive and a close. The wait queues obey the invariants `chan.go` opens with (`WaitqInvariant`); a parked goroutine is readied once (`ReadyOnce`); `selparkcommit` does not walk a list in use (`WaitingListStable`); a closed channel has no waiters (`ClosedDrained`); the throws are unreachable (`NoThrow`); operations are atomic (`Linearizable`), never deadlock (`OpProgress`), and close releases everyone (`CloseReleases`) |
| `chan_reuse` | Three operations of any kind for each of two goroutines: what one leaves behind (sudogs, `selectDone`, `param`) does not meet the next: no parked goroutine is lost (`NoLostWaiter`), no sudog is left linked (`NoDanglingSudog`); a buffer of two fills, with a sender waiting behind it, wraps and drains: a FIFO queue (`Linearizable`) with its indices in range (`TypeOK`); the proofs' `IInv` |
| `chan_nonblock` | Every kind of operation on an unbuffered, a buffered and the nil channel: an operation gives up only if at one moment of the call it could not proceed (`DefaultJustified`, which excepts the sends on an unbuffered channel that finding 1 is about), and `Linearizable` |
| `chan_nonblock_comment` | *violation*, finding 1 |
| `sema` | Any calls on two words of one root: no lost wake-up (`NoLostWakeup`, `UnitsMeetWaiters`), no unit lost, created or moved to the other word (`Conserved`), the invariant of the proofs (`SemaInvariant`) |
| `mutex` | `MutualExclusion`; the throws are unreachable (`NoThrow`); a starving mutex has waiters to be handed to (`StarvingHasWaiters`); the waiter count is exact (`WaitersCounted`); no waiter is left on a free mutex without a wake-up (`NotForgotten`); the proofs' `IInv`; every `Lock` and `Unlock` returns once calls stop (`Returns`) |
| `mutex_handoff` | *violation*, finding 2 |
| `rwmutex` | Five goroutines call as often as they like: a writer excludes readers and writers, and the fatal errors are unreachable (`Exclusion`); a `Lock` that has `rw.w` gets the lock whatever readers and writers keep coming (`LockReturns`) |
| `fd` | A read or write, deadlines and a close race on a descriptor and the next one: the file and the `pollDesc` are alive while in use and are destroyed once (`FdAlive`); the throws of the poller and the panics of `fdMutex` about a lock or reference not held are unreachable (`NoThrow`); nobody stays parked on a ready file (`NoLostReady`) or on one that is closing or past its deadline (`NoLostCancel`); a deadline expires only by its own timer (`OnTime`) and an event error is the file's own (`EventErrOwn`); `Close` and everything on a closed descriptor return (`CloseReturns`), and so does what runs under a deadline (`DeadlineReturns`) |
| `runq` | Every goroutine is in one place whoever puts, gets, overflows, drains and steals (`EachOnce`); `runqempty` does not answer true spuriously (`EmptyJustified`) |
| `sched` | A P has one owner, an idle P has no work, and `nmspinning` is exact (`Owned`); a runnable goroutine does not wait for ever beside an idle P even if those that run never stop (`WorkConserving`), unless a batch in hand goes `Unseen`, which is finding 3 |
| `sched_batch` | *violation*, finding 3 |

Each property of a passing run has a mutant: a plausible bug, defined in the module
just before the definition it replaces, under which the property fails.

### Findings

1. `runtime/chan.go:200` argues that a non-blocking send that loads `closed == 0` and
   then finds the channel full proves a moment when it was open and not ready, because
   a closed channel cannot become not ready. On an unbuffered channel it can:
   `closechan` sets `closed` and then dequeues the waiting receivers. The send returns
   false although the channel was ready until it was closed. (Ordered after the
   close it would panic, ordered before it it would succeed.)
2. `internal/sync/mutex.go:42` says that a starving mutex is handed directly to the
   waiter at the front and that new arrivals queue at the tail. `semrelease1` adds the
   unit to the word before it takes it back for the front waiter; an arriving goroutine
   that has just counted itself as a waiter can take it in the easy case of
   `semacquire1`. The front waiter goes back to sleep. Mutual exclusion and `Returns`
   hold nevertheless.
3. `runtime/proc.go:86` says of a thread that stops spinning while work comes that "either
   one part or another needs to unpark another worker thread", and `proc.go:100` that the
   complexity does not apply to the global queue. `findRunnable` takes a batch from that
   queue, unlocks `sched.lock` (`proc.go:3451`) and puts all but one of it on its local queue
   afterwards. The last spinning thread can give its P up, drop `nmspinning`, look at every
   queue and go to sleep in between; the taker was not spinning, so it calls no `wakep`. The
   rest of the batch waits beside an idle P for as long as the first goroutine runs. Its
   preemption ends that, since `goschedImpl` calls `wakep`. `WorkConserving` shows that in a
   behaviour without this window (`Unseen`) no work is left beside an idle P.

### Bounds

- `MaxCalls` of `Chan` bounds the calls of each goroutine, `MaxCalls` of `Mutex` and
  `MaxAcquire`/`MaxRelease` of `SemaUse` the calls of all together. Three goroutines
  are what the races take: a waiter, the one that wakes it, and one that barges in.
- `chan_select` gives each of three goroutines one operation: two selects and a third
  party on two channels is the smallest case of every hazard of `select.go` within one call.
  Across calls, `chan_reuse`, two goroutines are the smallest case: the one whose select
  leaves something behind, and the one that meets it.
- Channels have buffers of 0, 1 and 2: unbuffered, full after one, wrapping. The six calls
  of `chan_reuse` are enough for three sends and three receives on the buffer of two, one of
  them by a sender that waits.
- `MaxSpin` is 1 where the code has 4: a second spin repeats the first, except that the
  flag is set already. `Patience` is 1: a waiter starves after its
  first or its second wake-up (0 in `mutex_handoff`). Four calls let the mutex enter starvation mode
  with two waiters, be handed over twice and leave it.
- Two semaphore words share a root, so that `nwait` counts waiters of the other word.
- `rwmutex` bounds nothing but the goroutines: with five there are two writers, readers
  that wait, readers that leave and one that arrives. `rwmutexMaxReaders` is 6 where the
  code has 2^30: it need only exceed the number of readers.
- `fd`: three calls on two descriptors, one readiness or failure of the file, one
  poller and `fdseq` modulo 4: a call, the one it races with, and the one that meets what
  they left. `fdseq` does not wrap within these bounds.
- `runq`: rings of 4 where the code has 256, indices modulo 16 that start at 14, so that
  they wrap; four starting cases (a full ring and a thief, a full ring and two thieves,
  few goroutines and two thieves, one goroutine and a `runqempty`), with a bound on how
  many goroutines become runnable. Every thief of a ring sees the same words, so two show what any number do.
- `sched`: two Ps, three threads and up to three goroutines that are runnable or run
  (`MaxG`); nothing else is bounded. The third thread is one that wakes up or goes to sleep while the others
  work on both Ps.
- Goroutines are interchangeable: safety runs of channels and semaphores use their permutations as
  symmetry (`runq` those of the Ps); runs with temporal properties do not, except `chan_reuse` and `chan_nonblock`, whose
  refinement is a safety property with a symmetric specification.
- Deadlock is checked in `rwmutex` and `runq`. Elsewhere the program may stop: calls are
  bounded, a goroutine may legally block for ever on a channel, a semaphore or a file,
  and all threads may sleep when nothing is runnable. `OpProgress`, `CloseReleases`,
  `UnitsMeetWaiters`, `Returns`, `CloseReturns`, `DeadlineReturns` and `WorkConserving`
  say when they may not.

### Fairness

Weak fairness of each goroutine's own steps (`Run(g)`), never of its calls. The
scheduler runs every runnable goroutine, preempting it if need be. A step that takes
`c.lock` or `root.lock` is enabled only while the lock is free; the runs show that weak
fairness of it suffices within the bounds, since the holders stop. `Mutex` counts
`Unlock` among these steps: a holder eventually releases. Arrivals (`Lock`, `Acquire`,
`Call`) are never fair, and they are bounded: `Returns` does not claim that a waiter
overtakes an unbounded stream of arrivals.

- `RWMutex`: whoever holds the lock releases it; none needs to call. Nobody is promised `w`
  while others keep coming for it (`sync.Mutex` does not promise it, cf. finding 2), so
  `LockReturns` starts from a `Lock` that has `w`.
- `FD`: goroutines, functions of timers that have fired, and pollers take their steps;
  an armed timer fires in the end. Events, calls and opening are not fair.
- `Sched`: threads take their steps in the scheduler; a goroutine that runs may run for
  ever without calling anything, so it is not fair. Nor is its preemption, although `sysmon`
  asks for it after 10ms: work conservation is not to depend on it, and where it does
  (finding 3) the run shows it.

## What is proved

For all goroutines, channels, buffer sizes, operations, addresses, spins, Ps, ring sizes and
bounds.

| Theorem | Statement |
|---|---|
| `ChanProofs!TypeCorrect` | `Spec => []TypeOK`, with count and indices of the circular buffer in range |
| `ChanProofs!WaitqCorrect` | `Spec => []WaitqInvariant` |
| `ChanProofs!WaitingListCorrect` | `Spec => []WaitingListStable` |
| `ChanProofs!Invariant` | `Spec => []IInv` (module `ChanInv`) |
| `ChanProofs!ReadyOnceCorrect` | `Spec => []ReadyOnce` |
| `ChanProofs!NoLostWaiterCorrect` | `Spec => []NoLostWaiter` |
| `ChanProofs!NoDanglingSudogCorrect` | `Spec => []NoDanglingSudog` |
| `ChanProofs!ClosedDrainedCorrect` | `Spec => []ClosedDrained` |
| `ChanProofs!NoThrowCorrect` | `Spec => []NoThrow` (of `Chan`) |
| `ChanProofs!SudogInvariant` | `Spec => [](IInv /\ SInv)` |
| `ChanProofs!LinearizableCorrect` | `Spec => Linearizable`, that is `Spec => A!ASpec`: `Chan` implements `ChanSpec` |
| `ChanProofs!DefaultJustifiedCorrect` | `NSpec => []DefaultJustified` (module `ChanNonblock`; sends on an unbuffered channel excepted, finding 1) |
| `ChanProofs!LinearInvariant` | `Spec => [](IInv /\ SInv /\ LInv)` |
| `SemaUseProofs!SemaCorrect` | `Spec => []SemaInvariant` |
| `SemaUseProofs!NoLostWakeupCorrect` | `Spec => []NoLostWakeup` |
| `SemaUseProofs!ConservedCorrect` | `Spec => []Conserved` |
| `SemaUseProofs!UnitsInvariant` | `Spec => []UInv` |
| `MutexProofs!MutexExclusive` | `Spec => []MutualExclusion` |
| `MutexProofs!MutexNoThrow` | `Spec => []NoThrow` |
| `MutexProofs!MutexStarvingHasWaiters` | `Spec => []StarvingHasWaiters` |
| `MutexProofs!MutexWaitersCounted` | `Spec => []WaitersCounted` |
| `MutexProofs!MutexNotForgotten` | `Spec => []NotForgotten` |
| `MutexProofs!MutexInvariant` | `Spec => []IInv` (module `MutexInv`) |
| `RWMutexProofs!RWExclusive` | `Spec => []Exclusion` |
| `RWMutexProofs!RWInvariant` | `Spec => []RWInv` |
| `FDProofs!FdAliveAlways` | `Spec => []FdAlive` |
| `FDProofs!NeverThrows` | `Spec => []NoThrow` |
| `FDProofs!ReadyNotLost` | `Spec => []NoLostReady` |
| `FDProofs!CancelNotLost` | `Spec => []NoLostCancel` |
| `FDProofs!ExpiresOnTime` | `Spec => OnTime`, an action property |
| `FDProofs!FdInvariant` | `Spec => []FdInv` |
| `RunqProofs!EachOnceCorrect` | `Spec => []EachOnce` |
| `RunqProofs!EmptyJustifiedCorrect` | `Spec => []EmptyJustified` |
| `RunqProofs!RunqInvariant` | `Spec => []RunqInv` |
| `SchedProofs!SchedOwned` | `Spec => []Owned` |
| `SchedProofs!SchedInvariant` | `Spec => [](SchedInv /\ Hands)` |

*Assumptions.* Channels are numbers (their addresses, which order the locks), `Nil` and
`NoG` are none of the others, buffer sizes are natural numbers, an operation that is not
a select has one case; a root has an address; bounds are natural numbers. There are
fewer goroutines than `rwmutexMaxReaders` (2^30 in the code).
Goroutines that use semaphores, a mutex or a descriptor are finitely many, the operations they may call are of
the types of `fd_unix.go`, and a goroutine is none of the values `pdNil`, `pdReady` and
`pdWait`, as in the code, where these are no addresses of a `g`. Ps and threads are finite
sets with at least one element. TLC evaluates the assumptions in every run.

One assumption is a limit of the code as well as of the theorem. The compare-and-swap
of `runqgrab` and the second load of `runqempty` see only the 32-bit word: a thief that is
held up between its load of `runqhead` and its compare-and-swap while the index makes a
*whole round* of 2^32 would take goroutines that are no longer there. So `RunqAssumption`
bounds a behaviour: `(queued + ready) * Half < Wrap`, where `queued` are the goroutines in the
ring at first and `ready` those that become runnable, and from this bound the invariant shows
that no index can come round. With the code's numbers these are 2^25 goroutines. Where an
index starts is free, so that it does pass from 2^32 - 1 to 0.

*Channels.* `WaitqInvariant` alone is not inductive: pass 2 of a select enqueues on
channels that pass 1 looked at earlier. `IInv` adds what pass 1 knows (`PolledInv`: a
polled case cannot proceed, except with the select itself, while its locks are held),
who holds the locks at each point (`LockInv`, `OpInv`), and for `WaitingListStable` that
a goroutine woken before `selparkcommit` is done is stuck in `sellock` in front of a
lock that `selparkcommit` still holds (`CommitInv`).

*Sudogs.* `ReadyOnce` and what goes with it need `SInv` on top of `IInv`, which follows a
sudog from `enqueue` to its end. A sudog in a queue is of a case its goroutine is waiting
for, nobody has taken it, and pass 2 has come to it or pass 3 has not (`Sudogs`); the
sudogs of a goroutine that nobody has taken are in their queues (`Waits`). `selectDone`
is set exactly while the select is won, that is from the `dequeue` that took one of its
sudogs until it has its locks again (`Won`). Whoever is woken finds a case in `param`, or
`success`, or the channel closed (`Woken`), and the sudogs a goroutine has taken are of
parked goroutines, one of each (`Wakes`). The key step (`LiveParked`): the sudog that
`dequeue` returns is of a *parked* goroutine. A select that is still enqueueing has the
channel locked, one that is unlinking has it locked again (`Keeps`), and in between
`selectDone` makes the sudog stale. A second `dequeue` on another channel, which holds
another lock, is stopped by `selectDone` alone.

*Linearizability.* The abstract queue of a channel is the contents of its circular buffer,
from `recvx` on; an operation is pending until its effect, and the effect of a waiter's
operation is the critical section of the goroutine that takes its sudog, long before the
waiter itself runs. The refinement needs three facts that no safety property mentions, which
`LInv` adds to `IInv` and `SInv`: `sendx` is the slot behind the last element (`Indexed`), so
that a push appends, a pop takes the head and a receive from a full buffer with a waiting
sender does both in one slot (`RingPush`, `RingPop`, `RingSwap`); a channel with waiting
receivers is empty even after it was closed (`BufFits`); and a fast path is that of a
non-blocking operation, whose second look at the buffer in `recvRecheck` comes after it saw
the channel closed (`CallFits`). Seen from `ChanSpec`, a step is one of three kinds
(`StepKinds`): the goroutine acts alone, it takes a waiter, or it readies one, which is a
stutter, since the result the waiter will find is fixed when it is taken. For each abstract
action a lemma (`MapSend`, `MapRecv`, `MapMeet`, ...) says what a step must do, channel by
channel and goroutine by goroutine, to be that action; the lemmas `Maps...` show it of each
kind of step, and `StepMaps` puts them together. No fairness is in `ASpec`: this is safety.

*Giving up.* `NInv` says, of each point of a non-blocking call, that the moment it will be
excused by has been recorded. The argument of the comments in `chansend` and `chanrecv` is
two of its clauses. After the receive found the channel empty, the moment is past unless the
channel was closed already, and a channel is never opened again. After the send
found the channel open, the moment is yet to come: when another goroutine closes a
*full* buffered channel, the state before the close was such a moment, and a buffer that is
full after the close was full before it (`FullBefore`). For an unbuffered channel this last
step fails (finding 1), which is why the property excepts it.

*Semaphores.* `SemaInvariant` is inductive as it stands: sleepers are queued once and
have no ticket, a dequeued sleeper belongs to the one release that found it. `SemaProofs`
shows that each step of `Sema` keeps it whoever takes the step, so that the theorem about
`SemaUse` and those about the mutex share the lemmas. For the wake-ups and the units,
`UInv` adds three things. `nwait` is *exactly* the number of those in a list and those in
the section of `semacquire1` under `root.lock` (`NwaitExact`), so a release that reads
zero, without the lock, leaves nobody behind, although the words of a root share the
counter. A waiter, its list and the release that has dequeued it are on one address
(`SameAddr`). And each unit has its carrier already when a goroutine has looked at the
word for the second time and is about to enter the list (`UnitsCarried`): that look came
after the increment of `nwait`, so every later release sees it. Without any of the
three the invariant is not inductive. The sets are counted with the library's theorems
on cardinality; every step changes each of them at one goroutine (`DifferAtOne`),
except that `semReady` passes what the release carries on to the waiter.

*Mutex.* Mutual exclusion rests on there being **one wake-up at a time** (`OneWakeup`):
one unit in the word, or in the hands of one goroutine on its way to or from the
semaphore (`Carries`), or one goroutine awake with the `mutexWoken` flag (`Flagged`). In
normal mode that wake-up is announced by `mutexWoken`, which stops `unlockSlow` from
sending another; in starvation mode it *is* the ownership of the mutex, and the word is
unlocked, not woken (`Announced`, `FlagSet`). So the unconditional add of `lockFix` finds
the word as its load left it but for more waiters (`HandedOver`), the throws are
unreachable, and only a goroutine that saw the word unlocked and not starving can set the
lock bit otherwise. `Linked` ties the two program counters of a goroutine together.
On top of `IInv`, `Account` counts the waiters and says why `unlockSlow` may leave without
waking anybody: if the word is woken, or starving and unlocked, a wake-up is on its way
(`Urged`); if it is free and has waiters, one is on its way or an `Unlock` under way holds
a load that makes it send one (`Served`). A waiter that goes to sleep again gives
the flag back with the CAS that makes it a waiter, so that the count never slips.

*Reader/writer lock.* `RWInv` says what the counters count (`N(l)` is the number of
goroutines at `l`). `readerCount` is the number of readers inside or waiting, less
`rwmutexMaxReaders` from the announcement of a writer to its `Unlock` (`Counted`); a unit
of `readerSem` is there, or about to be released, for each reader that waits while no
writer is announced (`Units`); the readers that the writer has yet to see leave are those
inside, those to whom a unit was released that they have not taken, and those on the slow
path of `RUnlock`, and `readerWait` is their number once the writer has added what it saw
(`Leaving`: it is negative or zero before); and one goroutine wakes the writer, once
(`Wakeup`). The unit in flight is what makes the argument work: a reader that a previous
`Unlock` let in may still be asleep when the next writer announces itself.

*Descriptors and poller.* `FdInv` has a part for each layer. `Life`: the references of
`fdMutex` are the goroutines between a method's entry and its exit, the read and the
write lock have one holder each, the last user of a closed descriptor destroys it. So
whoever drops a lock or a reference has it, and the panics of `fdMutex` cannot happen.
`Locked`: `pd.lock` has one owner. `Waiting`: the goroutine in `rg` or `wg` is parked in
that mode, `pdWait` belongs to one that is about to park or has just been woken, and
whoever is unblocked is in neither word. `Evicted`: `Close` evicts once, after it closed
the word and before anybody destroys, so that `closing` follows the word. `Timers`: a
timer function that will not be ignored carries the deadline that is set, there is one of
them for each mode, and one timer serves both deadlines only while `wrun` is false.
`Published`: `atomicInfo` agrees with the fields it was made from. `Registered`: the file is in
the epoll set under the current `fdseq` until it is destroyed. `Told` extends
`NoLostReady` back to the moment the system call said EAGAIN, and `Cancelled` extends
`NoLostCancel` to the goroutine that has looked at `atomicInfo` for the second time and
has yet to commit. `OnTime` follows from `Timers`, because only the start of a timer
function takes a call off `fired`. The kernel is part of the model, so `ReadyNotLost` rests on
what `FD` says of epoll: an edge is reported once, and not forgotten before that.

*Run queues.* `RunqInv` counts from `Start`: `Gone(p)` goroutines have left the ring of `p`
and `Came(p)` have come into it, plain numbers from which the indices and slots follow by
modular arithmetic (`SincePlus`, `SinceSub`, `SinceSlot`). The slots between the two hold
different goroutines, at most `Len256` (`Ringed`). What an owner or a thief has stored *behind*
`runqtail` is what it has in its hands (`Hands`): nobody else stores there, and nobody
looks there before `runqtail` is stored. A thief's loads may be stale (`Thief`): its head
is not ahead of the ring's, and only *if* it still is the ring's are the goroutines it has
copied those that are there (`Copied`). That implication is enough, since the
compare-and-swap tests exactly its hypothesis; a slot can be overwritten by the owner while it is
copied, but not unless the head has moved on. Every goroutine has one home of six kinds
(`Homes`), and lists have no duplicates (`Lists`), which gives `EachOnce`. `NoLap` bounds the
indices: each goroutine put, and each batch moved, draws on `ready` and on the number of
queued goroutines, for with every batch that enters a ring one goroutine is executed and
stops being queued, and it is queued again only when it yields, or has parked and becomes
runnable, which costs one of `ready`. For `EmptyJustified`, `Checks` says that the head and tail loaded are not ahead
of the ring's; if they are equal and the tail is still the ring's, the ring was
empty when `runnext` was loaded, and the moment was recorded.

*Scheduler.* `SchedInv` lists what a thread has at each point (`Control`), that a P is
idle, owned or being handed over, and only one of these (`Separate`), and that queues of
idle Ps are empty (`Empty`): for that, a queue that its owner has found empty must stay
empty until the owner gives the P up, though the owner has left the queue alone for
several steps (`Dry`). `nmspinning` is the number of threads that spin or are starting a
thread that will (`Spinners`). `Hands` says who has goroutines in hand: a thread between the
take of a batch and `runqputbatch`, one that runs a goroutine or is about to, nobody else.

## What is only model-checked

- Liveness (`OpProgress`, `CloseReleases`, `UnitsMeetWaiters`, `Returns`, `LockReturns`,
  `CloseReturns`, `DeadlineReturns`, `WorkConserving`): out of reach of the prover.
- `EventErrOwn` of `FD`: it is not true of every instance. `fdseq` is a counter modulo
  `SeqMod` (the tag has 19 bits on most 64-bit systems), and an event that is late by a whole
  round meets its own tag again. The other theorems hold nevertheless: a stale event
  at most readies a goroutine for nothing.

## What is not modelled

- Of channels: timer channels (`c.timer`), synctest bubbles, the reflect entry points,
  `chanlen`/`chancap`, stack shrinking (`activeStackChans`), and memory-order effects
  below the atomic operations. Of semaphores: the treap's shape, profiling, and
  `notifyList`.
- The runtime's own `mutex` is a lock with one owner; `gopark` and `goready` are a
  goroutine's stop and start.
- Of `fdMutex`: the panics when one of its 20-bit counters overflows (those about an
  inconsistent state are in `NoThrow`). Of `FD`: blocking
  and unpollable descriptors, zero-length reads, the many other system calls (which lock
  and wait as `Read` does, or take a reference as `SetDeadline` does).
- Of the poller: `netpollWaiters`, `netpollBreak`, `pollWaitCanceled`, the systems other
  than epoll, which error a failed wait reports, and a tag that wraps around while an
  event is late.
- Of the scheduler: system calls and `handoffp`, when and how a goroutine is preempted (what
  becomes of it then is `goschedImpl`), `netpoll` and timers in
  `findRunnable`, locked threads, stopping the world and `checkdead`.
- Wait groups, once, condition variables, pool, concurrent map, contexts, pipes, timers
  and truthiness: in the plan, or listed with their reason in `PROJECT.json`.
- Memory management and garbage collection: too large for a faithful small model.
- The compiler, linker and the rest of the library: sequential translation, out of reach
  of this method.

## Plan

1. *(done)* `Chan`, `ChanSpec`, `ChanRefinement`, `ChanNonblock` and their proofs.
2. *(done)* `Sema` and `Mutex`, composed; mutual exclusion, the semaphore's wake-ups
   and its units proved.
3. *(done)* `RWMutex`; `FdMutex`, `Netpoll` and `FD`, composed; `Runq` and `Sched`.
4. *(done)* Proofs of the safety of `RWMutex`, `FD` and `Sched`.
5. *(done)* Proofs about the sudogs of channels and selects, of linearizability and of
   the non-blocking operations; of the rings of `Runq`.
6. `WaitGroup` (reuse while waiters leave), `Cond` with `notifyList` (ticket
   wrap-around), `PoolDequeue` (a lock-free ring with one producer), `Context`
   (cancellation against registration).
7. `Truthy`: the conditions of the Goo language against its documented rules; the
   numeric kinds behind a named type are the case to look at.

The runs are kept few: a run asks one question of one instance and checks everything that
instance can show.
