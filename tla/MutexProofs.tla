---------------------------- MODULE MutexProofs -----------------------------
(***************************************************************************)
(* IInv (module MutexInv) is an inductive invariant of sync.Mutex on top   *)
(* of the semaphores, for any number of goroutines, of spins and of calls: *)
(* mutual exclusion is one of its conjuncts.                               *)
(***************************************************************************)
EXTENDS MutexInv, SemaProofs, FiniteSetTheorems

\* The part of the types that the mutex's own steps can disturb.
MutexTypeOK ==
  /\ state \in State /\ old \in [G -> State]
  /\ mpc \in [G -> MPC] /\ calls \in Nat
  /\ awoke \in [G -> BOOLEAN] /\ starving \in [G -> BOOLEAN]
  /\ iter \in [G -> Nat] /\ slept \in [G -> Nat]

\* What IInv says beyond types and the semaphores' own invariant.
Core == /\ Linked /\ OneWakeup /\ Announced /\ FlagSet /\ HandedOver /\ Locals
        /\ HeldLocked /\ ModeOK /\ NoThrow /\ MutualExclusion

\* IInv in three parts.
LEMMA Parts == /\ IInv <=> SemaInvariant /\ MutexTypeOK /\ Core
               /\ IInv' <=> SemaInvariant' /\ MutexTypeOK' /\ Core'
BY DEF IInv, TypeOK, MutexTypeOK, Core, SemaInvariant

\* A step of g that leaves the control, the ticket and the flag of the others
\* alone does not change what they carry.
LEMMA Frame ==
  ASSUME NEW g \in G,
         \A h \in G : h # g => /\ mpc'[h] = mpc[h] /\ spc'[h] = spc[h]
                               /\ ticket'[h] = ticket[h] /\ awoke'[h] = awoke[h]
  PROVE  \A h \in G : h # g => /\ Carries(h)' <=> Carries(h)
                               /\ Flagged(h)' <=> Flagged(h)
BY DEF Carries, Flagged

\* A mutex step that makes no call into the semaphores keeps their invariant.
LEMMA SemaUnchanged ==
  ASSUME SemaInvariant, UNCHANGED semaVars
  PROVE  SemaInvariant'
BY DEF semaVars, SemaInvariant, SemaTypeOK, QueuedAsleep, QueuedOnce, FoundAsleep,
       FoundOnce, Dequeued, TicketFresh, RootLocked

\* The fast path of Lock, or its entry into lockSlow.
LEMMA LockKeeps ==
  ASSUME IInv, NEW g \in G, Lock(g)
  PROVE  IInv'
<1>0. SemaInvariant /\ MutexTypeOK /\ Core
  BY Parts
<1>1. SemaInvariant'
  BY <1>0, SemaUnchanged DEF Lock
<1>2. MutexTypeOK'
  <2>1. state' \in State
    <3>1. state \in State
      BY <1>0 DEF MutexTypeOK
    <3>2. [state EXCEPT !.locked = TRUE] \in State
      BY <3>1 DEF State
    <3> QED BY <3>1, <3>2 DEF Lock
  <2>2. mpc' \in [G -> MPC]
    BY <1>0 DEF Lock, MutexTypeOK, MGoto, MPC
  <2>3. calls' \in Nat /\ iter' \in [G -> Nat] /\ slept' \in [G -> Nat]
        /\ awoke' \in [G -> BOOLEAN] /\ starving' \in [G -> BOOLEAN] /\ old' \in [G -> State]
    BY <1>0 DEF Lock, Fresh, MutexTypeOK
  <2> QED BY <2>1, <2>2, <2>3 DEF MutexTypeOK
<1>3. UNCHANGED <<val, spc, ticket, addr, old>>
  BY DEF Lock, semaVars
<1>4. mpc[g] = "out" /\ mpc'[g] \in {"held", "load"} /\ ~awoke'[g] /\ ~starving'[g]
  BY <1>0 DEF Lock, Fresh, MutexTypeOK, MGoto
<1>5. \A h \in G : h # g => /\ mpc'[h] = mpc[h] /\ awoke'[h] = awoke[h]
                            /\ starving'[h] = starving[h]
  BY <1>0 DEF Lock, Fresh, MutexTypeOK, MGoto
<1>6. \A h \in G : h # g => (Carries(h)' <=> Carries(h)) /\ (Flagged(h)' <=> Flagged(h))
  BY <1>3, <1>5, Frame
<1>7. spc[g] = "idle"
  BY <1>0, <1>4 DEF Core, Linked
<1>8. ~Carries(g) /\ ~Carries(g)' /\ ~Flagged(g) /\ ~Flagged(g)'
  BY <1>3, <1>4, <1>7 DEF Carries, Flagged
<1>9. Linked'
  BY <1>0, <1>3, <1>4, <1>5, <1>7 DEF Core, Linked
<1>10. Locals'
  BY <1>0, <1>3, <1>4, <1>5 DEF Core, Locals
<1>11. OneWakeup'
  BY <1>0, <1>3, <1>6, <1>8 DEF Core, OneWakeup
<1>12. CASE state = Free
  <2>1. state' = [state EXCEPT !.locked = TRUE] /\ mpc'[g] = "held"
    BY <1>0, <1>12 DEF Lock, MGoto, MutexTypeOK
  <2>2. ~state.locked /\ ~state.woken /\ ~state.starving
    BY <1>12 DEF Free
  <2>3. state'.locked /\ ~state'.starving
    BY <2>1, <2>2, <1>12 DEF Free
  <2>4. val[sema] # 1 /\ \A h \in G : ~Carries(h) /\ ~Flagged(h)
    BY <1>0, <2>2 DEF Core, Announced, FlagSet
  <2>5. Announced' /\ FlagSet'
    BY <1>3, <1>6, <1>8, <2>4 DEF Announced, FlagSet
  <2>6. HandedOver'
    BY <1>0, <1>4, <1>5, <2>2 DEF Core, HandedOver
  <2>7. HeldLocked' /\ MutualExclusion' /\ NoThrow' /\ ModeOK'
    BY <1>0, <1>5, <2>1, <2>2, <2>3 DEF Core, HeldLocked, MutualExclusion, NoThrow, ModeOK
  <2> QED BY <1>1, <1>2, <1>9, <1>10, <1>11, <2>5, <2>6, <2>7, Parts DEF Core
<1>13. CASE state # Free
  <2>1. state' = state /\ mpc'[g] = "load"
    BY <1>0, <1>13 DEF Lock, MGoto, MutexTypeOK
  <2>2. Announced' /\ FlagSet'
    BY <1>0, <1>3, <1>6, <1>8, <2>1 DEF Core, Announced, FlagSet
  <2>3. HandedOver'
    BY <1>0, <1>3, <1>4, <1>5, <2>1 DEF Core, HandedOver
  <2>4. HeldLocked' /\ MutualExclusion' /\ NoThrow' /\ ModeOK'
    BY <1>0, <1>5, <2>1 DEF Core, HeldLocked, MutualExclusion, NoThrow, ModeOK
  <2> QED BY <1>1, <1>2, <1>9, <1>10, <1>11, <2>2, <2>3, <2>4, Parts DEF Core
<1> QED BY <1>12, <1>13

\* Loading the state: who owns the woken flag sees it set.
LEMMA LoadKeeps ==
  ASSUME IInv, NEW g \in G, lockLoad(g)
  PROVE  IInv'
<1>0. SemaInvariant /\ MutexTypeOK /\ Core
  BY Parts
<1>1. SemaInvariant'
  BY <1>0, SemaUnchanged DEF lockLoad
<1>2. MutexTypeOK'
  BY <1>0 DEF lockLoad, MutexTypeOK, MGoto, MPC
<1>3. UNCHANGED <<val, spc, ticket, addr, state, awoke, starving>>
  BY DEF lockLoad, semaVars
<1>4. mpc[g] = "load" /\ mpc'[g] = "loop" /\ old'[g] = state
  BY <1>0 DEF lockLoad, MutexTypeOK, MGoto
<1>5. \A h \in G : h # g => mpc'[h] = mpc[h] /\ old'[h] = old[h]
  BY <1>0 DEF lockLoad, MutexTypeOK, MGoto
<1>6. \A h \in G : (Carries(h)' <=> Carries(h)) /\ (Flagged(h)' <=> Flagged(h))
  BY <1>3, <1>4, <1>5 DEF Carries, Flagged
<1>7. Linked'
  BY <1>0, <1>3, <1>4, <1>5 DEF Core, Linked
<1>8. awoke[g] => state.woken
  BY <1>0, <1>4 DEF Core, FlagSet, Flagged
<1>9. Locals'
  BY <1>0, <1>3, <1>4, <1>5, <1>8 DEF Core, Locals
<1>10. OneWakeup' /\ Announced' /\ FlagSet'
  BY <1>0, <1>3, <1>6 DEF Core, OneWakeup, Announced, FlagSet
<1>11. HandedOver' /\ HeldLocked' /\ MutualExclusion' /\ NoThrow' /\ ModeOK'
  BY <1>0, <1>3, <1>4, <1>5 DEF Core, HandedOver, HeldLocked, MutualExclusion, NoThrow, ModeOK
<1> QED BY <1>1, <1>2, <1>7, <1>9, <1>10, <1>11, Parts DEF Core

\* Spinning: the flag can only be taken while nobody has it and no wakeup is
\* on its way.
LEMMA SpinKeeps ==
  ASSUME IInv, NEW g \in G, lockSpin(g)
  PROVE  IInv'
<1>0. SemaInvariant /\ MutexTypeOK /\ Core
  BY Parts
<1>1. SemaInvariant'
  BY <1>0, SemaUnchanged DEF lockSpin
<1>s. state \in State /\ [state EXCEPT !.woken = TRUE] \in State
  <2>1. state \in State
    BY <1>0 DEF MutexTypeOK
  <2> QED BY <2>1 DEF State
<1>2. MutexTypeOK'
  <2>1. state' \in State
    BY <1>s DEF lockSpin
  <2>2. mpc' \in [G -> MPC]
    BY <1>0 DEF lockSpin, MutexTypeOK, MGoto, MPC
  <2>3. awoke' \in [G -> BOOLEAN]
    BY <1>0, Zenon DEF lockSpin, MutexTypeOK
  <2>4. iter' \in [G -> Nat]
    BY <1>0 DEF lockSpin, MutexTypeOK
  <2>5. UNCHANGED <<calls, old, starving, slept>>
    BY DEF lockSpin
  <2> QED BY <1>0, <2>1, <2>2, <2>3, <2>4, <2>5 DEF MutexTypeOK
<1>3. UNCHANGED <<val, spc, ticket, addr, old, starving>>
  BY DEF lockSpin, semaVars
<1>4. mpc[g] = "loop" /\ mpc'[g] = "load"
  BY <1>0 DEF lockSpin, MutexTypeOK, MGoto
<1>5. \A h \in G : h # g => mpc'[h] = mpc[h] /\ awoke'[h] = awoke[h]
  <2>1. \A h \in G : h # g => mpc'[h] = mpc[h]
    BY <1>0 DEF lockSpin, MutexTypeOK, MGoto
  <2>2. \A h \in G : h # g => awoke'[h] = awoke[h]
    BY <1>0 DEF lockSpin, MutexTypeOK
  <2> QED BY <2>1, <2>2
<1>6. \A h \in G : h # g => (Carries(h)' <=> Carries(h)) /\ (Flagged(h)' <=> Flagged(h))
  BY <1>3, <1>5, Frame
<1>7. spc[g] = "idle"
  BY <1>0, <1>4 DEF Core, Linked
<1>8. ~Carries(g) /\ ~Carries(g)'
  BY <1>3, <1>4, <1>7 DEF Carries
<1>9. Linked'
  BY <1>0, <1>3, <1>4, <1>5, <1>7 DEF Core, Linked
<1>10. awoke[g] => awoke'[g]
  BY <1>0 DEF lockSpin, MutexTypeOK
<1>11. Locals'
  BY <1>0, <1>3, <1>4, <1>5, <1>10 DEF Core, Locals
<1>12. CASE UNCHANGED <<state, awoke>>
  <2>1. Flagged(g)' <=> Flagged(g)
    BY <1>4, <1>12 DEF Flagged
  <2>2. OneWakeup' /\ Announced' /\ FlagSet'
    BY <1>0, <1>3, <1>6, <1>8, <1>12, <2>1 DEF Core, OneWakeup, Announced, FlagSet
  <2>3. HandedOver' /\ HeldLocked' /\ MutualExclusion' /\ NoThrow' /\ ModeOK'
    BY <1>0, <1>3, <1>4, <1>5, <1>12 DEF Core, HandedOver, HeldLocked, MutualExclusion, NoThrow, ModeOK
  <2> QED BY <1>1, <1>2, <1>9, <1>11, <2>2, <2>3, Parts DEF Core
<1>13. CASE /\ ~old[g].woken /\ ~old[g].starving /\ state = old[g]
            /\ state' = [state EXCEPT !.woken = TRUE]
  <2>1. /\ state'.woken /\ state'.locked = state.locked
        /\ state'.starving = state.starving /\ state'.waiters = state.waiters
    BY <1>s, <1>13 DEF State
  <2>2. val[sema] # 1 /\ \A h \in G : ~Carries(h) /\ ~Flagged(h)
    BY <1>0, <1>13 DEF Core, Announced, FlagSet
  <2>3. OneWakeup'
    BY <1>0, <1>3, <1>6, <2>2 DEF Core, OneWakeup
  <2>4. Announced' /\ FlagSet'
    BY <1>3, <1>6, <1>8, <1>13, <2>1, <2>2 DEF Announced, FlagSet
  <2>5. HandedOver' /\ HeldLocked' /\ MutualExclusion' /\ NoThrow'
    BY <1>0, <1>3, <1>4, <1>5, <2>1 DEF Core, HandedOver, HeldLocked, MutualExclusion, NoThrow
  <2>6. ModeOK'
    BY <1>13, <2>1 DEF ModeOK
  <2> QED BY <1>1, <1>2, <1>9, <1>11, <2>3, <2>4, <2>5, <2>6, Parts DEF Core
<1> QED BY <1>12, <1>13 DEF lockSpin

\* The CAS of lockSlow.
LEMMA CasKeeps ==
  ASSUME IInv, NEW g \in G, lockCas(g)
  PROVE  IInv'
<1>0. SemaInvariant /\ MutexTypeOK /\ Core
  BY Parts
<1>1. mpc[g] = "loop" /\ UNCHANGED <<calls, val, ticket>>
  BY DEF lockCas, semaVars, semacquire1, SemCall
<1>2. spc[g] = "idle" /\ (awoke[g] => old[g].woken) /\ (starving[g] => awoke[g])
  BY <1>0, <1>1 DEF Core, Linked, Locals
<1>3. state \in State /\ old[g] \in State
  BY <1>0 DEF MutexTypeOK
<1>4. \A h \in G : h # g => mpc'[h] = mpc[h]
  BY <1>0 DEF lockCas, MGoto, MutexTypeOK
<1>a. old' \in [G -> State] /\ \A h \in G : h # g => old'[h] = old[h]
  BY <1>0 DEF lockCas, ForgetOld, MutexTypeOK, Free, State
<1>5. CASE state # old[g]
  <2>1. mpc' = [mpc EXCEPT ![g] = "load"] /\ UNCHANGED <<state, lockVars, semaVars>>
    BY <1>2, <1>5 DEF lockCas, MGoto
  <2>2. mpc' \in [G -> MPC] /\ mpc'[g] = "load"
    BY <1>0, <2>1 DEF MutexTypeOK, MPC
  <2>3. SemaInvariant' /\ MutexTypeOK'
    BY <1>0, <1>1, <1>a, <2>1, <2>2, SemaUnchanged DEF MutexTypeOK, lockVars
  <2>4. UNCHANGED <<spc, addr>>
    BY <2>1 DEF semaVars
  <2>5. \A h \in G : (Carries(h)' <=> Carries(h)) /\ (Flagged(h)' <=> Flagged(h))
    BY <1>1, <1>4, <2>1, <2>2, <2>4 DEF Carries, Flagged, lockVars
  <2>6. Linked' /\ Locals'
    BY <1>0, <1>1, <1>2, <1>4, <1>a, <2>1, <2>2, <2>4 DEF Core, Linked, Locals, lockVars
  <2>7. OneWakeup' /\ Announced' /\ FlagSet'
    BY <1>0, <1>1, <2>1, <2>5 DEF Core, OneWakeup, Announced, FlagSet
  <2>8. HandedOver' /\ HeldLocked' /\ MutualExclusion' /\ NoThrow' /\ ModeOK'
    BY <1>0, <1>1, <1>4, <1>a, <2>1, <2>2 DEF Core, HandedOver, HeldLocked, MutualExclusion, NoThrow, ModeOK
  <2> QED BY <2>3, <2>6, <2>7, <2>8, Parts DEF Core
<1>6. CASE state = old[g]
  <2>1. state' = New(g)
    BY <1>2, <1>6 DEF lockCas
  <2>2. /\ state'.locked = (state.locked \/ ~state.starving)
        /\ state'.woken = (state.woken /\ ~awoke[g])
        /\ state'.starving = (state.starving \/ (starving[g] /\ state.locked))
        /\ state'.waiters = IF state.locked \/ state.starving THEN state.waiters + 1
                                                              ELSE state.waiters
    BY <1>6, <2>1 DEF New
  <2>3. state' \in State
    BY <1>0, <1>3, <1>6, <2>1 DEF New, State, MutexTypeOK
  <2>4. state.waiters \in Nat
    BY <1>3 DEF State
  <2>5. Flagged(g) <=> awoke[g]
    BY <1>1 DEF Flagged
  <2>6. awoke[g] => /\ val[sema] # 1 /\ \A h \in G : h # g => ~Carries(h) /\ ~Flagged(h)
                    /\ ~state.starving
    BY <1>0, <2>5 DEF Core, OneWakeup, FlagSet
  <2>7. ~Carries(g)
    BY <1>1, <1>2 DEF Carries
  <2>8. CASE state.locked \/ state.starving
    <3>1. mpc' = [mpc EXCEPT ![g] = "sema"] /\ semacquire1(g, sema, slept[g] # 0)
      BY <1>2, <1>6, <2>8 DEF lockCas, MGoto
    <3>2. slept' \in [G -> Nat] /\ UNCHANGED <<awoke, starving, iter>>
      BY <1>0, <1>2, <1>6, <2>8, MutexAssumption DEF lockCas, MutexTypeOK
    <3>3. mpc' \in [G -> MPC] /\ mpc'[g] = "sema"
      BY <1>0, <3>1 DEF MutexTypeOK, MPC
    <3>4. MutexTypeOK'
      BY <1>0, <1>1, <1>a, <2>3, <3>2, <3>3 DEF MutexTypeOK
    <3>5. SemaInvariant'
      <4>1. SemCall(g, "easy", sema, slept[g] # 0) /\ (slept[g] # 0) \in BOOLEAN
        BY <3>1 DEF semacquire1
      <4> QED BY <1>0, <4>1, SemaCallKeeps, MutexAssumption
    <3>6. /\ spc'[g] = "easy" /\ addr'[g] = sema
          /\ \A h \in G : h # g => spc'[h] = spc[h] /\ addr'[h] = addr[h]
      BY <1>0, <3>1 DEF semacquire1, SemCall, SGoto, SemaInvariant, SemaTypeOK
    <3>7. \A h \in G : h # g => (Carries(h)' <=> Carries(h)) /\ (Flagged(h)' <=> Flagged(h))
      BY <1>1, <1>4, <3>2, <3>6, Frame
    <3>8. ~Carries(g)' /\ ~Flagged(g)'
      BY <3>3, <3>6 DEF Carries, Flagged
    <3>9. Linked'
      BY <1>0, <1>4, <3>3, <3>6 DEF Core, Linked, AcquirePC
    <3>10. Locals'
      BY <1>0, <1>4, <1>a, <3>2, <3>3 DEF Core, Locals
    <3>11. OneWakeup'
      BY <1>0, <1>1, <3>7, <3>8 DEF Core, OneWakeup
    <3>12. state'.locked = state.locked
      BY <1>3, <2>2, <2>8 DEF State
    <3>13. ~awoke[g] => state'.woken = state.woken /\ state'.starving = state.starving
      BY <1>0, <1>2, <1>3, <2>2 DEF State, MutexTypeOK
    <3>14. Announced' /\ FlagSet'
      <4>1. CASE awoke[g]
        BY <1>1, <2>6, <3>7, <3>8, <4>1 DEF Announced, FlagSet
      <4>2. CASE ~awoke[g]
        BY <1>0, <1>1, <3>7, <3>8, <3>12, <3>13, <4>2 DEF Core, Announced, FlagSet
      <4> QED BY <4>1, <4>2
    <3>15. HandedOver'
      <4>1. state.waiters \in Nat /\ state'.waiters = state.waiters + 1
        BY <2>2, <2>4, <2>8
      <4>2. state.starving => state'.starving
        BY <2>2
      <4>3. \A h \in G : old[h].waiters \in 1..state.waiters => old[h].waiters \in 1..state'.waiters
        BY <4>1
      <4> QED BY <1>0, <1>4, <1>a, <3>3, <3>12, <4>2, <4>3 DEF Core, HandedOver
    <3>16. HeldLocked' /\ MutualExclusion' /\ NoThrow'
      BY <1>0, <1>4, <3>3, <3>12 DEF Core, HeldLocked, MutualExclusion, NoThrow
    <3>17. ModeOK'
      <4>1. state'.waiters > 0
        BY <2>2, <2>4, <2>8
      <4>2. state'.starving => ~state'.woken
        BY <1>0, <1>2, <2>2 DEF Core, ModeOK
      <4> QED BY <4>1, <4>2 DEF ModeOK
    <3> QED BY <3>4, <3>5, <3>9, <3>10, <3>11, <3>14, <3>15, <3>16, <3>17, Parts DEF Core
  <2>9. CASE ~(state.locked \/ state.starving)
    <3>1. mpc' = [mpc EXCEPT ![g] = "held"] /\ Fresh(g) /\ UNCHANGED semaVars
      BY <1>2, <1>6, <2>9 DEF lockCas, MGoto
    <3>2. mpc' \in [G -> MPC] /\ mpc'[g] = "held"
      BY <1>0, <3>1 DEF MutexTypeOK, MPC
    <3>a. \A h \in G : h # g => awoke'[h] = awoke[h] /\ starving'[h] = starving[h]
      BY <1>0, <3>1 DEF Fresh, MutexTypeOK
    <3>3. SemaInvariant' /\ MutexTypeOK'
      BY <1>0, <1>1, <1>a, <2>3, <3>1, <3>2, SemaUnchanged DEF Fresh, MutexTypeOK
    <3>4. UNCHANGED <<spc, addr>>
      BY <3>1 DEF semaVars
    <3>5. \A h \in G : h # g => (Carries(h)' <=> Carries(h)) /\ (Flagged(h)' <=> Flagged(h))
      BY <1>1, <1>4, <3>4, <3>a, Frame
    <3>6. ~Carries(g)' /\ ~Flagged(g)'
      BY <1>2, <3>2, <3>4 DEF Carries, Flagged
    <3>7. Linked' /\ Locals'
      BY <1>0, <1>2, <1>4, <1>a, <3>2, <3>4, <3>a DEF Core, Linked, Locals
    <3>8. OneWakeup'
      BY <1>0, <1>1, <3>5, <3>6 DEF Core, OneWakeup
    <3>9. state'.locked /\ ~state'.starving /\ (~awoke[g] => state'.woken = state.woken)
      BY <1>0, <1>3, <2>2, <2>9 DEF State, MutexTypeOK
    <3>10. Announced' /\ FlagSet'
      <4>1. CASE awoke[g]
        BY <1>1, <2>6, <3>5, <3>6, <4>1 DEF Announced, FlagSet
      <4>2. CASE ~awoke[g]
        BY <1>0, <1>1, <2>9, <3>5, <3>6, <3>9, <4>2 DEF Core, Announced, FlagSet
      <4> QED BY <4>1, <4>2
    <3>11. HandedOver'
      BY <1>0, <1>4, <2>9, <3>2 DEF Core, HandedOver
    <3>12. HeldLocked' /\ MutualExclusion' /\ NoThrow' /\ ModeOK'
      BY <1>0, <1>4, <2>9, <3>2, <3>9 DEF Core, HeldLocked, MutualExclusion, NoThrow, ModeOK
    <3> QED BY <3>3, <3>7, <3>8, <3>10, <3>11, <3>12, Parts DEF Core
  <2> QED BY <2>8, <2>9
<1> QED BY <1>5, <1>6

\* Back from the semaphore: the unit g carried becomes the woken flag, or the
\* mutex itself.
LEMMA WokenKeeps ==
  ASSUME IInv, NEW g \in G, lockWoken(g)
  PROVE  IInv'
<1>0. SemaInvariant /\ MutexTypeOK /\ Core
  BY Parts
<1>1. mpc[g] = "sema" /\ SemReturn(g, "acquired") /\ UNCHANGED <<state, calls, slept>>
  BY DEF lockWoken
<1>2. SemaInvariant'
  BY <1>0, <1>1, SemaReturnKeeps
<1>3. spc[g] = "acquired" /\ spc'[g] = "idle" /\ (\A h \in G : h # g => spc'[h] = spc[h])
      /\ UNCHANGED <<val, ticket, addr>>
  BY <1>0, <1>1 DEF SemReturn, SGoto, SemaInvariant, SemaTypeOK
<1>4. /\ mpc' \in [G -> MPC] /\ old' \in [G -> State] /\ old'[g] = state
      /\ awoke' \in [G -> BOOLEAN] /\ iter' \in [G -> Nat]
      /\ \A h \in G : h # g => /\ mpc'[h] = mpc[h] /\ old'[h] = old[h] /\ awoke'[h] = awoke[h]
  <2>1. PICK l \in MPC : mpc' = [mpc EXCEPT ![g] = l]
    BY DEF lockWoken, MGoto, MPC
  <2>2. mpc' \in [G -> MPC] /\ \A h \in G : h # g => mpc'[h] = mpc[h]
    BY <1>0, <2>1 DEF MutexTypeOK
  <2>3. old' \in [G -> State] /\ old'[g] = state /\ \A h \in G : h # g => old'[h] = old[h]
    BY <1>0 DEF lockWoken, MutexTypeOK
  <2>4. \/ UNCHANGED <<awoke, iter>>
        \/ awoke' = [awoke EXCEPT ![g] = TRUE] /\ iter' = [iter EXCEPT ![g] = 0]
    BY DEF lockWoken
  <2>5. /\ awoke' \in [G -> BOOLEAN] /\ iter' \in [G -> Nat]
        /\ \A h \in G : h # g => awoke'[h] = awoke[h]
    <3>1. CASE UNCHANGED <<awoke, iter>>
      BY <1>0, <3>1 DEF MutexTypeOK
    <3>2. CASE awoke' = [awoke EXCEPT ![g] = TRUE] /\ iter' = [iter EXCEPT ![g] = 0]
      BY <1>0, <3>2 DEF MutexTypeOK
    <3> QED BY <2>4, <3>1, <3>2
  <2> QED BY <2>2, <2>3, <2>5
<1>5. starving' \in [G -> BOOLEAN] /\ \A h \in G : h # g => starving'[h] = starving[h]
  <2>1. PICK late \in BOOLEAN : starving' = [starving EXCEPT ![g] = @ \/ late]
    BY DEF lockWoken
  <2>2. \A h \in G : h # g => starving'[h] = starving[h]
    BY <1>0, <2>1 DEF MutexTypeOK
  <2>3. starving' \in [G -> BOOLEAN]
    BY <1>0, <2>1, Zenon DEF MutexTypeOK
  <2> QED BY <2>2, <2>3
<1>6. MutexTypeOK'
  BY <1>0, <1>1, <1>4, <1>5 DEF MutexTypeOK
<1>7. \A h \in G : h # g => (Carries(h)' <=> Carries(h)) /\ (Flagged(h)' <=> Flagged(h))
  BY <1>3, <1>4, Frame
<1>8. Carries(g)
  BY <1>3 DEF Carries
<1>9. val[sema] # 1 /\ \A h \in G : h # g => ~Carries(h) /\ ~Flagged(h)
  BY <1>0, <1>8 DEF Core, OneWakeup
<1>10. \/ state.woken /\ ~state.starving
       \/ state.starving /\ ~state.locked /\ ~state.woken
  BY <1>0, <1>8 DEF Core, Announced
<1>11. OneWakeup'
  BY <1>0, <1>3, <1>7, <1>9 DEF Core, OneWakeup
<1>12. Announced'
  BY <1>1, <1>10 DEF Announced
<1>13. CASE state.starving
  <2>1. mpc'[g] = "fix" /\ state.waiters # 0
    <3>1. ~state.locked /\ ~state.woken
      BY <1>10, <1>13
    <3>2. state.waiters # 0
      <4>1. state.waiters \in Nat
        BY <1>0 DEF MutexTypeOK, State
      <4> QED BY <1>0, <1>13, <4>1 DEF Core, ModeOK
    <3> QED BY <1>0, <1>13, <3>1, <3>2 DEF lockWoken, MGoto, MutexTypeOK
  <2>2. ~Flagged(g)'
    BY <2>1 DEF Flagged
  <2>3. FlagSet'
    BY <1>7, <1>9, <2>2 DEF FlagSet
  <2>4. state.waiters \in Nat
    BY <1>0 DEF MutexTypeOK, State
  <2>5. HandedOver'
    BY <1>0, <1>1, <1>4, <1>10, <1>13, <2>1, <2>4 DEF Core, HandedOver
  <2>6. Linked'
    BY <1>0, <1>3, <1>4, <2>1 DEF Core, Linked
  <2>7. Locals'
    BY <1>0, <1>4, <1>5, <2>1 DEF Core, Locals
  <2>8. HeldLocked' /\ MutualExclusion' /\ NoThrow' /\ ModeOK'
    BY <1>0, <1>1, <1>4, <2>1 DEF Core, HeldLocked, MutualExclusion, NoThrow, ModeOK
  <2> QED BY <1>2, <1>6, <1>11, <1>12, <2>3, <2>5, <2>6, <2>7, <2>8, Parts DEF Core
<1>14. CASE ~state.starving
  <2>1. mpc'[g] = "loop" /\ awoke'[g]
    BY <1>0, <1>14 DEF lockWoken, MGoto, MutexTypeOK
  <2>2. FlagSet'
    BY <1>1, <1>7, <1>9, <1>10, <1>14 DEF FlagSet
  <2>3. HandedOver'
    BY <1>0, <1>1, <1>4, <2>1 DEF Core, HandedOver
  <2>4. Linked'
    BY <1>0, <1>3, <1>4, <2>1 DEF Core, Linked
  <2>5. Locals'
    BY <1>0, <1>4, <1>5, <1>10, <1>14, <2>1 DEF Core, Locals
  <2>6. HeldLocked' /\ MutualExclusion' /\ NoThrow' /\ ModeOK'
    BY <1>0, <1>1, <1>4, <2>1 DEF Core, HeldLocked, MutualExclusion, NoThrow, ModeOK
  <2> QED BY <1>2, <1>6, <1>11, <1>12, <2>2, <2>3, <2>4, <2>5, <2>6, Parts DEF Core
<1> QED BY <1>13, <1>14

\* The receiver of the mutex takes it: no other wakeup is on its way.
LEMMA FixKeeps ==
  ASSUME IInv, NEW g \in G, lockFix(g)
  PROVE  IInv'
<1>0. SemaInvariant /\ MutexTypeOK /\ Core
  BY Parts
<1>1. SemaInvariant'
  BY <1>0, SemaUnchanged DEF lockFix
<1>2. UNCHANGED <<calls, val, spc, ticket, addr>>
  BY DEF lockFix, semaVars
<1>b. \A h \in G : h # g => /\ old'[h] = old[h] /\ awoke'[h] = awoke[h]
                            /\ starving'[h] = starving[h]
  BY <1>0 DEF lockFix, Fresh, ForgetOld, MutexTypeOK
<1>3. mpc[g] = "fix" /\ mpc'[g] = "held" /\ mpc' \in [G -> MPC]
      /\ \A h \in G : h # g => mpc'[h] = mpc[h]
  BY <1>0 DEF lockFix, MGoto, MutexTypeOK, MPC
<1>4. state \in State /\ starving[g] \in BOOLEAN
  BY <1>0 DEF MutexTypeOK
<1>5. state.starving /\ ~state.locked /\ old[g].waiters \in 1..state.waiters
  BY <1>0, <1>3 DEF Core, HandedOver
<1>a. state.waiters \in Nat /\ old[g].waiters \in Nat /\ state.waiters > 0
  <2>1. old[g] \in State
    BY <1>0 DEF MutexTypeOK
  <2> QED BY <1>4, <1>5, <2>1 DEF State
<1>6. /\ state' \in State /\ state'.locked /\ state'.woken = state.woken
      /\ state'.waiters = state.waiters - 1
      /\ state'.starving => old[g].waiters # 1
  <2>1. state' = [state EXCEPT !.locked = TRUE, !.waiters = @ - 1,
                               !.starving = @ /\ starving[g] /\ old[g].waiters # 1]
    BY DEF lockFix
  <2>2. state.waiters - 1 \in Nat
    BY <1>a DEF State
  <2> QED BY <1>4, <2>1, <2>2 DEF State
<1>7. MutexTypeOK'
  BY <1>0, <1>2, <1>3, <1>6 DEF MutexTypeOK, lockFix, Fresh, ForgetOld, Free, State
<1>8. \A h \in G : h # g => (Carries(h)' <=> Carries(h)) /\ (Flagged(h)' <=> Flagged(h))
  BY <1>2, <1>3, <1>b, Frame
<1>9. Carries(g)
  BY <1>3 DEF Carries
<1>10. val[sema] # 1 /\ \A h \in G : h # g => ~Carries(h) /\ ~Flagged(h)
  BY <1>0, <1>9 DEF Core, OneWakeup
<1>11. spc[g] = "idle"
  BY <1>0, <1>3 DEF Core, Linked
<1>12. ~Carries(g)' /\ ~Flagged(g)'
  BY <1>2, <1>3, <1>11 DEF Carries, Flagged
<1>13. OneWakeup' /\ Announced' /\ FlagSet'
  BY <1>0, <1>2, <1>8, <1>10, <1>12 DEF Core, OneWakeup, Announced, FlagSet
<1>14. HandedOver'
  <2>1. \A h \in G : h # g => mpc[h] # "fix"
    BY <1>10 DEF Carries
  <2> QED BY <1>3, <2>1 DEF HandedOver
<1>15. Linked' /\ Locals'
  BY <1>0, <1>2, <1>3, <1>11, <1>b DEF Core, Linked, Locals
<1>16. HeldLocked' /\ MutualExclusion' /\ NoThrow'
  BY <1>0, <1>3, <1>5, <1>6 DEF Core, HeldLocked, MutualExclusion, NoThrow
<1>17. ModeOK'
  <2>1. state'.starving => state'.waiters > 0
    BY <1>5, <1>6, <1>a
  <2> QED BY <1>0, <1>5, <1>6, <2>1 DEF Core, ModeOK
<1> QED BY <1>1, <1>7, <1>13, <1>14, <1>15, <1>16, <1>17, Parts DEF Core

\* TryLock looks.
LEMMA TryKeeps ==
  ASSUME IInv, NEW g \in G, TryLock(g)
  PROVE  IInv'
<1>0. SemaInvariant /\ MutexTypeOK /\ Core
  BY Parts
<1>1. SemaInvariant'
  BY <1>0, SemaUnchanged DEF TryLock
<1>2. MutexTypeOK'
  BY <1>0 DEF TryLock, MutexTypeOK, MGoto, MPC
<1>3. UNCHANGED <<val, spc, ticket, addr, state, awoke, starving>>
  BY DEF TryLock, semaVars
<1>4. mpc[g] = "out" /\ mpc'[g] \in {"out", "try"} /\ old'[g] = state
      /\ (mpc'[g] = "try" => ~state.locked /\ ~state.starving)
  BY <1>0 DEF TryLock, MutexTypeOK, MGoto
<1>5. \A h \in G : h # g => mpc'[h] = mpc[h] /\ old'[h] = old[h]
  BY <1>0 DEF TryLock, MutexTypeOK, MGoto
<1>6. \A h \in G : (Carries(h)' <=> Carries(h)) /\ (Flagged(h)' <=> Flagged(h))
  BY <1>3, <1>4, <1>5 DEF Carries, Flagged
<1>7. Linked' /\ Locals'
  BY <1>0, <1>3, <1>4, <1>5 DEF Core, Linked, Locals
<1>8. OneWakeup' /\ Announced' /\ FlagSet'
  BY <1>0, <1>3, <1>6 DEF Core, OneWakeup, Announced, FlagSet
<1>9. HandedOver' /\ HeldLocked' /\ MutualExclusion' /\ NoThrow' /\ ModeOK'
  BY <1>0, <1>3, <1>4, <1>5 DEF Core, HandedOver, HeldLocked, MutualExclusion, NoThrow, ModeOK
<1> QED BY <1>1, <1>2, <1>7, <1>8, <1>9, Parts DEF Core

\* TryLock's CAS: the mutex is still free and not being handed over.
LEMMA TryCasKeeps ==
  ASSUME IInv, NEW g \in G, tryLockCas(g)
  PROVE  IInv'
<1>0. SemaInvariant /\ MutexTypeOK /\ Core
  BY Parts
<1>1. SemaInvariant'
  BY <1>0, SemaUnchanged DEF tryLockCas
<1>2. UNCHANGED <<calls, awoke, starving, iter, slept, val, spc, ticket, addr>>
  BY DEF tryLockCas, lockVars, semaVars
<1>a. old' \in [G -> State] /\ \A h \in G : h # g => old'[h] = old[h]
  BY <1>0 DEF tryLockCas, ForgetOld, MutexTypeOK, Free, State
<1>3. mpc[g] = "try" /\ mpc'[g] \in {"held", "out"} /\ mpc' \in [G -> MPC]
      /\ \A h \in G : h # g => mpc'[h] = mpc[h]
  BY <1>0 DEF tryLockCas, MGoto, MutexTypeOK, MPC
<1>4. state \in State
  BY <1>0 DEF MutexTypeOK
<1>5. \A h \in G : (Carries(h)' <=> Carries(h)) /\ (Flagged(h)' <=> Flagged(h))
  BY <1>2, <1>3 DEF Carries, Flagged
<1>6. OneWakeup'
  BY <1>0, <1>2, <1>5 DEF Core, OneWakeup
<1>7. Linked' /\ Locals'
  BY <1>0, <1>2, <1>3, <1>a DEF Core, Linked, Locals
<1>8. CASE state = old[g]
  <2>1. state' = [state EXCEPT !.locked = TRUE] /\ mpc'[g] = "held"
    BY <1>0, <1>8 DEF tryLockCas, MGoto, MutexTypeOK
  <2>2. ~state.locked /\ ~state.starving
    BY <1>0, <1>3, <1>8 DEF Core, Locals
  <2>3. /\ state' \in State /\ state'.locked /\ state'.woken = state.woken
        /\ state'.starving = state.starving
    BY <1>4, <2>1 DEF State
  <2>4. MutexTypeOK'
    BY <1>0, <1>2, <1>3, <1>a, <2>3 DEF MutexTypeOK
  <2>5. Announced' /\ FlagSet'
    BY <1>0, <1>2, <1>5, <2>2, <2>3 DEF Core, Announced, FlagSet
  <2>6. HandedOver'
    BY <1>0, <1>3, <2>1, <2>2 DEF Core, HandedOver
  <2>7. HeldLocked' /\ MutualExclusion' /\ NoThrow' /\ ModeOK'
    BY <1>0, <1>3, <2>2, <2>3 DEF Core, HeldLocked, MutualExclusion, NoThrow, ModeOK
  <2> QED BY <1>1, <1>6, <1>7, <2>4, <2>5, <2>6, <2>7, Parts DEF Core
<1>9. CASE state # old[g]
  <2>1. state' = state /\ mpc'[g] = "out"
    BY <1>0, <1>9 DEF tryLockCas, MGoto, MutexTypeOK
  <2>2. MutexTypeOK'
    BY <1>0, <1>2, <1>3, <1>a, <2>1 DEF MutexTypeOK
  <2>3. Announced' /\ FlagSet'
    BY <1>0, <1>2, <1>5, <2>1 DEF Core, Announced, FlagSet
  <2>4. HandedOver' /\ HeldLocked' /\ MutualExclusion' /\ NoThrow' /\ ModeOK'
    BY <1>0, <1>2, <1>3, <1>a, <2>1 DEF Core, HandedOver, HeldLocked, MutualExclusion, NoThrow, ModeOK
  <2> QED BY <1>1, <1>6, <1>7, <2>2, <2>3, <2>4, Parts DEF Core
<1> QED BY <1>8, <1>9

\* Unlock: a starving mutex is handed over with a unit, and then no other
\* wakeup is on its way; otherwise the lock bit is just dropped.
LEMMA UnlockKeeps ==
  ASSUME IInv, NEW g \in G, Unlock(g)
  PROVE  IInv'
<1>0. SemaInvariant /\ MutexTypeOK /\ Core
  BY Parts
<1>1. mpc[g] = "held" /\ state' = [state EXCEPT !.locked = FALSE]
      /\ UNCHANGED <<calls, awoke, starving, iter, slept, val, ticket>>
  BY DEF Unlock, semaVars, semrelease1, SemCall
<1>2. state \in State
  BY <1>0 DEF MutexTypeOK
<1>3. /\ state' \in State /\ ~state'.locked /\ state'.woken = state.woken
      /\ state'.starving = state.starving /\ state'.waiters = state.waiters
  BY <1>1, <1>2 DEF State
<1>4. state.locked /\ spc[g] = "idle" /\ \A h \in G : h # g => mpc[h] # "held"
  BY <1>0, <1>1 DEF Core, HeldLocked, Linked, MutualExclusion, NoThrow
<1>5. PICK l \in {"out", "semrelease", "unlockSlow"} : mpc' = [mpc EXCEPT ![g] = l]
  BY DEF Unlock, MGoto
<1>6. mpc' \in [G -> MPC] /\ mpc'[g] = l /\ \A h \in G : h # g => mpc'[h] = mpc[h]
  BY <1>0, <1>5 DEF MutexTypeOK, MPC
<1>7. old' \in [G -> State] /\ \A h \in G : h # g => old'[h] = old[h]
  <2>1. UNCHANGED old \/ old' = [old EXCEPT ![g] = state']
    BY <1>1 DEF Unlock
  <2> QED BY <1>0, <1>3, <2>1 DEF MutexTypeOK
<1>8. MutexTypeOK'
  BY <1>0, <1>1, <1>3, <1>6, <1>7 DEF MutexTypeOK
<1>9. Locals'
  BY <1>0, <1>1, <1>6, <1>7 DEF Core, Locals
<1>10. \A h \in G : mpc[h] # "fix"
  BY <1>0, <1>4 DEF Core, HandedOver
<1>11. HandedOver' /\ HeldLocked' /\ MutualExclusion' /\ NoThrow'
  BY <1>0, <1>4, <1>6, <1>10 DEF Core, HandedOver, HeldLocked, MutualExclusion, NoThrow
<1>12. ModeOK'
  BY <1>0, <1>3 DEF Core, ModeOK
<1>13. (val[sema] = 1 \/ \E h \in G : Carries(h) \/ Flagged(h)) => state.woken /\ ~state.starving
  BY <1>0, <1>4 DEF Core, Announced, FlagSet
<1>14. ~Flagged(g) /\ ~Flagged(g)'
  BY <1>1, <1>6 DEF Flagged
<1>15. CASE ~state.starving
  <2>1. UNCHANGED semaVars /\ l # "semrelease"
    BY <1>1, <1>3, <1>5, <1>6, <1>15 DEF Unlock, MGoto, Free
  <2>2. SemaInvariant' /\ UNCHANGED <<spc, addr>>
    BY <1>0, <2>1, SemaUnchanged DEF semaVars
  <2>3. \A h \in G : h # g => (Carries(h)' <=> Carries(h)) /\ (Flagged(h)' <=> Flagged(h))
    BY <1>1, <1>6, <2>2, Frame
  <2>4. ~Carries(g) /\ ~Carries(g)'
    BY <1>1, <1>4, <1>6, <2>2 DEF Carries
  <2>5. Linked'
    BY <1>0, <1>4, <1>6, <2>1, <2>2 DEF Core, Linked
  <2>6. OneWakeup'
    BY <1>0, <1>1, <1>14, <2>3, <2>4 DEF Core, OneWakeup
  <2>7. Announced' /\ FlagSet'
    BY <1>1, <1>3, <1>13, <1>14, <2>3, <2>4 DEF Announced, FlagSet
  <2> QED BY <1>8, <1>9, <1>11, <1>12, <2>2, <2>5, <2>6, <2>7, Parts DEF Core
<1>16. CASE state.starving
  <2>1. semrelease1(g, sema, TRUE) /\ l = "semrelease"
    <3>1. state' # Free
      <4>1. ~Free.starving
        BY DEF Free
      <4>2. state'.starving
        BY <1>3, <1>16
      <4> QED BY <4>1, <4>2
    <3>2. mpc' = [mpc EXCEPT ![g] = "semrelease"] /\ semrelease1(g, sema, TRUE)
      BY <1>1, <1>3, <1>16, <3>1 DEF Unlock, MGoto
    <3>3. mpc'[g] = "semrelease"
      BY <1>0, <3>2 DEF MutexTypeOK
    <3> QED BY <1>6, <3>2, <3>3
  <2>2. SemaInvariant'
    BY <1>0, <2>1, SemaCallKeeps, MutexAssumption DEF semrelease1
  <2>3. /\ spc'[g] = "xadd" /\ addr'[g] = sema
        /\ \A h \in G : h # g => spc'[h] = spc[h] /\ addr'[h] = addr[h]
    BY <1>0, <2>1 DEF semrelease1, SemCall, SGoto, SemaInvariant, SemaTypeOK
  <2>4. \A h \in G : h # g => (Carries(h)' <=> Carries(h)) /\ (Flagged(h)' <=> Flagged(h))
    BY <1>1, <1>6, <2>3, Frame
  <2>5. val[sema] # 1 /\ \A h \in G : ~Carries(h) /\ ~Flagged(h)
    BY <1>13, <1>16
  <2>6. OneWakeup'
    BY <1>0, <1>1, <1>14, <2>4, <2>5 DEF Core, OneWakeup
  <2>7. Announced' /\ FlagSet'
    BY <1>0, <1>3, <1>14, <1>16, <2>4, <2>5 DEF Core, ModeOK, Announced, FlagSet
  <2>8. Linked'
    BY <1>0, <1>6, <2>1, <2>3 DEF Core, Linked, ReleasePC
  <2> QED BY <1>8, <1>9, <1>11, <1>12, <2>2, <2>6, <2>7, <2>8, Parts DEF Core
<1> QED BY <1>15, <1>16

\* unlockSlow takes the right to wake someone only while no wakeup is on its way.
LEMMA UnlockSlowKeeps ==
  ASSUME IInv, NEW g \in G, unlockSlow(g)
  PROVE  IInv'
<1>0. SemaInvariant /\ MutexTypeOK /\ Core
  BY Parts
<1>1. mpc[g] = "unlockSlow"
      /\ UNCHANGED <<calls, awoke, starving, iter, slept, val, ticket>>
  BY DEF unlockSlow, lockVars, semaVars, semrelease1, SemCall
<1>a. old' \in [G -> State] /\ \A h \in G : h # g => old'[h] = old[h]
  BY <1>0 DEF unlockSlow, ForgetOld, MutexTypeOK, Free, State
<1>2. state \in State /\ old[g] \in State
  BY <1>0 DEF MutexTypeOK
<1>3. spc[g] = "idle"
  BY <1>0, <1>1 DEF Core, Linked
<1>4. PICK l \in {"out", "unlockLoad", "semrelease"} : mpc' = [mpc EXCEPT ![g] = l]
  BY DEF unlockSlow, MGoto
<1>5. mpc' \in [G -> MPC] /\ mpc'[g] = l /\ \A h \in G : h # g => mpc'[h] = mpc[h]
  BY <1>0, <1>4 DEF MutexTypeOK, MPC
<1>6. Locals'
  BY <1>0, <1>1, <1>5, <1>a DEF Core, Locals
<1>7. ~Flagged(g) /\ ~Flagged(g)'
  BY <1>1, <1>5 DEF Flagged
<1>8. CASE l # "semrelease"
  <2>1. UNCHANGED <<state, semaVars>>
    BY <1>0, <1>5, <1>8 DEF unlockSlow, MGoto, MutexTypeOK
  <2>2. SemaInvariant' /\ MutexTypeOK' /\ UNCHANGED <<spc, addr>>
    BY <1>0, <1>1, <1>5, <1>a, <2>1, SemaUnchanged DEF semaVars, MutexTypeOK
  <2>3. \A h \in G : h # g => (Carries(h)' <=> Carries(h)) /\ (Flagged(h)' <=> Flagged(h))
    BY <1>1, <1>5, <2>2, Frame
  <2>4. ~Carries(g) /\ ~Carries(g)'
    BY <1>1, <1>3, <1>5, <2>2 DEF Carries
  <2>5. OneWakeup' /\ Announced' /\ FlagSet'
    BY <1>0, <1>1, <1>7, <2>1, <2>3, <2>4 DEF Core, OneWakeup, Announced, FlagSet
  <2>6. HandedOver' /\ HeldLocked' /\ MutualExclusion' /\ NoThrow' /\ ModeOK'
    BY <1>0, <1>1, <1>5, <1>a, <2>1 DEF Core, HandedOver, HeldLocked, MutualExclusion, NoThrow, ModeOK
  <2>7. Linked'
    BY <1>0, <1>3, <1>5, <1>8, <2>2 DEF Core, Linked
  <2> QED BY <1>6, <2>2, <2>5, <2>6, <2>7, Parts DEF Core
<1>9. CASE l = "semrelease"
  <2>1. /\ state = old[g] /\ state.waiters # 0
        /\ ~state.locked /\ ~state.woken /\ ~state.starving
        /\ state' = [state EXCEPT !.waiters = @ - 1, !.woken = TRUE]
        /\ semrelease1(g, sema, FALSE)
    BY <1>0, <1>5, <1>9 DEF unlockSlow, MGoto, MutexTypeOK
  <2>2. state.waiters \in Nat
    BY <1>2 DEF State
  <2>3. /\ state' \in State /\ state'.woken /\ state'.locked = state.locked
        /\ state'.starving = state.starving
    <3>1. state.waiters - 1 \in Nat
      BY <2>1, <2>2
    <3> QED BY <1>2, <2>1, <3>1 DEF State
  <2>4. MutexTypeOK'
    BY <1>0, <1>1, <1>5, <1>a, <2>3 DEF MutexTypeOK
  <2>5. SemaInvariant'
    BY <1>0, <2>1, SemaCallKeeps, MutexAssumption DEF semrelease1
  <2>6. /\ spc'[g] = "xadd" /\ addr'[g] = sema
        /\ \A h \in G : h # g => spc'[h] = spc[h] /\ addr'[h] = addr[h]
    BY <1>0, <2>1 DEF semrelease1, SemCall, SGoto, SemaInvariant, SemaTypeOK
  <2>7. \A h \in G : h # g => (Carries(h)' <=> Carries(h)) /\ (Flagged(h)' <=> Flagged(h))
    BY <1>1, <1>5, <2>6, Frame
  <2>8. val[sema] # 1 /\ \A h \in G : ~Carries(h) /\ ~Flagged(h)
    BY <1>0, <2>1 DEF Core, Announced, FlagSet
  <2>9. OneWakeup'
    BY <1>0, <1>1, <1>7, <2>7, <2>8 DEF Core, OneWakeup
  <2>10. Announced' /\ FlagSet'
    BY <1>7, <2>1, <2>3, <2>7, <2>8 DEF Announced, FlagSet
  <2>11. HandedOver'
    BY <1>0, <1>5, <1>9, <2>1 DEF Core, HandedOver
  <2>12. HeldLocked' /\ MutualExclusion' /\ NoThrow' /\ ModeOK'
    BY <1>0, <1>5, <1>9, <2>1, <2>3 DEF Core, HeldLocked, MutualExclusion, NoThrow, ModeOK
  <2>13. Linked'
    BY <1>0, <1>5, <1>9, <2>6 DEF Core, Linked, ReleasePC
  <2> QED BY <1>6, <2>4, <2>5, <2>9, <2>10, <2>11, <2>12, <2>13, Parts DEF Core
<1> QED BY <1>8, <1>9

\* Unlock loads the state again.
LEMMA UnlockLoadKeeps ==
  ASSUME IInv, NEW g \in G, unlockLoad(g)
  PROVE  IInv'
<1>0. SemaInvariant /\ MutexTypeOK /\ Core
  BY Parts
<1>1. SemaInvariant'
  BY <1>0, SemaUnchanged DEF unlockLoad
<1>2. MutexTypeOK'
  BY <1>0 DEF unlockLoad, MutexTypeOK, MGoto, MPC
<1>3. UNCHANGED <<val, spc, ticket, addr, state, awoke, starving>>
  BY DEF unlockLoad, semaVars
<1>4. mpc[g] = "unlockLoad" /\ mpc'[g] = "unlockSlow"
  BY <1>0 DEF unlockLoad, MutexTypeOK, MGoto
<1>5. \A h \in G : h # g => mpc'[h] = mpc[h] /\ old'[h] = old[h]
  BY <1>0 DEF unlockLoad, MutexTypeOK, MGoto
<1>6. \A h \in G : (Carries(h)' <=> Carries(h)) /\ (Flagged(h)' <=> Flagged(h))
  BY <1>3, <1>4, <1>5 DEF Carries, Flagged
<1>7. Linked' /\ Locals'
  BY <1>0, <1>3, <1>4, <1>5 DEF Core, Linked, Locals
<1>8. OneWakeup' /\ Announced' /\ FlagSet'
  BY <1>0, <1>3, <1>6 DEF Core, OneWakeup, Announced, FlagSet
<1>9. HandedOver' /\ HeldLocked' /\ MutualExclusion' /\ NoThrow' /\ ModeOK'
  BY <1>0, <1>3, <1>4, <1>5 DEF Core, HandedOver, HeldLocked, MutualExclusion, NoThrow, ModeOK
<1> QED BY <1>1, <1>2, <1>7, <1>8, <1>9, Parts DEF Core

\* Unlock returns from semrelease1.
LEMMA UnlockDoneKeeps ==
  ASSUME IInv, NEW g \in G, unlockDone(g)
  PROVE  IInv'
<1>0. SemaInvariant /\ MutexTypeOK /\ Core
  BY Parts
<1>1. SemReturn(g, "released") /\ UNCHANGED <<state, calls, old, awoke, starving, iter, slept>>
  BY DEF unlockDone
<1>2. SemaInvariant'
  BY <1>0, <1>1, SemaReturnKeeps
<1>3. spc[g] = "released" /\ spc'[g] = "idle" /\ (\A h \in G : h # g => spc'[h] = spc[h])
      /\ UNCHANGED <<val, ticket, addr>>
  BY <1>0, <1>1 DEF SemReturn, SGoto, SemaInvariant, SemaTypeOK
<1>4. mpc[g] = "semrelease" /\ mpc'[g] = "out" /\ mpc' \in [G -> MPC]
      /\ \A h \in G : h # g => mpc'[h] = mpc[h]
  BY <1>0 DEF unlockDone, MGoto, MutexTypeOK, MPC
<1>5. MutexTypeOK'
  BY <1>0, <1>1, <1>4 DEF MutexTypeOK
<1>6. \A h \in G : (Carries(h)' <=> Carries(h)) /\ (Flagged(h)' <=> Flagged(h))
  BY <1>1, <1>3, <1>4 DEF Carries, Flagged
<1>7. Linked' /\ Locals'
  BY <1>0, <1>1, <1>3, <1>4 DEF Core, Linked, Locals
<1>8. OneWakeup' /\ Announced' /\ FlagSet'
  BY <1>0, <1>1, <1>3, <1>6 DEF Core, OneWakeup, Announced, FlagSet
<1>9. HandedOver' /\ HeldLocked' /\ MutualExclusion' /\ NoThrow' /\ ModeOK'
  BY <1>0, <1>1, <1>4 DEF Core, HandedOver, HeldLocked, MutualExclusion, NoThrow, ModeOK
<1> QED BY <1>2, <1>5, <1>7, <1>8, <1>9, Parts DEF Core

-----------------------------------------------------------------------------
(* The steps of the semaphores.                                            *)

\* A step of g in the semaphores leaves the callers where they are.
LEMMA SemaStepLinked ==
  ASSUME IInv, NEW g \in G, SemaStep(g), UNCHANGED mutexVars
  PROVE  Linked' /\ addr[g] = sema
<1>0. SemaInvariant /\ SemaTypeOK /\ Linked
  BY DEF IInv, SemaInvariant
<1>1. spc[g] # "idle" /\ UNCHANGED <<addr, mpc>>
  BY DEF SemaStep, semEasy, semLock, semCheck, semUndo, semQueue, semRetry, semXadd,
         semNwait, semDequeue, semHandoff, semReady, mutexVars
<1>2. addr[g] = sema
  BY <1>0, <1>1 DEF Linked
<1>3. ASSUME NEW l \in SPC, SGoto(g, l),
             \/ spc[g] \in AcquirePC /\ l \in AcquirePC
             \/ spc[g] \in ReleasePC /\ l \in ReleasePC
      PROVE  Linked'
  <2>1. spc'[g] = l /\ \A h \in G : h # g => spc'[h] = spc[h]
    BY <1>0, <1>3, SGotoFact
  <2>2. mpc[g] \in {"sema", "semrelease"}
    BY <1>0, <1>1 DEF Linked
  <2>3. mpc[g] = "sema" => l \in AcquirePC
    BY <1>0, <1>3 DEF Linked, AcquirePC, ReleasePC
  <2>4. mpc[g] = "semrelease" => l \in ReleasePC
    BY <1>0, <1>3 DEF Linked, AcquirePC, ReleasePC
  <2> QED BY <1>0, <1>1, <1>2, <2>1, <2>2, <2>3, <2>4 DEF Linked
<1>4. CASE semReady(g)
  <2>1. PICK x \in G : x = found[g]
    BY <1>0, <1>4 DEF semReady, SemaInvariant, FoundAsleep, Dequeued
  <2>2. spc[x] = "park" /\ spc[g] = "ready"
    BY <1>0, <1>4, <2>1 DEF semReady, SemaInvariant, FoundAsleep, Dequeued
  <2>3. mpc[x] = "sema" /\ mpc[g] = "semrelease"
    BY <1>0, <2>2 DEF Linked, AcquirePC, ReleasePC
  <2>4. spc'[x] = "retry" /\ spc'[g] = "released"
        /\ \A h \in G : h # x /\ h # g => spc'[h] = spc[h]
    BY <1>0, <1>4, <2>1, <2>2 DEF semReady, SemaTypeOK
  <2> QED BY <1>0, <1>1, <1>2, <2>2, <2>3, <2>4 DEF Linked, AcquirePC, ReleasePC
<1>5. CASE semEasy(g) \/ semLock(g) \/ semCheck(g) \/ semUndo(g) \/ semQueue(g) \/ semRetry(g)
  <2>1. PICK l \in {"lock", "check", "undo", "queue", "park", "acquired"} : SGoto(g, l)
    BY <1>5 DEF semEasy, semLock, semCheck, semUndo, semQueue, semRetry
  <2>2. spc[g] \in AcquirePC
    BY <1>5 DEF semEasy, semLock, semCheck, semUndo, semQueue, semRetry, AcquirePC
  <2>3. l \in SPC /\ l \in AcquirePC
    BY DEF SPC, AcquirePC
  <2> QED BY <1>2, <1>3, <2>1, <2>2, <2>3
<1>6. CASE semXadd(g) \/ semNwait(g) \/ semDequeue(g) \/ semHandoff(g)
  <2>1. PICK l \in {"nwait", "dequeue", "handoff", "ready", "released"} : SGoto(g, l)
    BY <1>6 DEF semXadd, semNwait, semDequeue, semHandoff
  <2>2. spc[g] \in ReleasePC
    BY <1>6 DEF semXadd, semNwait, semDequeue, semHandoff, ReleasePC
  <2>3. l \in SPC /\ l \in ReleasePC
    BY DEF SPC, ReleasePC
  <2> QED BY <1>2, <1>3, <2>1, <2>2, <2>3
<1> QED BY <1>2, <1>4, <1>5, <1>6 DEF SemaStep

\* Nothing is carried that was not: a unit taken from the word.
LEMMA TakeOne ==
  ASSUME OneWakeup, SemaTypeOK, NEW g \in G, NEW x \in G, addr[g] = sema,
         val[addr[g]] > 0, Take(g),
         \A h \in G : h # x => (Carries(h)' <=> Carries(h)),
         \A h \in G : Flagged(h)' <=> Flagged(h)
  PROVE  OneWakeup' /\ val[sema] = 1
<1>1. val[sema] = 1 /\ val'[sema] = 0
  BY DEF OneWakeup, Take, SemaTypeOK
<1>2. \A h \in G : ~Carries(h) /\ ~Flagged(h)
  BY <1>1 DEF OneWakeup
<1> QED BY <1>1, <1>2 DEF OneWakeup

\* A step of the semaphores moves the one wakeup, makes no other and loses none.
LEMMA SemaStepWakeup ==
  ASSUME IInv, NEW g \in G, SemaStep(g), UNCHANGED mutexVars
  PROVE  /\ OneWakeup'
         /\ (val'[sema] = 1 \/ \E h \in G : Carries(h)') <=>
               (val[sema] = 1 \/ \E h \in G : Carries(h))
<1>0. SemaInvariant /\ SemaTypeOK /\ OneWakeup /\ Linked
  BY DEF IInv, SemaInvariant
<1>1. addr[g] = sema /\ UNCHANGED <<mpc, awoke>>
  BY SemaStepLinked DEF mutexVars
<1>2. \A h \in G : Flagged(h)' <=> Flagged(h)
  BY <1>1 DEF Flagged
<1>3. ASSUME UNCHANGED val, \A h \in G : Carries(h)' <=> Carries(h)
      PROVE  /\ OneWakeup'
             /\ (val'[sema] = 1 \/ \E h \in G : Carries(h)') <=>
                   (val[sema] = 1 \/ \E h \in G : Carries(h))
  BY <1>0, <1>2, <1>3 DEF OneWakeup
<1>4. ASSUME val[addr[g]] > 0, Take(g), NEW x \in G, Carries(x)',
             \A h \in G : h # x => (Carries(h)' <=> Carries(h))
      PROVE  /\ OneWakeup'
             /\ (val'[sema] = 1 \/ \E h \in G : Carries(h)') <=>
                   (val[sema] = 1 \/ \E h \in G : Carries(h))
  BY <1>0, <1>1, <1>2, <1>4, TakeOne
<1>5. mpc[g] # "fix"
  <2>1. spc[g] # "idle"
    BY DEF SemaStep, semEasy, semLock, semCheck, semUndo, semQueue, semRetry, semXadd,
           semNwait, semDequeue, semHandoff, semReady
  <2> QED BY <1>0, <2>1 DEF Linked
<1>6. ASSUME NEW l \in SPC, SGoto(g, l),
             \A h \in G : h # g => ticket'[h] = ticket[h]
      PROVE  spc'[g] = l /\ \A h \in G : h # g => (Carries(h)' <=> Carries(h))
  <2>1. spc'[g] = l /\ \A h \in G : h # g => spc'[h] = spc[h]
    BY <1>0, <1>6, SGotoFact
  <2> QED BY <1>1, <1>6, <2>1 DEF Carries
<1>7. CASE semEasy(g)
  <2>1. \A h \in G : h # g => ticket'[h] = ticket[h]
    BY <1>0, <1>7 DEF semEasy, SemaTypeOK
  <2>2. CASE val[addr[g]] > 0
    <3>1. Take(g) /\ SGoto(g, "acquired") /\ "acquired" \in SPC
      BY <1>7, <2>2 DEF semEasy, SPC
    <3>2. Carries(g)'
      BY <1>6, <2>1, <3>1 DEF Carries
    <3> QED BY <1>4, <1>6, <2>1, <2>2, <3>1, <3>2
  <2>3. CASE ~(val[addr[g]] > 0)
    <3>1. spc[g] = "easy" /\ SGoto(g, "lock") /\ "lock" \in SPC /\ UNCHANGED val
      BY <1>7, <2>3 DEF semEasy, SPC
    <3>2. spc'[g] = "lock" /\ \A h \in G : h # g => (Carries(h)' <=> Carries(h))
      BY <1>6, <2>1, <3>1
    <3>3. ~Carries(g) /\ ~Carries(g)'
      BY <1>1, <1>5, <3>1, <3>2 DEF Carries
    <3> QED BY <1>3, <3>1, <3>2, <3>3
  <2> QED BY <2>2, <2>3
<1>8. CASE semLock(g) \/ semNwait(g)
  <2>1. PICK l \in {"check", "released", "dequeue"} : SGoto(g, l)
    BY <1>8 DEF semLock, semNwait
  <2>2. spc[g] \in {"lock", "nwait"} /\ UNCHANGED <<val, ticket>> /\ l \in SPC
    BY <1>8 DEF semLock, semNwait, SPC
  <2>3. spc'[g] = l /\ \A h \in G : h # g => (Carries(h)' <=> Carries(h))
    BY <1>6, <2>1, <2>2
  <2>4. ~Carries(g) /\ ~Carries(g)'
    BY <1>1, <1>5, <2>2, <2>3 DEF Carries
  <2> QED BY <1>3, <2>2, <2>3, <2>4
<1>9. CASE semCheck(g)
  <2>1. spc[g] = "check" /\ UNCHANGED ticket
    BY <1>9 DEF semCheck
  <2>2. CASE val[addr[g]] > 0
    <3>1. Take(g) /\ SGoto(g, "undo") /\ "undo" \in SPC
      BY <1>9, <2>2 DEF semCheck, SPC
    <3>2. Carries(g)'
      BY <1>6, <2>1, <3>1 DEF Carries
    <3> QED BY <1>4, <1>6, <2>1, <2>2, <3>1, <3>2
  <2>3. CASE ~(val[addr[g]] > 0)
    <3>1. SGoto(g, "queue") /\ "queue" \in SPC /\ UNCHANGED val
      BY <1>9, <2>3 DEF semCheck, SPC
    <3>2. spc'[g] = "queue" /\ \A h \in G : h # g => (Carries(h)' <=> Carries(h))
      BY <1>6, <2>1, <3>1
    <3>3. ~Carries(g) /\ ~Carries(g)'
      BY <1>1, <1>5, <2>1, <3>2 DEF Carries
    <3> QED BY <1>3, <3>1, <3>2, <3>3
  <2> QED BY <2>2, <2>3
<1>10. CASE semUndo(g)
  <2>1. spc[g] = "undo" /\ SGoto(g, "acquired") /\ "acquired" \in SPC /\ UNCHANGED <<val, ticket>>
    BY <1>10 DEF semUndo, SPC
  <2>2. spc'[g] = "acquired" /\ \A h \in G : h # g => (Carries(h)' <=> Carries(h))
    BY <1>6, <2>1
  <2>3. Carries(g) /\ Carries(g)'
    BY <2>1, <2>2 DEF Carries
  <2> QED BY <1>3, <2>1, <2>2, <2>3
<1>11. CASE semQueue(g)
  <2>1. spc[g] = "queue" /\ SGoto(g, "park") /\ "park" \in SPC /\ UNCHANGED <<val, ticket>>
    BY <1>11 DEF semQueue, SPC
  <2>2. spc'[g] = "park" /\ \A h \in G : h # g => (Carries(h)' <=> Carries(h))
    BY <1>6, <2>1
  <2>3. ~ticket[g]
    BY <1>0, <2>1 DEF SemaInvariant, TicketFresh
  <2>4. ~Carries(g) /\ ~Carries(g)'
    BY <1>1, <1>5, <2>1, <2>2, <2>3 DEF Carries
  <2> QED BY <1>3, <2>1, <2>2, <2>4
<1>12. CASE semRetry(g)
  <2>1. spc[g] = "retry" /\ UNCHANGED ticket /\ "acquired" \in SPC /\ "lock" \in SPC
    BY <1>12 DEF semRetry, SPC
  <2>2. CASE ticket[g] /\ SGoto(g, "acquired") /\ UNCHANGED val
    <3>1. spc'[g] = "acquired" /\ \A h \in G : h # g => (Carries(h)' <=> Carries(h))
      BY <1>6, <2>1, <2>2
    <3>2. Carries(g) /\ Carries(g)'
      BY <2>1, <2>2, <3>1 DEF Carries
    <3> QED BY <1>3, <2>2, <3>1, <3>2
  <2>3. CASE val[addr[g]] > 0 /\ Take(g) /\ SGoto(g, "acquired")
    <3>1. Carries(g)'
      BY <1>6, <2>1, <2>3 DEF Carries
    <3> QED BY <1>4, <1>6, <2>1, <2>3, <3>1
  <2>4. CASE ~ticket[g] /\ SGoto(g, "lock") /\ UNCHANGED val
    <3>1. spc'[g] = "lock" /\ \A h \in G : h # g => (Carries(h)' <=> Carries(h))
      BY <1>6, <2>1, <2>4
    <3>2. ~Carries(g) /\ ~Carries(g)'
      BY <1>1, <1>5, <2>1, <2>4, <3>1 DEF Carries
    <3> QED BY <1>3, <2>4, <3>1, <3>2
  <2> QED BY <1>12, <2>2, <2>3, <2>4 DEF semRetry
<1>13. CASE semXadd(g)
  <2>1. spc[g] = "xadd" /\ SGoto(g, "nwait") /\ "nwait" \in SPC /\ UNCHANGED ticket
    BY <1>13 DEF semXadd, SPC
  <2>2. spc'[g] = "nwait" /\ \A h \in G : h # g => (Carries(h)' <=> Carries(h))
    BY <1>6, <2>1
  <2>3. Carries(g) /\ ~Carries(g)'
    BY <1>1, <1>5, <2>1, <2>2 DEF Carries
  <2>4. val[sema] = 0 /\ ~Flagged(g) /\ \A h \in G : h # g => ~Carries(h) /\ ~Flagged(h)
    <3>1. ~Flagged(g)
      BY <1>0, <2>1 DEF Linked, Flagged
    <3> QED BY <1>0, <2>3, <3>1 DEF OneWakeup
  <2>5. val'[sema] = 1
    BY <1>0, <1>1, <1>13, <2>4 DEF semXadd, SemaTypeOK
  <2> QED BY <1>2, <2>2, <2>3, <2>4, <2>5 DEF OneWakeup
<1>14. CASE semDequeue(g)
  <2>1. spc[g] = "dequeue" /\ UNCHANGED val
    BY <1>14 DEF semDequeue
  <2>2. PICK l \in {"released", "handoff"} : SGoto(g, l)
    BY <1>14 DEF semDequeue
  <2>3. \A h \in G : ticket'[h] = ticket[h]
    <3>1. CASE nwait = 0 \/ waitq[addr[g]] = <<>>
      BY <1>14, <3>1 DEF semDequeue
    <3>2. CASE ~(nwait = 0 \/ waitq[addr[g]] = <<>>)
      <4>1. PICK q \in Seq(G) : q = waitq[addr[g]] /\ q # <<>>
        BY <1>0, <3>2 DEF SemaTypeOK
      <4>2. ticket' = [ticket EXCEPT ![Head(q)] = FALSE]
        BY <1>14, <3>2, <4>1 DEF semDequeue
      <4>3. Head(q) = q[1] /\ 1 \in DOMAIN q /\ Head(q) \in G
        BY <4>1
      <4>4. addr[g] \in Addr /\ ticket \in [G -> BOOLEAN]
        BY <1>0 DEF SemaTypeOK
      <4>5. ~ticket[Head(q)]
        BY <1>0, <4>1, <4>3, <4>4 DEF SemaInvariant, QueuedAsleep
      <4>6. ticket[Head(q)] = FALSE
        BY <4>3, <4>4, <4>5
      <4> QED BY <4>2, <4>3, <4>4, <4>6
    <3> QED BY <3>1, <3>2
  <2>4. l \in SPC
    BY DEF SPC
  <2>5. spc'[g] = l /\ \A h \in G : h # g => (Carries(h)' <=> Carries(h))
    BY <1>6, <2>2, <2>3, <2>4
  <2>6. ~Carries(g) /\ ~Carries(g)'
    BY <1>1, <1>5, <2>1, <2>5 DEF Carries
  <2> QED BY <1>3, <2>1, <2>5, <2>6
<1>15. CASE semHandoff(g)
  <2>1. spc[g] = "handoff" /\ SGoto(g, "ready") /\ "ready" \in SPC
    BY <1>15 DEF semHandoff, SPC
  <2>2. PICK x \in G : x = found[g]
    BY <1>0, <2>1 DEF SemaInvariant, FoundAsleep, Dequeued
  <2>3. spc'[g] = "ready" /\ \A h \in G : h # g => spc'[h] = spc[h]
    BY <1>0, <2>1, SGotoFact
  <2>4. ~Carries(g) /\ ~Carries(g)'
    BY <1>1, <1>5, <2>1, <2>3 DEF Carries
  <2>5. CASE flag[g] /\ val[addr[g]] > 0
    <3>1. Take(g) /\ ticket' = [ticket EXCEPT ![x] = TRUE]
      BY <1>15, <2>2, <2>5 DEF semHandoff
    <3>2. \A h \in G : h # x => ticket'[h] = ticket[h]
      BY <1>0, <3>1 DEF SemaTypeOK
    <3>3. \A h \in G : h # g /\ h # x => (Carries(h)' <=> Carries(h))
      BY <1>1, <2>3, <3>2 DEF Carries
    <3>4. \A h \in G : h # x => (Carries(h)' <=> Carries(h))
      BY <2>4, <3>3
    <3>5. Carries(x)'
      <4>1. spc[x] = "park" /\ x # g
        BY <1>0, <2>1, <2>2 DEF SemaInvariant, FoundAsleep, Dequeued
      <4>2. spc'[x] = "park" /\ ticket'[x]
        BY <1>0, <2>3, <3>1, <4>1 DEF SemaTypeOK
      <4> QED BY <4>2 DEF Carries
    <3> QED BY <1>4, <2>5, <3>1, <3>4, <3>5
  <2>6. CASE ~(flag[g] /\ val[addr[g]] > 0)
    <3>1. UNCHANGED <<val, ticket>>
      BY <1>15, <2>6 DEF semHandoff
    <3>2. \A h \in G : h # g => (Carries(h)' <=> Carries(h))
      BY <1>1, <2>3, <3>1 DEF Carries
    <3> QED BY <1>3, <2>4, <3>1, <3>2
  <2> QED BY <2>5, <2>6
<1>16. CASE semReady(g)
  <2>1. PICK x \in G : x = found[g]
    BY <1>0, <1>16 DEF semReady, SemaInvariant, FoundAsleep, Dequeued
  <2>2. spc[x] = "park" /\ spc[g] = "ready" /\ UNCHANGED <<val, ticket>>
    BY <1>0, <1>16, <2>1 DEF semReady, SemaInvariant, FoundAsleep, Dequeued
  <2>3. spc'[x] = "retry" /\ spc'[g] = "released"
        /\ \A h \in G : h # x /\ h # g => spc'[h] = spc[h]
    BY <1>0, <1>16, <2>1, <2>2 DEF semReady, SemaTypeOK
  <2>4. Carries(x)' <=> Carries(x)
    BY <1>1, <2>2, <2>3 DEF Carries
  <2>5. ~Carries(g) /\ ~Carries(g)'
    BY <1>1, <1>5, <2>2, <2>3 DEF Carries
  <2>6. \A h \in G : h # x /\ h # g => (Carries(h)' <=> Carries(h))
    BY <1>1, <2>2, <2>3 DEF Carries
  <2> QED BY <1>3, <2>2, <2>4, <2>5, <2>6
<1> QED BY <1>7, <1>8, <1>9, <1>10, <1>11, <1>12, <1>13, <1>14, <1>15, <1>16 DEF SemaStep

\* A step of the semaphores keeps IInv.
LEMMA SemaStepInv ==
  ASSUME IInv, NEW g \in G, SemaStep(g), UNCHANGED mutexVars
  PROVE  IInv'
<1>0. SemaInvariant /\ MutexTypeOK /\ Core
  BY Parts
<1>1. UNCHANGED <<state, mpc, calls, old, awoke, starving, iter, slept>>
  BY DEF mutexVars
<1>2. SemaInvariant'
  BY <1>0, SemaStepKeeps
<1>3. MutexTypeOK'
  BY <1>0, <1>1 DEF MutexTypeOK
<1>4. Linked'
  BY SemaStepLinked
<1>5. OneWakeup'
  BY SemaStepWakeup
<1>6. Announced'
  <2>1. (val'[sema] = 1 \/ \E h \in G : Carries(h)') =>
          (val[sema] = 1 \/ \E h \in G : Carries(h))
    BY SemaStepWakeup
  <2> QED BY <1>0, <1>1, <2>1 DEF Core, Announced
<1>7. FlagSet' /\ HandedOver' /\ Locals' /\ HeldLocked' /\ ModeOK' /\ MutualExclusion' /\ NoThrow'
  BY <1>0, <1>1 DEF Core, FlagSet, Flagged, HandedOver, Locals, HeldLocked, ModeOK,
                    MutualExclusion, NoThrow
<1> QED BY <1>2, <1>3, <1>4, <1>5, <1>6, <1>7, Parts DEF Core

-----------------------------------------------------------------------------
\* The free mutex satisfies IInv.
LEMMA InitInv == Init => IInv
<1> SUFFICES ASSUME Init PROVE IInv
  OBVIOUS
<1>1. SemaInvariant
  BY SemaInitInvariant DEF Init
<1>2. MutexTypeOK
  BY DEF Init, MutexTypeOK, State, Free, MPC
<1>3. /\ \A g \in G : spc[g] = "idle" /\ mpc[g] = "out" /\ val[sema] = 0
      /\ ~state.starving
  BY MutexAssumption DEF Init, SemaInit, Free
<1>4. val[sema] = 0
  BY MutexAssumption DEF Init, SemaInit
<1>5. \A g \in G : ~Carries(g) /\ ~Flagged(g)
  BY <1>3 DEF Carries, Flagged
<1>6. OneWakeup /\ Announced /\ FlagSet
  BY <1>4, <1>5 DEF OneWakeup, Announced, FlagSet
<1>7. Linked /\ HandedOver /\ Locals /\ HeldLocked /\ ModeOK /\ NoThrow /\ MutualExclusion
  BY <1>3 DEF Linked, HandedOver, Locals, HeldLocked, ModeOK, MutualExclusion, NoThrow
<1> QED BY <1>1, <1>2, <1>6, <1>7, Parts DEF Core

\* Every step keeps IInv.
LEMMA NextInv ==
  ASSUME IInv, [Next]_vars
  PROVE  IInv'
<1>1. CASE UNCHANGED vars
  <2>1. UNCHANGED semaVars /\ UNCHANGED mutexVars
    BY <1>1 DEF vars
  <2>2. SemaInvariant'
    BY <2>1, SemaUnchanged, Parts
  <2>3. MutexTypeOK' /\ Core'
    BY <2>1, Parts DEF semaVars, mutexVars, MutexTypeOK, Core, Linked, OneWakeup, Announced,
       FlagSet, HandedOver, Locals, HeldLocked, ModeOK, MutualExclusion, NoThrow, Carries, Flagged
  <2> QED BY <2>2, <2>3, Parts
<1>2. ASSUME NEW g \in G, Run(g) PROVE IInv'
  BY <1>2, LoadKeeps, SpinKeeps, CasKeeps, WokenKeeps, FixKeeps, TryCasKeeps, UnlockKeeps,
     UnlockSlowKeeps, UnlockLoadKeeps, UnlockDoneKeeps, SemaStepInv DEF Run
<1> QED BY <1>1, <1>2, LockKeeps, TryKeeps DEF Next

\* The inductive invariant of the mutex: one wakeup at a time, announced by
\* mutexWoken or amounting to the ownership of a starving mutex.
THEOREM MutexInvariant == Spec => []IInv
<1>1. Init => IInv
  BY InitInv
<1>2. IInv /\ [Next]_vars => IInv'
  BY NextInv
<1> QED BY <1>1, <1>2, PTL DEF Spec

\* At most one goroutine is between a successful Lock or TryLock and Unlock,
\* through spinning, barging and both modes, for any number of goroutines.
THEOREM MutexExclusive == Spec => []MutualExclusion
<1>1. IInv => MutualExclusion
  BY DEF IInv
<1> QED BY <1>1, MutexInvariant, PTL

\* The throws "sync: inconsistent mutex state" of lockSlow are unreachable: a
\* goroutine that owns mutexWoken sees it set, and the receiver of a starving
\* mutex finds it unlocked, not woken and with itself still counted.
THEOREM MutexNoThrow == Spec => []NoThrow
<1>1. IInv => NoThrow
  BY DEF IInv
<1> QED BY <1>1, MutexInvariant, PTL

\* What Unlock relies on when it hands a starving mutex over without a look at
\* the waiter count, although lockFix leaves starvation mode by an old count.
THEOREM MutexStarvingHasWaiters == Spec => []StarvingHasWaiters
<1>1. IInv => StarvingHasWaiters
  BY DEF IInv, ModeOK, StarvingHasWaiters
<1> QED BY <1>1, MutexInvariant, PTL

-----------------------------------------------------------------------------
(* The waiter count, and no waiter is forgotten.                           *)

Waits   == {g \in G : mpc[g] \in {"sema", "fix"}}
Leaving == IF state.woken /\ \A g \in G : ~Flagged(g) THEN 1 ELSE 0

\* A wakeup is on its way.
Pending == val[sema] = 1 \/ \E g \in G : Carries(g) \/ Flagged(g)

\* g is in Unlock and will see that it has to wake somebody.
Seer(g) == \/ mpc[g] = "unlockLoad"
           \/ /\ mpc[g] = "unlockSlow" /\ old[g].waiters # 0
              /\ ~old[g].locked /\ ~old[g].woken /\ ~old[g].starving

\* Why unlockSlow may leave without waking anybody when it finds the mutex woken,
\* starving or locked: a wakeup is on its way, or the holder will unlock.
Urged  == state.woken \/ (state.starving /\ ~state.locked) => Pending
Served == ~state.locked /\ state.waiters > 0 => Pending \/ \E g \in G : Seer(g)

Account == /\ state.waiters + Leaving = Cardinality(Waits)
           /\ Urged /\ Served

\* The steps of the mutex's own code.
Own(g) == \/ Lock(g) \/ TryLock(g) \/ lockLoad(g) \/ lockSpin(g) \/ lockCas(g) \/ lockWoken(g)
          \/ lockFix(g) \/ tryLockCas(g) \/ Unlock(g) \/ unlockSlow(g) \/ unlockLoad(g)
          \/ unlockDone(g)

\* They leave the other goroutines and the semaphore's word alone.
LEMMA OwnFrame ==
  ASSUME IInv, NEW g \in G, Own(g)
  PROVE  /\ val'[sema] = val[sema]
         /\ \A h \in G : h # g =>
              /\ mpc'[h] = mpc[h] /\ (Seer(h)' <=> Seer(h))
              /\ (Carries(h)' <=> Carries(h)) /\ (Flagged(h)' <=> Flagged(h))
<1>0. SemaTypeOK /\ MutexTypeOK
  BY Parts DEF SemaInvariant
<1>1. val' = val /\ ticket' = ticket /\ \A h \in G : h # g => spc'[h] = spc[h]
  BY <1>0 DEF Own, Lock, TryLock, lockLoad, lockSpin, lockCas, lockWoken, lockFix, tryLockCas, Unlock,
     unlockSlow, unlockLoad, unlockDone, semacquire1, semrelease1, SemCall, SemReturn, SGoto,
     SemaTypeOK, semaVars
<1>2. \A h \in G : h # g => mpc'[h] = mpc[h]
  BY <1>0 DEF Own, Lock, TryLock, lockLoad, lockSpin, lockCas, lockWoken, lockFix, tryLockCas, Unlock,
     unlockSlow, unlockLoad, unlockDone, MGoto, MutexTypeOK
<1>3. \A h \in G : h # g => awoke'[h] = awoke[h]
  BY <1>0 DEF Own, Lock, TryLock, lockLoad, lockSpin, lockCas, lockWoken, lockFix, tryLockCas, Unlock,
     unlockSlow, unlockLoad, unlockDone, Fresh, lockVars, MutexTypeOK
<1>4. \A h \in G : h # g => old'[h] = old[h]
  BY <1>0 DEF Own, Lock, TryLock, lockLoad, lockSpin, lockCas, lockWoken, lockFix, tryLockCas, Unlock,
     unlockSlow, unlockLoad, unlockDone, ForgetOld, MutexTypeOK
<1>5. \A h \in G : h # g => (Seer(h)' <=> Seer(h))
  BY <1>2, <1>4 DEF Seer
<1>6. \A h \in G : h # g => (Carries(h)' <=> Carries(h)) /\ (Flagged(h)' <=> Flagged(h))
  BY <1>1, <1>2, <1>3, Frame
<1> QED BY <1>1, <1>2, <1>5, <1>6

\* The set of waiters when g moves.
LEMMA WaitsStep ==
  ASSUME NEW g \in G, \A h \in G : h # g => mpc'[h] = mpc[h], Account, state.waiters \in Nat
  PROVE  /\ Cardinality(Waits') \in Nat
         /\ g \in Waits <=> mpc[g] \in {"sema", "fix"}
         /\ mpc[g] \in {"sema", "fix"} /\ mpc'[g] \notin {"sema", "fix"} =>
              Cardinality(Waits') = state.waiters + Leaving - 1
         /\ mpc[g] \notin {"sema", "fix"} /\ mpc'[g] \in {"sema", "fix"} =>
              Cardinality(Waits') = state.waiters + Leaving + 1
         /\ (mpc[g] \in {"sema", "fix"} <=> mpc'[g] \in {"sema", "fix"}) =>
              Cardinality(Waits') = state.waiters + Leaving
<1>1. Waits \in SUBSET G /\ Waits' \in SUBSET G
  BY DEF Waits
<1>2. IsFiniteSet(Waits) /\ IsFiniteSet(Waits') /\ Cardinality(Waits) = state.waiters + Leaving
  BY <1>1, FS_Subset, FiniteAssumption DEF Account
<1>3. Cardinality(Waits') \in Nat /\ Cardinality(Waits) \in Nat
  BY <1>2, FS_CardinalityType
<1>4. ASSUME mpc[g] \in {"sema", "fix"}, mpc'[g] \notin {"sema", "fix"}
      PROVE  Cardinality(Waits') = state.waiters + Leaving - 1
  <2>1. Waits' = Waits \ {g} /\ g \in Waits
    BY <1>4 DEF Waits
  <2>2. Cardinality(Waits \ {g}) = Cardinality(Waits) - 1
    BY <1>2, <2>1, FS_RemoveElement
  <2>3. Cardinality(Waits') = Cardinality(Waits) - 1
    BY <2>1, <2>2
  <2>4. Leaving \in Nat
    BY DEF Leaving
  <2> QED BY <1>2, <1>3, <2>3, <2>4
<1>5. ASSUME mpc[g] \notin {"sema", "fix"}, mpc'[g] \in {"sema", "fix"}
      PROVE  Cardinality(Waits') = state.waiters + Leaving + 1
  <2>1. Waits' = Waits \cup {g} /\ g \notin Waits
    BY <1>5 DEF Waits
  <2> QED BY <1>2, <2>1, FS_AddElement
<1>6. ASSUME mpc[g] \in {"sema", "fix"} <=> mpc'[g] \in {"sema", "fix"}
      PROVE  Cardinality(Waits') = state.waiters + Leaving
  <2>1. Waits' = Waits
    BY <1>6 DEF Waits
  <2> QED BY <1>2, <2>1
<1>7. g \in Waits <=> mpc[g] \in {"sema", "fix"}
  BY DEF Waits
<1> QED BY <1>3, <1>4, <1>5, <1>6, <1>7


\* A step that changes neither the count, the flags nor what g has to do for the
\* waiters, except that it may take the mutex.
LEMMA Quiet ==
  ASSUME IInv, Account, NEW g \in G, Own(g),
         state'.woken = state.woken, state'.starving = state.starving,
         state'.waiters = state.waiters, state'.locked \/ ~state.locked,
         Carries(g)' <=> Carries(g), Flagged(g)' <=> Flagged(g),
         mpc[g] \in {"sema", "fix"} <=> mpc'[g] \in {"sema", "fix"},
         Seer(g) /\ ~state.locked /\ state.waiters > 0 => Seer(g)' \/ Pending
  PROVE  Account'
<1>0. state \in State
  BY Parts DEF MutexTypeOK
<1>1. /\ val'[sema] = val[sema]
      /\ \A h \in G : h # g =>
           /\ mpc'[h] = mpc[h] /\ (Seer(h)' <=> Seer(h))
           /\ (Carries(h)' <=> Carries(h)) /\ (Flagged(h)' <=> Flagged(h))
  BY OwnFrame
<1>2. \A h \in G : (Carries(h)' <=> Carries(h)) /\ (Flagged(h)' <=> Flagged(h))
  BY <1>1
<1>3. Leaving' = Leaving /\ (Pending' <=> Pending)
  BY <1>1, <1>2 DEF Leaving, Pending
<1>4. state'.waiters + Leaving' = Cardinality(Waits')
  <2>1. state.waiters \in Nat
    BY <1>0 DEF State
  <2> QED BY <1>1, <1>3, <2>1, WaitsStep
<1>5. Urged'
  BY <1>3 DEF Urged, Account
<1>6. Served'
  <2> SUFFICES ASSUME ~state'.locked, state'.waiters > 0
               PROVE  Pending' \/ \E h \in G : Seer(h)'
    BY DEF Served
  <2>1. ~state.locked /\ state.waiters > 0
    OBVIOUS
  <2>2. Pending \/ \E h \in G : Seer(h)
    BY <2>1 DEF Account, Served
  <2> QED BY <1>1, <1>3, <2>1, <2>2
<1> QED BY <1>4, <1>5, <1>6 DEF Account

\* The fast path of Lock and the CAS of TryLock.
LEMMA LockAccount ==
  ASSUME IInv, Account, NEW g \in G, Lock(g) \/ tryLockCas(g)
  PROVE  Account'
<1>0. MutexTypeOK /\ IInv' /\ Own(g)
  BY Parts, LockKeeps, TryCasKeeps DEF Own
<1>1. mpc[g] \in {"out", "try"} /\ mpc'[g] \in {"held", "load", "out"}
  BY <1>0 DEF Lock, tryLockCas, MGoto, MutexTypeOK
<1>2. ~awoke'[g] \/ mpc'[g] # "load"
  BY <1>0 DEF Lock, tryLockCas, MGoto, Fresh, MutexTypeOK
<1>3. /\ state'.woken = state.woken /\ state'.starving = state.starving
      /\ state'.waiters = state.waiters /\ (state'.locked \/ ~state.locked)
  <2>1. state' = state \/ state' = [state EXCEPT !.locked = TRUE]
    BY DEF Lock, tryLockCas
  <2>2. state \in State
    BY <1>0 DEF MutexTypeOK
  <2> QED BY <2>1, <2>2 DEF State
<1>4. ~Carries(g) /\ ~Carries(g)'
  <2>1. spc[g] = "idle" /\ spc' = spc
    BY <1>1 DEF IInv, Linked, Lock, tryLockCas, semaVars
  <2> QED BY <1>1, <2>1 DEF Carries
<1>5. ~Flagged(g) /\ ~Flagged(g)' /\ ~Seer(g)
  BY <1>1, <1>2 DEF Flagged, Seer
<1> QED BY <1>0, <1>1, <1>3, <1>4, <1>5, Quiet

\* The loads of the state, and the end of Unlock.
LEMMA LoadAccount ==
  ASSUME IInv, Account, NEW g \in G, TryLock(g) \/ lockLoad(g) \/ unlockLoad(g) \/ unlockDone(g)
  PROVE  Account'
<1>0. MutexTypeOK /\ SemaTypeOK /\ Own(g) /\ state' = state /\ awoke' = awoke
  BY Parts DEF Own, TryLock, lockLoad, unlockLoad, unlockDone, SemaInvariant
<1>1. CASE TryLock(g)
  <2>1. mpc[g] = "out" /\ mpc'[g] \in {"out", "try"}
    BY <1>0, <1>1 DEF TryLock, MGoto, MutexTypeOK
  <2>2. spc[g] = "idle" /\ spc' = spc
    BY <1>1, <2>1 DEF IInv, Linked, TryLock, semaVars
  <2>3. ~Carries(g) /\ ~Carries(g)' /\ ~Flagged(g) /\ ~Flagged(g)' /\ ~Seer(g)
    BY <2>1, <2>2 DEF Carries, Flagged, Seer
  <2> QED BY <1>0, <2>1, <2>3, Quiet
<1>2. CASE lockLoad(g)
  <2>1. mpc[g] = "load" /\ mpc'[g] = "loop"
    BY <1>0, <1>2 DEF lockLoad, MGoto, MutexTypeOK
  <2>2. spc[g] = "idle" /\ spc' = spc
    BY <1>2, <2>1 DEF IInv, Linked, lockLoad, semaVars
  <2>3. ~Carries(g) /\ ~Carries(g)' /\ (Flagged(g)' <=> Flagged(g)) /\ ~Seer(g)
    BY <1>0, <2>1, <2>2 DEF Carries, Flagged, Seer
  <2> QED BY <1>0, <2>1, <2>3, Quiet
<1>3. CASE unlockLoad(g)
  <2>1. mpc[g] = "unlockLoad" /\ mpc'[g] = "unlockSlow" /\ old'[g] = state
    BY <1>0, <1>3 DEF unlockLoad, MGoto, MutexTypeOK
  <2>2. spc[g] = "idle" /\ spc' = spc
    BY <1>3, <2>1 DEF IInv, Linked, unlockLoad, semaVars
  <2>3. ~Carries(g) /\ ~Carries(g)' /\ ~Flagged(g)' /\ ~Flagged(g)
    BY <2>1, <2>2 DEF Carries, Flagged
  <2>4. ~state.locked /\ state.waiters > 0 => Seer(g)' \/ Pending
    <3> SUFFICES ASSUME ~state.locked, state.waiters > 0, ~Pending
                 PROVE  Seer(g)'
      OBVIOUS
    <3>1. ~state.woken /\ ~state.starving
      BY DEF Account, Urged
    <3>2. state.waiters # 0
      BY <1>0 DEF MutexTypeOK, State
    <3> QED BY <2>1, <3>1, <3>2 DEF Seer
  <2> QED BY <1>0, <2>1, <2>3, <2>4, Quiet
<1>4. CASE unlockDone(g)
  <2>1. mpc[g] = "semrelease" /\ mpc'[g] = "out" /\ spc[g] = "released" /\ spc'[g] = "idle"
    BY <1>0, <1>4 DEF unlockDone, MGoto, MutexTypeOK, SemReturn, SGoto, SemaTypeOK
  <2>2. ~Carries(g) /\ ~Carries(g)' /\ ~Flagged(g)' /\ ~Flagged(g) /\ ~Seer(g)
    BY <2>1 DEF Carries, Flagged, Seer
  <2> QED BY <1>0, <2>1, <2>2, Quiet
<1> QED BY <1>1, <1>2, <1>3, <1>4

\* What the others do not change: the count and the wakeup in terms of g.
LEMMA OthersStay ==
  ASSUME IInv, Account, NEW g \in G, Own(g)
  PROVE  /\ Pending' <=> \/ val[sema] = 1 \/ Carries(g)' \/ Flagged(g)'
                         \/ \E h \in G : h # g /\ (Carries(h) \/ Flagged(h))
         /\ Leaving' = IF state'.woken /\ ~Flagged(g)' /\ (\A h \in G : h # g => ~Flagged(h))
                         THEN 1 ELSE 0
         /\ state.waiters \in Nat /\ Leaving \in Nat
         /\ mpc[g] \in {"sema", "fix"} /\ mpc'[g] \notin {"sema", "fix"} =>
              Cardinality(Waits') = state.waiters + Leaving - 1
         /\ mpc[g] \notin {"sema", "fix"} /\ mpc'[g] \in {"sema", "fix"} =>
              Cardinality(Waits') = state.waiters + Leaving + 1
         /\ (mpc[g] \in {"sema", "fix"} <=> mpc'[g] \in {"sema", "fix"}) =>
              Cardinality(Waits') = state.waiters + Leaving
<1>1. /\ val'[sema] = val[sema]
      /\ \A h \in G : h # g =>
           /\ mpc'[h] = mpc[h] /\ (Seer(h)' <=> Seer(h))
           /\ (Carries(h)' <=> Carries(h)) /\ (Flagged(h)' <=> Flagged(h))
  BY OwnFrame
<1>2. Pending' <=> \/ val[sema] = 1 \/ Carries(g)' \/ Flagged(g)'
                   \/ \E h \in G : h # g /\ (Carries(h) \/ Flagged(h))
  BY <1>1 DEF Pending
<1>3. Leaving' = IF state'.woken /\ ~Flagged(g)' /\ (\A h \in G : h # g => ~Flagged(h))
                   THEN 1 ELSE 0
  <2>1. (\A h \in G : ~Flagged(h)') <=> ~Flagged(g)' /\ (\A h \in G : h # g => ~Flagged(h))
    BY <1>1
  <2> QED BY <2>1 DEF Leaving
<1>4. state.waiters \in Nat /\ Leaving \in Nat
  BY Parts DEF MutexTypeOK, State, Leaving
<1> QED BY <1>1, <1>2, <1>3, <1>4, WaitsStep

\* Spinning: the flag is its own pending wakeup.
LEMMA SpinAccount ==
  ASSUME IInv, Account, NEW g \in G, lockSpin(g)
  PROVE  Account'
<1>0. MutexTypeOK /\ Own(g)
  BY Parts DEF Own
<1>1. mpc[g] = "loop" /\ mpc'[g] = "load"
  BY <1>0 DEF lockSpin, MGoto, MutexTypeOK
<1>2. spc[g] = "idle" /\ spc' = spc
  BY <1>1 DEF IInv, Linked, lockSpin, semaVars
<1>3. ~Carries(g) /\ ~Carries(g)' /\ ~Seer(g)
  BY <1>1, <1>2 DEF Carries, Seer
<1>4. CASE UNCHANGED <<state, awoke>>
  <2>1. Flagged(g)' <=> Flagged(g)
    BY <1>1, <1>4 DEF Flagged
  <2> QED BY <1>0, <1>1, <1>3, <1>4, <2>1, Quiet
<1>5. CASE /\ ~old[g].woken /\ state = old[g] /\ awoke' = [awoke EXCEPT ![g] = TRUE]
           /\ state' = [state EXCEPT !.woken = TRUE]
  <2>1. state'.waiters = state.waiters /\ ~state.woken
    BY <1>0, <1>5 DEF MutexTypeOK, State
  <2>2. Flagged(g)'
    BY <1>0, <1>1, <1>5 DEF Flagged, MutexTypeOK
  <2>3. Leaving = 0
    BY <2>1 DEF Leaving
  <2>4. Leaving' = 0 /\ Pending' /\ Cardinality(Waits') = state.waiters + Leaving
    BY <1>0, <1>1, <2>2, OthersStay
  <2> QED BY <2>1, <2>3, <2>4 DEF Account, Urged, Served
<1> QED BY <1>4, <1>5 DEF lockSpin

\* The CAS of lockSlow: one more waiter or a new holder; the flag goes back.
LEMMA CasAccount ==
  ASSUME IInv, Account, NEW g \in G, lockCas(g)
  PROVE  Account'
<1>0. MutexTypeOK /\ SemaTypeOK /\ Own(g) /\ IInv'
  BY Parts, CasKeeps DEF Own, SemaInvariant
<1>1. mpc[g] = "loop" /\ spc[g] = "idle"
  BY DEF lockCas, IInv, Linked
<1>2. (awoke[g] => old[g].woken) /\ (starving[g] => awoke[g])
  BY <1>1 DEF IInv, Locals
<1>3. ~Carries(g) /\ ~Seer(g) /\ (Flagged(g) <=> awoke[g])
  BY <1>1 DEF Carries, Seer, Flagged
<1>4. CASE state # old[g]
  <2>1. mpc'[g] = "load" /\ state' = state /\ spc' = spc /\ awoke' = awoke
    BY <1>0, <1>2, <1>4 DEF lockCas, MGoto, MutexTypeOK, lockVars, semaVars
  <2>2. ~Carries(g)' /\ (Flagged(g)' <=> Flagged(g))
    BY <1>1, <2>1 DEF Carries, Flagged
  <2> QED BY <1>0, <1>1, <1>3, <2>1, <2>2, Quiet
<1>5. CASE state = old[g]
  <2>1. state' = New(g)
    BY <1>2, <1>5 DEF lockCas
  <2>2. /\ state'.locked = (state.locked \/ ~state.starving)
        /\ state'.woken = (state.woken /\ ~awoke[g])
        /\ state'.starving = (state.starving \/ (starving[g] /\ state.locked))
        /\ state'.waiters = IF state.locked \/ state.starving THEN state.waiters + 1
                                                              ELSE state.waiters
    BY <1>5, <2>1 DEF New
  <2>3. mpc'[g] = IF state.locked \/ state.starving THEN "sema" ELSE "held"
    BY <1>0, <1>2, <1>5 DEF lockCas, MGoto, MutexTypeOK
  <2>4. spc'[g] \in {"idle", "easy"}
    BY <1>0, <1>1, <1>2, <1>5 DEF lockCas, semacquire1, SemCall, SGoto, SemaTypeOK, semaVars
  <2>5. ~Carries(g)' /\ ~Flagged(g)'
    BY <2>3, <2>4 DEF Carries, Flagged
  <2>6. state \in State
    BY <1>0 DEF MutexTypeOK
  <2>7. CASE awoke[g]
    <3>1. ~state.starving /\ ~state'.woken /\ state'.locked
      BY <1>3, <2>2, <2>7 DEF IInv, FlagSet
    <3>2. Leaving = 0
      BY <1>3, <2>7 DEF Leaving
    <3>3. Leaving' = 0
      BY <3>1 DEF Leaving
    <3>4. state.waiters \in Nat
      BY <2>6 DEF State
    <3>5. state'.waiters + Leaving' = Cardinality(Waits')
      <4>1. CASE state.locked
        <5>1. Cardinality(Waits') = state.waiters + Leaving + 1 /\ state'.waiters = state.waiters + 1
          BY <1>0, <1>1, <2>2, <2>3, <4>1, OthersStay
        <5> QED BY <3>2, <3>3, <3>4, <5>1
      <4>2. CASE ~state.locked
        <5>1. Cardinality(Waits') = state.waiters + Leaving /\ state'.waiters = state.waiters
          BY <1>0, <1>1, <2>2, <2>3, <3>1, <4>2, OthersStay
        <5> QED BY <3>2, <3>3, <3>4, <5>1
      <4> QED BY <4>1, <4>2
    <3> QED BY <3>1, <3>5 DEF Account, Urged, Served
  <2>8. CASE ~awoke[g]
    <3>1. state'.woken = state.woken /\ state'.starving = state.starving
      BY <1>2, <2>2, <2>6, <2>8 DEF State
    <3>2. CASE state.locked \/ state.starving
      <4>1. state'.locked = state.locked /\ state'.waiters = state.waiters + 1
        BY <2>2, <2>6, <3>2 DEF State
      <4>2. Leaving' = Leaving /\ (Pending' <=> Pending)
        BY <1>0, <1>3, <2>5, <2>8, <3>1, OthersStay DEF Leaving, Pending
      <4>3. /\ Cardinality(Waits') = state.waiters + Leaving + 1
            /\ state.waiters \in Nat /\ Leaving \in Nat
        BY <1>0, <1>1, <2>3, <3>2, OthersStay
      <4>4. Urged' /\ Served'
        BY <3>1, <3>2, <4>1, <4>2 DEF Account, Urged, Served
      <4> QED BY <4>1, <4>2, <4>3, <4>4 DEF Account
    <3>3. CASE ~(state.locked \/ state.starving)
      <4>1. state'.waiters = state.waiters /\ mpc'[g] = "held" /\ state'.locked
        BY <2>2, <2>3, <3>3
      <4> QED BY <1>0, <1>1, <1>3, <2>5, <2>8, <3>1, <4>1, Quiet
    <3> QED BY <3>2, <3>3
  <2> QED BY <2>7, <2>8
<1> QED BY <1>4, <1>5

\* A woken waiter becomes the owner of the flag, or of the starving mutex.
LEMMA WokenAccount ==
  ASSUME IInv, Account, NEW g \in G, lockWoken(g)
  PROVE  Account'
<1>0. MutexTypeOK /\ SemaTypeOK /\ Own(g) /\ IInv' /\ state' = state
  BY Parts, WokenKeeps DEF Own, SemaInvariant, lockWoken
<1>1. mpc[g] = "sema" /\ spc[g] = "acquired"
  BY DEF lockWoken, SemReturn
<1>2. Carries(g) /\ ~Flagged(g) /\ ~Seer(g)
  BY <1>1 DEF Carries, Flagged, Seer
<1>3. \A h \in G : ~Flagged(h)
  BY <1>2 DEF IInv, OneWakeup
<1>4. (state.woken /\ ~state.starving) \/ state.starving
  BY <1>2 DEF IInv, Announced
<1>5. CASE state.starving
  <2>1. mpc'[g] \in {"fix", "throw"} /\ mpc'[g] # "throw"
    BY <1>0, <1>5 DEF lockWoken, MGoto, MutexTypeOK, IInv, NoThrow
  <2>2. Carries(g)' /\ ~Flagged(g)'
    BY <2>1 DEF Carries, Flagged
  <2> QED BY <1>0, <1>1, <1>2, <2>1, <2>2, Quiet
<1>6. CASE ~state.starving
  <2>1. mpc'[g] = "loop" /\ awoke'[g]
    BY <1>0, <1>6 DEF lockWoken, MGoto, MutexTypeOK
  <2>2. Flagged(g)'
    BY <2>1 DEF Flagged
  <2>3. Leaving = 1
    BY <1>3, <1>4, <1>6 DEF Leaving
  <2>4. /\ Leaving' = 0 /\ Pending' /\ Cardinality(Waits') = state.waiters + Leaving - 1
        /\ state.waiters \in Nat
    BY <1>0, <1>1, <2>1, <2>2, OthersStay
  <2> QED BY <1>0, <2>3, <2>4 DEF Account, Urged, Served
<1> QED BY <1>5, <1>6

\* The receiver of a starving mutex stops being counted.
LEMMA FixAccount ==
  ASSUME IInv, Account, NEW g \in G, lockFix(g)
  PROVE  Account'
<1>0. MutexTypeOK /\ Own(g)
  BY Parts DEF Own
<1>1. mpc[g] = "fix" /\ mpc'[g] = "held"
  BY <1>0 DEF lockFix, MGoto, MutexTypeOK
<1>2. state.starving /\ ~state.woken
  BY <1>1 DEF IInv, HandedOver, ModeOK
<1>3. state'.locked /\ state'.woken = state.woken /\ state'.waiters = state.waiters - 1
  BY <1>0 DEF lockFix, MutexTypeOK, State
<1>4. Leaving = 0 /\ Leaving' = 0
  BY <1>2, <1>3 DEF Leaving
<1>5. Cardinality(Waits') = state.waiters + Leaving - 1 /\ state.waiters \in Nat
  BY <1>0, <1>1, OthersStay
<1> QED BY <1>2, <1>3, <1>4, <1>5 DEF Account, Urged, Served

\* Unlock: the holder hands over, or knows that it has to wake somebody, or a
\* wakeup is on its way.
LEMMA UnlockAccount ==
  ASSUME IInv, Account, NEW g \in G, Unlock(g)
  PROVE  Account'
<1>0. MutexTypeOK /\ SemaTypeOK /\ Own(g)
  BY Parts DEF Own, SemaInvariant
<1>1. mpc[g] = "held" /\ mpc'[g] \in {"out", "semrelease", "unlockSlow"} /\ spc[g] = "idle"
  BY <1>0 DEF Unlock, MGoto, MutexTypeOK, IInv, Linked
<1>2. state' = [state EXCEPT !.locked = FALSE] /\ state \in State
  BY <1>0 DEF Unlock, MutexTypeOK
<1>3. /\ ~state'.locked /\ state'.woken = state.woken
      /\ state'.starving = state.starving /\ state'.waiters = state.waiters
  BY <1>2 DEF State
<1>4. ~Carries(g) /\ ~Flagged(g) /\ ~Flagged(g)'
  BY <1>1 DEF Carries, Flagged
<1>5. Leaving' = Leaving
  BY <1>0, <1>3, <1>4, OthersStay DEF Leaving
<1>6. Pending => Pending'
  BY <1>0, <1>4, OthersStay DEF Pending
<1>7. state'.waiters + Leaving' = Cardinality(Waits')
  BY <1>0, <1>1, <1>3, <1>5, OthersStay
<1>8. state.woken => Pending'
  BY <1>6 DEF Account, Urged
<1>9. state.starving => Pending'
  <2> SUFFICES ASSUME state.starving PROVE Pending'
    OBVIOUS
  <2>0. ~Free.starving /\ state'.starving
    BY <1>3 DEF Free
  <2>1. state' # Free
    BY <2>0
  <2>2. semrelease1(g, sema, TRUE)
    BY <1>2, <1>3, <2>1 DEF Unlock
  <2>3. spc'[g] = "xadd"
    BY <1>0, <2>2 DEF semrelease1, SemCall, SGoto, SemaTypeOK
  <2>4. Carries(g)'
    BY <2>3 DEF Carries
  <2> QED BY <1>0, <2>4, OthersStay
<1>10. Urged'
  BY <1>3, <1>8, <1>9 DEF Urged
<1>11. Served'
  <2> SUFFICES ASSUME state.waiters > 0, ~state.woken, ~state.starving PROVE Seer(g)'
    BY <1>3, <1>8, <1>9 DEF Served
  <2>1. state' # Free /\ state'.waiters # 0
    BY <1>2, <1>3 DEF Free, State
  <2>2. mpc'[g] = "unlockSlow" /\ old'[g] = state'
    BY <1>0, <1>2, <1>3, <2>1 DEF Unlock, MGoto, MutexTypeOK
  <2> QED BY <1>3, <2>1, <2>2 DEF Seer
<1> QED BY <1>7, <1>10, <1>11 DEF Account

\* unlockSlow: the waiter it decides to wake leaves the count and is owed a unit;
\* if it gives up, it did not have to wake anybody.
LEMMA UnlockSlowAccount ==
  ASSUME IInv, Account, NEW g \in G, unlockSlow(g)
  PROVE  Account'
<1>0. MutexTypeOK /\ SemaTypeOK /\ Own(g)
  BY Parts DEF Own, SemaInvariant
<1>1. mpc[g] = "unlockSlow" /\ mpc'[g] \in {"out", "semrelease", "unlockLoad"} /\ spc[g] = "idle"
  BY <1>0 DEF unlockSlow, MGoto, MutexTypeOK, IInv, Linked
<1>2. ~Carries(g) /\ ~Flagged(g) /\ ~Flagged(g)'
  BY <1>1 DEF Carries, Flagged
<1>3. CASE ~Seer(g) \/ state # old[g]
  <2>1. /\ state' = state /\ spc' = spc /\ mpc'[g] \in {"out", "unlockLoad"}
        /\ Seer(g) => mpc'[g] = "unlockLoad"
    BY <1>0, <1>1, <1>3 DEF unlockSlow, MGoto, MutexTypeOK, semaVars, Seer
  <2>2. ~Carries(g)' /\ (Seer(g) => Seer(g)')
    BY <1>1, <2>1 DEF Carries, Seer
  <2> QED BY <1>0, <1>1, <1>2, <2>1, <2>2, Quiet
<1>4. CASE Seer(g) /\ state = old[g]
  <2>1. ~state.woken /\ ~state.locked /\ ~state.starving /\ state.waiters # 0
    BY <1>1, <1>4 DEF Seer
  <2>2. state' = [state EXCEPT !.waiters = @ - 1, !.woken = TRUE] /\ semrelease1(g, sema, FALSE)
    BY <1>4, <2>1 DEF unlockSlow
  <2>3. mpc'[g] = "semrelease"
    BY <1>0, <1>4, <2>1 DEF unlockSlow, MGoto, MutexTypeOK
  <2>4. state'.woken /\ state'.waiters = state.waiters - 1
    BY <1>0, <2>2 DEF MutexTypeOK, State
  <2>5. spc'[g] = "xadd"
    BY <1>0, <2>2 DEF semrelease1, SemCall, SGoto, SemaTypeOK
  <2>6. Carries(g)'
    BY <2>5 DEF Carries
  <2>7. \A h \in G : ~Flagged(h)
    BY <2>1 DEF IInv, FlagSet
  <2>8. Leaving = 0
    BY <2>1 DEF Leaving
  <2>9. /\ Leaving' = 1 /\ Pending' /\ state.waiters \in Nat
        /\ Cardinality(Waits') = state.waiters + Leaving
    BY <1>0, <1>1, <1>2, <2>3, <2>4, <2>6, <2>7, OthersStay
  <2> QED BY <2>4, <2>8, <2>9 DEF Account, Urged, Served
<1> QED BY <1>3, <1>4

\* A step of the semaphores passes the wakeup on and touches nothing else.
LEMMA SemaAccount ==
  ASSUME IInv, Account, NEW g \in G, SemaStep(g), UNCHANGED mutexVars
  PROVE  Account'
<1>1. UNCHANGED <<state, mpc, old, awoke>>
  BY DEF mutexVars
<1>2. \A h \in G : (Flagged(h)' <=> Flagged(h)) /\ (Seer(h)' <=> Seer(h))
  BY <1>1 DEF Flagged, Seer
<1>3. (val'[sema] = 1 \/ \E h \in G : Carries(h)') <=>
        (val[sema] = 1 \/ \E h \in G : Carries(h))
  BY SemaStepWakeup
<1>4. (Pending' <=> Pending) /\ Leaving' = Leaving /\ Waits' = Waits
  <2>1. Pending' <=> Pending
    BY <1>2, <1>3 DEF Pending
  <2>2. Leaving' = Leaving
    BY <1>1, <1>2 DEF Leaving
  <2>3. Waits' = Waits
    BY <1>1 DEF Waits
  <2> QED BY <2>1, <2>2, <2>3
<1>5. Urged' /\ Served'
  BY <1>1, <1>2, <1>4 DEF Account, Urged, Served
<1>6. state'.waiters + Leaving' = Cardinality(Waits')
  BY <1>1, <1>4 DEF Account
<1> QED BY <1>5, <1>6 DEF Account

\* The free mutex has no waiters.
LEMMA InitAccount == Init => Account
<1> SUFFICES ASSUME Init PROVE Account
  OBVIOUS
<1>1. state.waiters = 0 /\ ~state.woken /\ ~state.starving /\ \A g \in G : mpc[g] = "out"
  BY DEF Init, Free
<1>2. Waits = {} /\ Leaving = 0
  BY <1>1 DEF Waits, Leaving
<1>3. Cardinality(Waits) = 0
  BY <1>2, FS_EmptySet
<1> QED BY <1>1, <1>2, <1>3 DEF Account, Urged, Served

\* Every step keeps the account.
LEMMA NextAccount ==
  ASSUME IInv, Account, [Next]_vars
  PROVE  Account'
<1>1. CASE UNCHANGED vars
  <2>1. UNCHANGED <<state, mpc, old, awoke, val, spc, ticket>>
    BY <1>1 DEF vars, semaVars, mutexVars
  <2>2. Waits' = Waits /\ Leaving' = Leaving /\ (Pending' <=> Pending)
    BY <2>1 DEF Waits, Leaving, Pending, Flagged, Carries
  <2>3. \A h \in G : Seer(h)' <=> Seer(h)
    BY <2>1 DEF Seer
  <2> QED BY <2>1, <2>2, <2>3 DEF Account, Urged, Served
<1>2. ASSUME NEW g \in G, Run(g) PROVE Account'
  BY <1>2, LoadAccount, SpinAccount, CasAccount, WokenAccount, FixAccount, LockAccount,
     UnlockAccount, UnlockSlowAccount, SemaAccount DEF Run
<1> QED BY <1>1, <1>2, LockAccount, LoadAccount DEF Next

\* The account the mutex keeps of its waiters, together with IInv.
THEOREM MutexAccount == Spec => [](IInv /\ Account)
<1>1. Init => IInv /\ Account
  BY InitInv, InitAccount
<1>2. IInv /\ Account /\ [Next]_vars => IInv' /\ Account'
  BY NextInv, NextAccount
<1> QED BY <1>1, <1>2, PTL DEF Spec

\* The waiter count of m.state is exact at every step: no goroutine is counted
\* twice or left out, through spinning, sleeping, barging and hand-over.
THEOREM MutexWaitersCounted == Spec => []WaitersCounted
<1>1. Account => WaitersCounted
  BY DEF Account, WaitersCounted, Waits, Leaving
<1> QED BY <1>1, MutexAccount, PTL

\* If the mutex is free and has waiters, a wakeup is on its way or an Unlock that
\* is still running will send one: unlockSlow never gives up for nothing.
THEOREM MutexNotForgotten == Spec => []NotForgotten
<1>1. ASSUME IInv, Account PROVE NotForgotten
  <2>1. val[sema] = 1 => val[sema] > 0
    OBVIOUS
  <2>2. Served
    BY <1>1 DEF Account
  <2> QED BY <2>1, <2>2 DEF Served, Pending, Seer, NotForgotten
<1>2. IInv /\ Account => NotForgotten
  BY <1>1
<1> QED BY <1>2, MutexAccount, PTL

=============================================================================
