---------------------------- MODULE WatcherProofs ----------------------------
(***************************************************************************)
(* For any number of watchers and one-shot sweeps: who sweeps without      *)
(* having overridden the heartbeat holds the lock, and who holds the lock  *)
(* sweeps.  The first makes two such sweepers one; the second is what no   *)
(* death may break.                                                        *)
(***************************************************************************)
EXTENDS Watcher, TLAPS

LockIsHeld ==
    /\ \A w \in Watch : WatchSweeps(w) => lock = w
    /\ \A t \in Timer : TimerSweeps(t) /\ ~timer[t].override => lock = t
    /\ lock # "free" =>
          (lock \in Watch /\ WatchSweeps(lock)) \/ (lock \in Timer /\ TimerSweeps(lock))

WatcherInv == TypeOK /\ LockIsHeld

LEMMA Ages ==
    /\ AgeCap \in Nat /\ 0 .. SweepTime \subseteq 0 .. AgeCap
    /\ \A age \in 0 .. AgeCap : Capped(age + 1) \in 0 .. AgeCap
    /\ NoWatch \in WatchLocals /\ NoTimer \in TimerLocals
BY WatcherAssumption DEF AgeCap, Capped, NoWatch, NoTimer, WatchLocals, TimerLocals

LEMMA WatcherInit == Init => WatcherInv
<1> SUFFICES ASSUME Init PROVE WatcherInv
  OBVIOUS
<1>1. TypeOK  BY Ages DEF Init, TypeOK
<1>2. LockIsHeld
  BY DEF Init, LockIsHeld, WatchSweeps, TimerSweeps, NoWatch, NoTimer
<1> QED  BY <1>1, <1>2 DEF WatcherInv

-----------------------------------------------------------------------------
\* The steps of a process, by what they do to its own record and to the lock.

LEMMA WatchMoves ==
    ASSUME WatcherInv, NEW w \in Watch, NEW next \in WatchLocals,
           create' \in [Env -> {"new", "spawned", "leased", "ended"}],
           heartbeat' \in 0 .. AgeCap,
           watch' = [watch EXCEPT ![w] = next], timer' = timer,
           \/ /\ lock = "free" /\ lock' = w /\ next.at = "loop"
           \/ /\ lock' = lock
              /\ WatchSweeps(w) <=> next.at \in {"loop", "sweep", "count", "exit"}
           \/ /\ lock' = IF lock = w THEN "free" ELSE lock
              /\ next.at = "none"
    PROVE  WatcherInv'
<1> USE DEF WatcherInv, TypeOK
<1>1. TypeOK'
  OBVIOUS
<1>2. /\ watch'[w] = next
      /\ \A v \in Watch : v # w => watch'[v] = watch[v]
      /\ w \notin Timer /\ w # "free"
  BY WatcherAssumption
<1>3. LockIsHeld'
  BY <1>2, WatcherAssumption DEF LockIsHeld, WatchSweeps, TimerSweeps
<1> QED  BY <1>1, <1>3

LEMMA TimerMoves ==
    ASSUME WatcherInv, NEW t \in Timer, NEW next \in TimerLocals,
           create' \in [Env -> {"new", "spawned", "leased", "ended"}],
           heartbeat' \in 0 .. AgeCap,
           timer' = [timer EXCEPT ![t] = next], watch' = watch,
           \/ /\ lock = "free" /\ lock' = t /\ next.at = "sweep"
           \/ /\ lock' = lock
              /\ TimerSweeps(t) => next.at \in {"sweep", "prune"} /\ next.override = timer[t].override
              /\ ~TimerSweeps(t) => next.at \notin {"sweep", "prune"} \/ next.override
           \/ /\ lock' = IF lock = t THEN "free" ELSE lock
              /\ next.at = "idle"
    PROVE  WatcherInv'
<1> USE DEF WatcherInv, TypeOK
<1>1. TypeOK'
  OBVIOUS
<1>2. /\ timer'[t] = next
      /\ \A u \in Timer : u # t => timer'[u] = timer[u]
      /\ t \notin Watch /\ t # "free"
  BY WatcherAssumption
<1>3. LockIsHeld'
  BY <1>2, WatcherAssumption DEF LockIsHeld, WatchSweeps, TimerSweeps
<1> QED  BY <1>1, <1>3

LEMMA WatchLemma == ASSUME WatcherInv, NEW w \in Watch, WatchStep(w) PROVE WatcherInv'
<1> USE DEF WatcherInv, TypeOK
<1>1. /\ watch[w] \in WatchLocals /\ watch[w].lag \in 0 .. AgeCap /\ 0 \in 0 .. AgeCap
      /\ WatchSweeps(w) => lock = w
      /\ w \notin Timer /\ w # "free"
  BY Ages, WatcherAssumption DEF WatchLocals, LockIsHeld
<1>2. \A at \in {"none", "starting", "loop", "sweep", "count", "exit"}, lag \in 0 .. AgeCap :
        [watch[w] EXCEPT !.at = at, !.lag = lag] \in WatchLocals
  BY <1>1 DEF WatchLocals
<1>3. \A at \in {"none", "starting", "loop", "sweep", "count", "exit"} :
        [watch[w] EXCEPT !.at = at] \in WatchLocals
  BY <1>1 DEF WatchLocals
<1>4. NoWatch.at = "none"
  BY DEF NoWatch
<1>5. CASE WatchLock(w)
  <2> DEFINE next == [watch[w] EXCEPT !.at = "loop"]
  <2>1. next \in WatchLocals /\ next.at = "loop"  BY <1>1, <1>3 DEF WatchLocals
  <2>2. watch' = [watch EXCEPT ![w] = next]  BY <1>5 DEF WatchLock
  <2> HIDE DEF next
  <2> QED  BY <1>5, <2>1, <2>2, WatchMoves DEF WatchLock
<1>6. CASE WatchRefused(w)
  BY <1>4, <1>6, Ages, WatchMoves DEF WatchRefused, WatchSweeps
<1>7. CASE TickBegin(w)
  <2> DEFINE next == [watch[w] EXCEPT !.at = "sweep", !.lag = 0]
  <2>1. next \in WatchLocals /\ next.at = "sweep"  BY <1>1, <1>2, ZenonT(40) DEF WatchLocals
  <2>2. watch' = [watch EXCEPT ![w] = next]  BY <1>7 DEF TickBegin
  <2> HIDE DEF next
  <2> QED  BY <1>7, <2>1, <2>2, WatchMoves DEF TickBegin, WatchSweeps
<1>8. CASE \E e \in Env : WatchReap(w, e)
  BY <1>8 DEF WatchReap, LockIsHeld, WatchSweeps, TimerSweeps
<1>9. CASE TickEnd(w)
  <2> DEFINE next == [watch[w] EXCEPT !.at = "count", !.lag = 0]
  <2>1. next \in WatchLocals /\ next.at = "count"  BY <1>1, <1>2 DEF WatchLocals
  <2>2. watch' = [watch EXCEPT ![w] = next]  BY <1>9 DEF TickEnd
  <2> HIDE DEF next
  <2> QED  BY <1>1, <1>9, <2>1, <2>2, WatchMoves DEF TickEnd, WatchSweeps
<1>10. CASE TickError(w)
  <2> DEFINE next == [watch[w] EXCEPT !.at = "loop", !.lag = 0]
  <2>1. next \in WatchLocals /\ next.at = "loop"  BY <1>1, <1>2 DEF WatchLocals
  <2>2. watch' = [watch EXCEPT ![w] = next]  BY <1>10 DEF TickError
  <2> HIDE DEF next
  <2> QED  BY <1>10, <2>1, <2>2, WatchMoves DEF TickError, WatchSweeps
<1>11. CASE TickCount(w)
  <2> DEFINE at == IF Active = {} THEN "exit" ELSE "loop"
             next == [watch[w] EXCEPT !.at = at]
  <2>1. at \in {"exit", "loop"}  OBVIOUS
  <2>2. watch' = [watch EXCEPT ![w] = next]  BY <1>11 DEF TickCount
  <2> HIDE DEF at
  <2>3. next \in WatchLocals /\ next.at \in {"exit", "loop"}  BY <1>1, <1>3, <2>1 DEF WatchLocals
  <2> HIDE DEF next
  <2> QED  BY <1>11, <2>2, <2>3, WatchMoves DEF TickCount, WatchSweeps
<1>12. CASE WatchExit(w)
  BY <1>1, <1>4, <1>12, Ages, WatchMoves DEF WatchExit, WatchSweeps
<1>13. CASE WatchCrash(w)
  BY <1>4, <1>13, Ages, WatchMoves DEF WatchCrash
<1> QED
  BY <1>5, <1>6, <1>7, <1>8, <1>9, <1>10, <1>11, <1>12, <1>13 DEF WatchStep

LEMMA TimerLemma ==
    ASSUME WatcherInv, NEW t \in Timer, TimerStep(t) \/ TimerCrash(t)
    PROVE  WatcherInv'
<1> USE DEF WatcherInv, TypeOK
<1>1. /\ timer[t] \in TimerLocals /\ timer[t].lag \in 0 .. AgeCap /\ timer[t].override \in BOOLEAN
      /\ NoTimer.at = "idle"
  BY Ages DEF TimerLocals, NoTimer
<1>2. \A at \in {"idle", "starting", "judge", "sweep", "prune"} :
        LET next == [timer[t] EXCEPT !.at = at] IN
        next \in TimerLocals /\ next.at = at /\ next.override = timer[t].override
  BY <1>1 DEF TimerLocals
<1>3. CASE TimerBegin(t)
  <2> DEFINE next == [timer[t] EXCEPT !.at = "starting"]
  <2>1. next \in TimerLocals /\ next.at = "starting"  BY <1>2
  <2>2. timer' = [timer EXCEPT ![t] = next]  BY <1>3 DEF TimerBegin
  <2> HIDE DEF next
  <2> QED  BY <1>3, <2>1, <2>2, TimerMoves DEF TimerBegin, TimerSweeps
<1>4. CASE TimerLock(t)
  <2> DEFINE next == [timer[t] EXCEPT !.at = "sweep"]
  <2>1. next \in TimerLocals /\ next.at = "sweep"  BY <1>2
  <2>2. timer' = [timer EXCEPT ![t] = next]  BY <1>4 DEF TimerLock
  <2> HIDE DEF next
  <2> QED  BY <1>4, <2>1, <2>2, TimerMoves DEF TimerLock
<1>5. CASE TimerRefused(t)
  <2> DEFINE next == [timer[t] EXCEPT !.at = "judge"]
  <2>1. next \in TimerLocals /\ next.at = "judge"  BY <1>2
  <2>2. timer' = [timer EXCEPT ![t] = next]  BY <1>5 DEF TimerRefused
  <2> HIDE DEF next
  <2> QED  BY <1>5, <2>1, <2>2, TimerMoves DEF TimerRefused, TimerSweeps
<1>6. CASE TimerSkip(t)
  BY <1>1, <1>6, Ages, TimerMoves DEF TimerSkip, TimerSweeps
<1>7. CASE TimerOverride(t)
  <2> DEFINE next == [timer[t] EXCEPT !.at = "sweep", !.override = TRUE]
  <2>1. next \in TimerLocals /\ next.at = "sweep" /\ next.override  BY <1>1 DEF TimerLocals
  <2>2. timer' = [timer EXCEPT ![t] = next]  BY <1>7 DEF TimerOverride
  <2> HIDE DEF next
  <2> QED  BY <1>7, <2>1, <2>2, TimerMoves DEF TimerOverride, TimerSweeps
<1>8. CASE \E e \in Env : TimerReap(t, e)
  BY <1>8 DEF TimerReap, LockIsHeld, WatchSweeps, TimerSweeps
<1>9. CASE TimerHeartbeat(t)
  <2> DEFINE next == [timer[t] EXCEPT !.at = "prune"]
  <2>1. next \in TimerLocals /\ next.at = "prune" /\ next.override = timer[t].override
    BY <1>2
  <2>2. timer' = [timer EXCEPT ![t] = next]  BY <1>9 DEF TimerHeartbeat
  <2> HIDE DEF next
  <2> QED  BY <1>1, <1>9, <2>1, <2>2, TimerMoves DEF TimerHeartbeat, TimerSweeps
<1>10. CASE TimerEnd(t)
  BY <1>1, <1>10, Ages, TimerMoves DEF TimerEnd
<1>11. CASE TimerCrash(t)
  BY <1>1, <1>11, Ages, TimerMoves DEF TimerCrash
<1> QED
  BY <1>3, <1>4, <1>5, <1>6, <1>7, <1>8, <1>9, <1>10, <1>11 DEF TimerStep

LEMMA VerbLemma == ASSUME WatcherInv, VerbStep PROVE WatcherInv'
<1> USE DEF WatcherInv, TypeOK
<1>1. ASSUME NEW w \in Watch, watch[w].at = "none", watch' = [watch EXCEPT ![w].at = "starting"],
             create' \in [Env -> {"new", "spawned", "leased", "ended"}],
             UNCHANGED <<lock, heartbeat, timer>>
      PROVE  WatcherInv'
  <2> DEFINE next == [watch[w] EXCEPT !.at = "starting"]
  <2>1. next \in WatchLocals /\ next.at = "starting"  BY DEF WatchLocals
  <2>2. watch' = [watch EXCEPT ![w] = next]  BY <1>1
  <2> HIDE DEF next
  <2> QED  BY <1>1, <2>1, <2>2, WatchMoves DEF WatchSweeps
<1>2. CASE \E w \in Watch : Spawn(w)
  BY <1>1, <1>2 DEF Spawn
<1>3. CASE \E w \in Watch, e \in Env : CreateSpawn(e, w)
  BY <1>1, <1>3 DEF CreateSpawn
<1>4. CASE \E e \in Env : CreateLease(e) \/ Release(e)
  BY <1>4 DEF CreateLease, Release, LockIsHeld, WatchSweeps, TimerSweeps
<1> QED  BY <1>2, <1>3, <1>4 DEF VerbStep

LEMMA TickLemma == ASSUME WatcherInv, Tick PROVE WatcherInv'
<1> USE DEF WatcherInv, TypeOK
<1>1. heartbeat' \in 0 .. AgeCap /\ UNCHANGED <<create, lock>>
  BY Ages DEF Tick
<1>2. \A w \in Watch : watch'[w] \in WatchLocals /\ watch'[w].at = watch[w].at
  <2> SUFFICES ASSUME NEW w \in Watch
               PROVE  watch'[w] \in WatchLocals /\ watch'[w].at = watch[w].at
    OBVIOUS
  <2>1. Capped(watch[w].lag + 1) \in 0 .. AgeCap  BY Ages DEF WatchLocals
  <2> QED  BY <2>1 DEF Tick, WatchLocals
<1>3. \A t \in Timer : /\ timer'[t] \in TimerLocals /\ timer'[t].at = timer[t].at
                       /\ timer'[t].override = timer[t].override
  <2> SUFFICES ASSUME NEW t \in Timer
               PROVE  /\ timer'[t] \in TimerLocals /\ timer'[t].at = timer[t].at
                      /\ timer'[t].override = timer[t].override
    OBVIOUS
  <2>1. timer[t].at # "idle" => timer[t].lag + 1 \in 0 .. SweepTime
    BY WatcherAssumption DEF Tick, TimerLocals
  <2> QED  BY <2>1 DEF Tick, TimerLocals
<1>4. TypeOK'
  BY <1>1, <1>2, <1>3 DEF Tick
<1>5. LockIsHeld'
  BY <1>1, <1>2, <1>3 DEF LockIsHeld, WatchSweeps, TimerSweeps
<1> QED  BY <1>4, <1>5

-----------------------------------------------------------------------------

\* The invariant holds of every behaviour.
THEOREM WatcherInvariant == Spec => []WatcherInv
<1>1. WatcherInv /\ [Next]_vars => WatcherInv'
  <2>1. WatcherInv /\ UNCHANGED vars => WatcherInv'
    BY DEF vars, WatcherInv, TypeOK, LockIsHeld, WatchSweeps, TimerSweeps
  <2> QED  BY <2>1, VerbLemma, TickLemma, WatchLemma, TimerLemma DEF Next
<1> QED  BY <1>1, WatcherInit, PTL DEF Spec

\* The types of all variables.
THEOREM WatcherTypes == Spec => []TypeOK
<1>1. WatcherInv => TypeOK  BY DEF WatcherInv
<1> QED  BY <1>1, WatcherInvariant, PTL

\* Two processes sweep at once only if one of them overrode a stale heartbeat,
\* and the lock is that of a living sweeper.
THEOREM OneSweeper == Spec => []SweepsAlone
<1>1. WatcherInv => SweepsAlone
  BY WatcherAssumption DEF WatcherInv, LockIsHeld, SweepsAlone
<1> QED  BY <1>1, WatcherInvariant, PTL

=============================================================================
