------------------------------ MODULE Watcher -------------------------------
(***************************************************************************)
(* Who sweeps when: the watchers that verbs spawn (watch.rs), the one-shot *)
(* sweeps of the systemd timer (sweep.rs, run_gated), the flock they share *)
(* and the heartbeat by which a one-shot sweep judges a watcher.  What a   *)
(* sweep does to the envs is in Lifecycle; here it takes them off Active.  *)
(*                                                                         *)
(* Time is kept as ages, in ticks, capped where the code no longer tells   *)
(* them apart, so that a behaviour may last for ever.                      *)
(***************************************************************************)
EXTENDS Integers

CONSTANTS
    Env,            \* the envs that creates will lease
    Watch,          \* watcher processes; an ended one may be spawned again
    Timer,          \* one-shot sweeps
    Threshold,      \* 3 * cadence.fast
    SweepTime,      \* systemd kills a one-shot sweep that lasts longer
    Faults          \* "watch", "timer": those may die; "error": ticks may fail

ASSUME WatcherAssumption ==
    /\ Threshold \in Nat /\ SweepTime \in Nat
    /\ Watch \cap Timer = {} /\ "free" \notin Watch \cup Timer
    /\ Faults \subseteq {"watch", "timer", "error"}

VARIABLES
    create,     \* per env: "new", "spawned", "leased" (Active) or "ended"
    lock,       \* the holder of the flock, or "free"
    heartbeat,  \* the age of last_sweep_at; AgeCap also for none
    watch,      \* watcher processes: program counter, age of the clock reading
    timer       \* one-shot sweeps: the same, and whether without the lock

vars == <<create, lock, heartbeat, watch, timer>>

AgeCap == Threshold + SweepTime + 1
Capped(age) == IF age < AgeCap THEN age ELSE AgeCap

Active == {e \in Env : create[e] = "leased"}

NoWatch == [at |-> "none", lag |-> 0]
NoTimer == [at |-> "idle", lag |-> 0, override |-> FALSE]

Init ==
    /\ create = [e \in Env |-> "new"]
    /\ lock = "free"
    /\ heartbeat = AgeCap
    /\ watch = [w \in Watch |-> NoWatch]
    /\ timer = [t \in Timer |-> NoTimer]

(***************************************************************************)
(* The verbs                                                               *)
(***************************************************************************)

\* spawn_watcher, by any verb: best-effort, and never waited for.
Spawn(w) ==
    /\ watch[w].at = "none"
    /\ watch' = [watch EXCEPT ![w].at = "starting"]
    /\ UNCHANGED <<create, lock, heartbeat, timer>>

\* create spawns a watcher first, and leases its row later.
CreateSpawn(e, w) ==
    /\ create[e] = "new" /\ watch[w].at = "none"
    /\ create' = [create EXCEPT ![e] = "spawned"]
    /\ watch' = [watch EXCEPT ![w].at = "starting"]
    /\ UNCHANGED <<lock, heartbeat, timer>>

CreateLease(e) ==
    /\ create[e] = "spawned"
    /\ create' = [create EXCEPT ![e] = "leased"]
    /\ UNCHANGED <<lock, heartbeat, watch, timer>>

\* The env leaves Active by a destroy or a rollback.
Release(e) ==
    /\ create[e] = "leased"
    /\ create' = [create EXCEPT ![e] = "ended"]
    /\ UNCHANGED <<lock, heartbeat, watch, timer>>

(***************************************************************************)
(* A watcher                                                               *)
(***************************************************************************)

WatchLock(w) ==
    /\ watch[w].at = "starting"
    /\ lock = "free"
    /\ lock' = w
    /\ watch' = [watch EXCEPT ![w].at = "loop"]
    /\ UNCHANGED <<create, heartbeat, timer>>

WatchRefused(w) ==
    /\ watch[w].at = "starting"
    /\ lock # "free"
    /\ watch' = [watch EXCEPT ![w] = NoWatch]
    /\ UNCHANGED <<create, lock, heartbeat, timer>>

\* tick: read the clock and sweep.
TickBegin(w) ==
    /\ watch[w].at = "loop"
    /\ watch' = [watch EXCEPT ![w].at = "sweep", ![w].lag = 0]
    /\ UNCHANGED <<create, lock, heartbeat, timer>>

WatchReap(w, e) ==
    /\ watch[w].at = "sweep"
    /\ create[e] = "leased"
    /\ create' = [create EXCEPT ![e] = "ended"]
    /\ UNCHANGED <<lock, heartbeat, watch, timer>>

\* The sweep ends, a lost quorum included, by writing the heartbeat.
TickEnd(w) ==
    /\ watch[w].at = "sweep"
    /\ heartbeat' = watch[w].lag
    /\ watch' = [watch EXCEPT ![w].at = "count", ![w].lag = 0]
    /\ UNCHANGED <<create, lock, timer>>

\* A transient error: no heartbeat, the loop goes on.
TickError(w) ==
    /\ "error" \in Faults
    /\ watch[w].at \in {"sweep", "count"}
    /\ watch' = [watch EXCEPT ![w].at = "loop", ![w].lag = 0]
    /\ UNCHANGED <<create, lock, heartbeat, timer>>

\* active_env_count after the sweep.
TickCount(w) ==
    /\ watch[w].at = "count"
    /\ watch' = [watch EXCEPT ![w].at = IF Active = {} THEN "exit" ELSE "loop"]
    /\ UNCHANGED <<create, lock, heartbeat, timer>>

\* The lock goes with the process.
WatchExit(w) ==
    /\ watch[w].at = "exit"
    /\ lock' = "free"
    /\ watch' = [watch EXCEPT ![w] = NoWatch]
    /\ UNCHANGED <<create, heartbeat, timer>>

WatchCrash(w) ==
    /\ "watch" \in Faults
    /\ watch[w].at # "none"
    /\ lock' = IF lock = w THEN "free" ELSE lock
    /\ watch' = [watch EXCEPT ![w] = NoWatch]
    /\ UNCHANGED <<create, heartbeat, timer>>

(***************************************************************************)
(* A one-shot sweep                                                        *)
(***************************************************************************)

\* It reads the clock, then tries the lock.
TimerBegin(t) ==
    /\ timer[t].at = "idle"
    /\ timer' = [timer EXCEPT ![t].at = "starting"]
    /\ UNCHANGED <<create, lock, heartbeat, watch>>

TimerLock(t) ==
    /\ timer[t].at = "starting"
    /\ lock = "free"
    /\ lock' = t
    /\ timer' = [timer EXCEPT ![t].at = "sweep"]
    /\ UNCHANGED <<create, heartbeat, watch>>

TimerRefused(t) ==
    /\ timer[t].at = "starting"
    /\ lock # "free"
    /\ timer' = [timer EXCEPT ![t].at = "judge"]
    /\ UNCHANGED <<create, lock, heartbeat, watch>>

\* Mutant: a lock that is held is proof of life.
FreshIfHeld(t) == lock # "free"

\* read_heartbeat: a fresh one says that the holder is reaping.
Fresh(t) == heartbeat - timer[t].lag <= Threshold

TimerSkip(t) ==
    /\ timer[t].at = "judge"
    /\ Fresh(t)
    /\ timer' = [timer EXCEPT ![t] = NoTimer]
    /\ UNCHANGED <<create, lock, heartbeat, watch>>

TimerOverride(t) ==
    /\ timer[t].at = "judge"
    /\ ~Fresh(t)
    /\ timer' = [timer EXCEPT ![t].at = "sweep", ![t].override = TRUE]
    /\ UNCHANGED <<create, lock, heartbeat, watch>>

TimerReap(t, e) ==
    /\ timer[t].at = "sweep"
    /\ create[e] = "leased"
    /\ create' = [create EXCEPT ![e] = "ended"]
    /\ UNCHANGED <<lock, heartbeat, watch, timer>>

TimerHeartbeat(t) ==
    /\ timer[t].at = "sweep"
    /\ heartbeat' = timer[t].lag
    /\ timer' = [timer EXCEPT ![t].at = "prune"]
    /\ UNCHANGED <<create, lock, watch>>

\* Mutant: a sweep without the lock frees it too.
TimerEndUnlocks(t) ==
    /\ timer[t].at = "prune"
    /\ lock' = "free"
    /\ timer' = [timer EXCEPT ![t] = NoTimer]
    /\ UNCHANGED <<create, heartbeat, watch>>

\* It prunes and ends.
TimerEnd(t) ==
    /\ timer[t].at = "prune"
    /\ lock' = IF lock = t THEN "free" ELSE lock
    /\ timer' = [timer EXCEPT ![t] = NoTimer]
    /\ UNCHANGED <<create, heartbeat, watch>>

\* An error, or systemd kills it.
TimerCrash(t) ==
    /\ "timer" \in Faults
    /\ timer[t].at # "idle"
    /\ lock' = IF lock = t THEN "free" ELSE lock
    /\ timer' = [timer EXCEPT ![t] = NoTimer]
    /\ UNCHANGED <<create, heartbeat, watch>>

-----------------------------------------------------------------------------

Tick ==
    /\ \A t \in Timer : timer[t].at # "idle" => timer[t].lag < SweepTime
    /\ heartbeat' = Capped(heartbeat + 1)
    /\ watch' = [w \in Watch |->
          IF watch[w].at = "sweep" THEN [watch[w] EXCEPT !.lag = Capped(@ + 1)]
                                   ELSE watch[w]]
    /\ timer' = [t \in Timer |->
          IF timer[t].at = "idle" THEN timer[t] ELSE [timer[t] EXCEPT !.lag = @ + 1]]
    /\ UNCHANGED <<create, lock>>

WatchStep(w) ==
    \/ WatchLock(w) \/ WatchRefused(w) \/ TickBegin(w)
    \/ \E e \in Env : WatchReap(w, e)
    \/ TickEnd(w) \/ TickError(w) \/ TickCount(w) \/ WatchExit(w) \/ WatchCrash(w)

TimerStep(t) ==
    \/ TimerBegin(t) \/ TimerLock(t) \/ TimerRefused(t) \/ TimerSkip(t) \/ TimerOverride(t)
    \/ \E e \in Env : TimerReap(t, e)
    \/ TimerHeartbeat(t) \/ TimerEnd(t)

VerbStep ==
    \/ \E w \in Watch : Spawn(w) \/ \E e \in Env : CreateSpawn(e, w)
    \/ \E e \in Env : CreateLease(e) \/ Release(e)

Next ==
    \/ VerbStep \/ Tick
    \/ \E w \in Watch : WatchStep(w)
    \/ \E t \in Timer : TimerStep(t) \/ TimerCrash(t)

Spec == Init /\ [][Next]_vars

(***************************************************************************)
(* Properties                                                              *)
(***************************************************************************)

WatchLocals == [at : {"none", "starting", "loop", "sweep", "count", "exit"}, lag : 0 .. AgeCap]
TimerLocals == [at : {"idle", "starting", "judge", "sweep", "prune"}, lag : 0 .. SweepTime,
                override : BOOLEAN]

\* The types of all variables.
TypeOK ==
    /\ create \in [Env -> {"new", "spawned", "leased", "ended"}]
    /\ lock \in Watch \cup Timer \cup {"free"}
    /\ heartbeat \in 0 .. AgeCap
    /\ watch \in [Watch -> WatchLocals]
    /\ timer \in [Timer -> TimerLocals]

WatchSweeps(w) == watch[w].at \in {"loop", "sweep", "count", "exit"}
TimerSweeps(t) == timer[t].at \in {"sweep", "prune"}

\* Two processes sweep at the same time only if one of them is a one-shot that
\* found the heartbeat stale: whatever dies, a lock is neither held by a dead
\* process nor taken from a living one (watch.rs, "at-most-one").
SweepsAlone ==
    /\ \A v, w \in Watch : WatchSweeps(v) /\ WatchSweeps(w) => v = w
    /\ \A w \in Watch, t \in Timer : WatchSweeps(w) /\ TimerSweeps(t) => timer[t].override
    /\ \A t, u \in Timer :
          t # u /\ TimerSweeps(t) /\ TimerSweeps(u) => timer[t].override \/ timer[u].override
    /\ lock # "free" =>
          (lock \in Watch /\ WatchSweeps(lock)) \/ (lock \in Timer /\ TimerSweeps(lock))

(***************************************************************************)
(* Liveness.  The timer starts one-shot sweeps for ever, and those go on,  *)
(* not all of them killed before they end (SF); time passes.  Nothing is   *)
(* assumed of watchers: they may hang with the lock in their hands.        *)
(***************************************************************************)
FairSpec ==
    /\ Spec
    /\ WF_vars(Tick)
    /\ \A t \in Timer :
          /\ WF_vars(TimerStep(t))
          /\ SF_vars(TimerLock(t) \/ TimerRefused(t))
          /\ SF_vars(TimerOverride(t))
          /\ SF_vars(TimerHeartbeat(t))

SweepCompleted ==
    \/ \E w \in Watch : watch[w].at = "sweep" /\ watch'[w].at = "count"
    \/ \E t \in Timer : timer[t].at = "sweep" /\ timer'[t].at = "prune"

\* The backstop: sweeps are completed for ever, even if every watcher hangs
\* while it holds the lock (sweep.rs, "the backstop must run").
BackstopRuns == []<><<SweepCompleted>>_vars

=============================================================================
