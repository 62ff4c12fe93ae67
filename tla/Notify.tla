------------------------------- MODULE Notify -------------------------------
(***************************************************************************)
(* Notifications of one env (core/src/notify.rs): the rows of notify_state *)
(* under the env's keys and the sweeper's, which sweeps route events       *)
(* through (route: get, decide, emit, put) and the ack verb mutes (get and *)
(* put, one key after the other).  Neither holds a transaction over its    *)
(* two statements, so each statement is an action, and so is the push of an *)
(* emission to the operator's hook, which may take as long as the hook does *)
(* or PUSH_TIMEOUT, and whose errors are swallowed.                        *)
(*                                                                         *)
(* Time is kept as ages, in ticks, capped where the code no longer tells   *)
(* them apart, so that a behaviour may last for ever.                      *)
(***************************************************************************)
EXTENDS Integers

CONSTANTS
    Sweeper,        \* reaper processes
    Acker,          \* processes running the ack verb
    Reescalate,     \* notify.reescalate
    SweepTime,      \* a sweep that lasts longer is killed
    Found,          \* the kinds of event a sweep may find reason to route
    Faults          \* "crash": a sweep may die; "get", "put": its statements may
                    \* fail; "prune": another process may prune the env meanwhile

\* notify_state keys, by the event kind: "{guid}:anomaly", ..., "sweeper".
Key == {"anomaly", "overdue", "grace", "vanished", "reaped", "hostkey", "sweeper"}
Escalating == {"anomaly", "overdue"}

ASSUME NotifyAssumption ==
    /\ Reescalate \in Nat \ {0} /\ SweepTime \in Nat
    /\ Found \subseteq Key
    /\ Faults \subseteq {"crash", "get", "put", "prune"}

\* The ladder: info 1, notice 2, warning 3, crit 4; 0 for none.
Severity == 0 .. 4
Crit == 4
Base(key) == CASE key = "anomaly" -> 3 [] key = "sweeper" -> Crit [] OTHER -> 2

\* Mutants: the ladder has no top, or stops short of it.
ClimbForever(severity) == severity + 1
ClimbToWarning(severity) == IF severity >= 3 THEN severity ELSE severity + 1

Climb(severity) == IF severity = Crit THEN Crit ELSE severity + 1

VARIABLES
    store,      \* notify_state: per key the row, with its last_emitted_at's age
    problem,    \* the kinds of event that sweeps find reason to route
    sweep, ack, \* the processes
    said        \* history, per key: the last emission and whether it is
                \* recorded; whether the key was acked, and whether it was with
                \* no emission being recorded and no sweep failed to read it
                \* since; how severe the push was that backs the record

vars == <<store, problem, sweep, ack, said>>

AgeCap == Reescalate + SweepTime
Capped(age) == IF age < AgeCap THEN age ELSE AgeCap
Older(record) == [record EXCEPT !.age = Capped(@ + 1)]

State == [set : BOOLEAN, severity : Severity, age : 0 .. AgeCap, acked : BOOLEAN]
NoState == [set |-> FALSE, severity |-> 0, age |-> 0, acked |-> FALSE]

\* Mutant: the row is written as it was read.
AckedStateUnset == [set |-> TRUE, severity |-> 0, age |-> 0, acked |-> FALSE]

\* Of an acked row, decide reads nothing else.
AckedState == [set |-> TRUE, severity |-> 0, age |-> 0, acked |-> TRUE]

Unsaid == [severity |-> 0, age |-> 0, recorded |-> FALSE, acked |-> FALSE,
           muted |-> FALSE, backed |-> 0]

\* pushed is history: how severe the push was of the emission in hand.
IdleSweep == [at |-> "idle", lag |-> 0, todo |-> {}, key |-> "sweeper",
              severity |-> 0, blind |-> FALSE, pushed |-> 0]
IdleAck == [at |-> "idle", key |-> "anomaly"]

Init ==
    /\ store = [k \in Key |-> NoState]
    /\ problem = {}
    /\ sweep = [s \in Sweeper |-> IdleSweep]
    /\ ack = [a \in Acker |-> IdleAck]
    /\ said = [k \in Key |-> Unsaid]

(***************************************************************************)
(* A sweep                                                                 *)
(***************************************************************************)

\* It reads its clock; lag is the time since.
SweepBegin(s) ==
    /\ sweep[s].at = "idle"
    /\ sweep' = [sweep EXCEPT ![s] = [IdleSweep EXCEPT !.at = "scan", !.todo = problem]]
    /\ UNCHANGED <<store, problem, ack, said>>

\* Mutant: no backoff.
SpeaksAlways(key, prior, lag) ==
    \/ ~prior.set
    \/ ~prior.acked /\ key \in Escalating

\* decide: whether the event is emitted, and how severe.
Speaks(key, prior, lag) ==
    \/ ~prior.set
    \/ /\ ~prior.acked
       /\ key \in Escalating
       /\ prior.age - lag >= Reescalate

\* Mutant: the ladder starts anew at its top.
SpokenAgain(key, prior) ==
    IF prior.set /\ prior.severity # Crit THEN Climb(prior.severity) ELSE Base(key)

Spoken(key, prior) == IF prior.set THEN Climb(prior.severity) ELSE Base(key)

\* get_notify_state and decide: nothing to say.
RouteSilent(s, key) ==
    /\ sweep[s].at = "scan" /\ key \in sweep[s].todo
    /\ ~Speaks(key, store[key], sweep[s].lag)
    /\ sweep' = [sweep EXCEPT ![s].todo = @ \ {key}]
    /\ UNCHANGED <<store, problem, ack, said>>

\* get_notify_state, decide, and the log line of emit.
RouteEmit(s, key) ==
    LET severity == Spoken(key, store[key]) IN
    /\ sweep[s].at = "scan" /\ key \in sweep[s].todo
    /\ Speaks(key, store[key], sweep[s].lag)
    /\ sweep' = [sweep EXCEPT ![s].at = "push", ![s].todo = @ \ {key},
                              ![s].key = key, ![s].severity = severity]
    /\ said' = [said EXCEPT ![key].severity = severity, ![key].age = sweep[s].lag,
                            ![key].recorded = FALSE]
    /\ UNCHANGED <<store, problem, ack>>

\* An error of get_notify_state counts as no state: the event is emitted, and
\* its put replaces what was not read, an ack included.
RouteBlind(s, key) ==
    /\ "get" \in Faults
    /\ sweep[s].at = "scan" /\ key \in sweep[s].todo
    /\ sweep' = [sweep EXCEPT ![s].at = "push", ![s].todo = @ \ {key},
                              ![s].key = key, ![s].severity = Base(key),
                              ![s].blind = TRUE]
    /\ said' = [said EXCEPT ![key].severity = Base(key), ![key].age = sweep[s].lag,
                            ![key].recorded = FALSE, ![key].muted = FALSE]
    /\ UNCHANGED <<store, problem, ack>>

Recording(s) == sweep[s].at \in {"push", "put"}

\* Mutant: only the first sighting is pushed.
RoutePushFirst(s) ==
    /\ sweep[s].at = "push"
    /\ sweep' = [sweep EXCEPT ![s].at = "put", ![s].pushed =
          IF sweep[s].severity = Base(sweep[s].key) THEN sweep[s].severity ELSE 0]
    /\ UNCHANGED <<store, problem, ack, said>>

\* fire_push: the hook is run, waited for, and killed after PUSH_TIMEOUT.
RoutePush(s) ==
    /\ sweep[s].at = "push"
    /\ sweep' = [sweep EXCEPT ![s].at = "put", ![s].pushed = sweep[s].severity]
    /\ UNCHANGED <<store, problem, ack, said>>

Noted(s) == sweep' = [sweep EXCEPT ![s].at = "scan", ![s].key = "sweeper",
                                   ![s].severity = 0, ![s].blind = FALSE,
                                   ![s].pushed = 0]

\* put_notify_state writes every column, dated by the sweep's clock.
RoutePut(s) ==
    /\ sweep[s].at = "put"
    /\ store' = [store EXCEPT ![sweep[s].key] =
          [set |-> TRUE, severity |-> sweep[s].severity, age |-> sweep[s].lag,
           acked |-> FALSE]]
    /\ Noted(s)
    /\ said' = [said EXCEPT ![sweep[s].key].recorded = TRUE,
                            ![sweep[s].key].backed = sweep[s].pushed]
    /\ UNCHANGED <<problem, ack>>

\* Its error is ignored.
RoutePutFail(s) ==
    /\ "put" \in Faults
    /\ sweep[s].at = "put"
    /\ Noted(s)
    /\ UNCHANGED <<store, problem, ack, said>>

SweepEnd(s) ==
    /\ sweep[s].at = "scan" /\ sweep[s].todo = {}
    /\ sweep' = [sweep EXCEPT ![s] = IdleSweep]
    /\ UNCHANGED <<store, problem, ack, said>>

SweepCrash(s) ==
    /\ "crash" \in Faults
    /\ sweep[s].at # "idle"
    /\ sweep' = [sweep EXCEPT ![s] = IdleSweep]
    /\ UNCHANGED <<store, problem, ack, said>>

(***************************************************************************)
(* The ack verb, of the env's owner: {guid}:anomaly, then {guid}:overdue   *)
(***************************************************************************)

\* get_notify_state.  What it returns decides only columns that are not read
\* from an acked row.
AckGet(a) ==
    /\ ack[a].at \in {"idle", "next"}
    /\ ack' = [ack EXCEPT ![a].at = "put"]
    /\ UNCHANGED <<store, problem, sweep, said>>

AckPut(a) ==
    LET key == ack[a].key IN
    /\ ack[a].at = "put"
    /\ store' = [store EXCEPT ![key] = AckedState]
    /\ said' = [said EXCEPT ![key].acked = TRUE, ![key].backed = 0,
                            ![key].muted = \A s \in Sweeper :
                                ~(Recording(s) /\ sweep[s].key = key)]
    /\ ack' = [ack EXCEPT ![a] =
          IF key = "anomaly" THEN [at |-> "next", key |-> "overdue"] ELSE IdleAck]
    /\ UNCHANGED <<problem, sweep>>

\* A SQLite error or the death of the verb.
AckFail(a) ==
    /\ ack[a].at # "idle"
    /\ ack' = [ack EXCEPT ![a] = IdleAck]
    /\ UNCHANGED <<store, problem, sweep, said>>

(***************************************************************************)
(* The environment                                                         *)
(***************************************************************************)

\* The env comes to give, or no longer gives, a reason for an event.
ProblemChanges(key) ==
    /\ key \in Found
    /\ \/ key \notin problem /\ problem' = problem \cup {key}
       \/ key \in problem /\ problem' = problem \ {key}
    /\ UNCHANGED <<store, sweep, ack, said>>

\* prune_terminal deletes the env's row and with it the rows under its keys.
Prune ==
    /\ "prune" \in Faults
    /\ store' = [k \in Key |-> IF k = "sweeper" THEN store[k] ELSE NoState]
    /\ said' = [k \in Key |-> IF k = "sweeper" THEN said[k] ELSE Unsaid]
    /\ UNCHANGED <<problem, sweep, ack>>

Tick ==
    /\ \A s \in Sweeper : sweep[s].at # "idle" => sweep[s].lag < SweepTime
    /\ store' = [k \in Key |->
          IF store[k].set /\ ~store[k].acked THEN Older(store[k]) ELSE store[k]]
    /\ sweep' = [s \in Sweeper |->
          IF sweep[s].at = "idle" THEN sweep[s] ELSE [sweep[s] EXCEPT !.lag = @ + 1]]
    /\ said' = [k \in Key |-> IF said[k].severity # 0 THEN Older(said[k]) ELSE said[k]]
    /\ UNCHANGED <<problem, ack>>

-----------------------------------------------------------------------------

SweepStep(s) ==
    \/ SweepBegin(s) \/ SweepEnd(s)
    \/ \E key \in Key : RouteSilent(s, key) \/ RouteEmit(s, key)
    \/ RoutePush(s) \/ RoutePut(s)

SweepFault(s) ==
    RoutePutFail(s) \/ SweepCrash(s) \/ \E key \in Key : RouteBlind(s, key)

AckStep(a) == AckGet(a) \/ AckPut(a) \/ AckFail(a)

Outside == Tick \/ Prune \/ \E key \in Key : ProblemChanges(key)

Next ==
    \/ \E s \in Sweeper : SweepStep(s) \/ SweepFault(s)
    \/ \E a \in Acker : AckStep(a)
    \/ Outside

Spec == Init /\ [][Next]_vars

(***************************************************************************)
(* Properties                                                              *)
(***************************************************************************)

SweepLocals == [at : {"idle", "scan", "push", "put"}, lag : 0 .. SweepTime,
                todo : SUBSET Key, key : Key, severity : Severity, blind : BOOLEAN,
                pushed : Severity]
AckLocals == [at : {"idle", "put", "next"}, key : Escalating]
Said == [severity : Severity, age : 0 .. AgeCap, recorded : BOOLEAN,
         acked : BOOLEAN, muted : BOOLEAN, backed : Severity]

\* The types of all variables.
TypeOK ==
    /\ store \in [Key -> State]
    /\ problem \subseteq Found
    /\ sweep \in [Sweeper -> SweepLocals]
    /\ ack \in [Acker -> AckLocals]
    /\ said \in [Key -> Said]

\* Sweep s emits an event under key in this step, having read its state.
Emits(s, key) ==
    sweep[s].at = "scan" /\ sweep'[s].at = "push" /\ sweep'[s].key = key /\ ~sweep'[s].blind

\* An ack given while no sweep is recording an emission under its key is final:
\* nothing is emitted under the key until the env is pruned, however many
\* sweeps and further acks run, fail or crash, as long as no sweep fails to read
\* the ack (decide, "Acked").
AckSilences ==
    [][\A s \in Sweeper, key \in Escalating : Emits(s, key) => ~said[key].muted]_vars

\* Where one reaper runs at a time, two emissions of an escalating event, of
\* which the first was recorded, are Reescalate apart by the reaper's clock, and
\* the second is one rung above the first, whenever acks, resolutions,
\* recurrences, failures and deaths come.
BackoffClimbs ==
    [][\A s \in Sweeper, key \in Escalating :
        Emits(s, key) /\ said[key].recorded /\ said[key].severity # 0 =>
            /\ said[key].age - sweep[s].lag >= Reescalate
            /\ sweep'[s].severity = Climb(said[key].severity)]_vars

\* An emission that is on record, and so keeps later sweeps quiet, had a push of
\* its own, at its severity: a sweep that dies between the log line and the push
\* leaves no record, and no record stands on the push of an earlier emission
\* ("on EVERY escalation", notify.rs:24).
RecordedIsPushed ==
    \A key \in Key :
        store[key].set /\ ~store[key].acked => store[key].severity = said[key].backed

\* And no emission of a sweep that could read the state is milder than the one
\* before, whatever records get lost.
NeverMilder ==
    [][\A s \in Sweeper, key \in Key :
        Emits(s, key) => sweep'[s].severity >= said[key].severity]_vars

(***************************************************************************)
(* Liveness.  Sweeps are started for ever and time passes (WF); a route    *)
(* that is tried for ever does not fail or die every time (SF).            *)
(***************************************************************************)
FairSpec ==
    /\ Spec
    /\ WF_vars(Tick)
    /\ \A s \in Sweeper :
          /\ WF_vars(SweepStep(s))
          /\ SF_vars(RoutePush(s)) /\ SF_vars(RoutePut(s))
          /\ \A key \in Key : SF_vars(RouteEmit(s, key))

\* Its record is not lost to a prune or to a failed read in this step.
Kept(key) ==
    /\ store[key].set => store'[key].set
    /\ \A s \in Sweeper : sweep'[s].blind => sweep[s].blind

\* A problem that stays and that nobody acks reaches crit, once its record is no
\* longer pruned or misread, whatever happened before and however many
\* records fail to be written.
UnackedReachesCrit ==
    \A key \in Escalating :
        <>[](key \in problem /\ ~said[key].acked) /\ <>[][Kept(key)]_vars
        => <>(said[key].severity = Crit)

=============================================================================
