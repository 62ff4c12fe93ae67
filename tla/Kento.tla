-------------------------------- MODULE Kento --------------------------------
(***************************************************************************)
(* The harness that runs kento (RealKento in core/src/kento.rs): every     *)
(* call is a child process whose output goes through a pipe.  The caller   *)
(* waits for the child to exit, kills it when OP_TIMEOUT has passed, then  *)
(* reads the pipe to its end and judges the exit status.                   *)
(*                                                                         *)
(* kento itself is outside the repository.  It is modelled as the code     *)
(* uses it: it does what it is asked, at any pace or never, prints, and    *)
(* exits 0 only when both are done; a process it starts may hold the       *)
(* caller's pipe, go on after kento is gone, and do the work then.  Killed, *)
(* it dies at any later time or never.  Elements of a list that are not    *)
(* objects, which the code skips, it does not print.                       *)
(*                                                                         *)
(* One unit of output is one instance of a list.  Time is not measured:    *)
(* any call may turn out to take longer than OP_TIMEOUT.                   *)
(***************************************************************************)
EXTENDS Naturals, FiniteSets

CONSTANTS
    Callers,    \* processes that call kento: the helper, the sweeper
    Guests,     \* the instances, by name
    Asks,       \* per caller, the calls it makes
    Capacity    \* units a pipe holds before a writer waits for the reader

ASSUME CapacityAssumption == Capacity \in Nat \ {0}

None == "none"
Ops == {"list", "provision", "teardown"}

Asked == {[op |-> "list", arg |-> None]} \cup [op : {"provision", "teardown"}, arg : Guests]

ASSUME AsksAssumption == Asks \in [Callers -> SUBSET Asked]

Runs == {"list", "create", "inspect", "destroy"}

VARIABLES
    live,   \* the instances kento has
    call,   \* per caller: its open call, what it has read, its answer
    kid,    \* per caller: the child of that call
    late    \* work of children and their heirs that nobody waits for

kentoVars == <<live, call, kid, late>>

NoCall == [at |-> "idle", op |-> None, arg |-> None, got |-> {}, ans |-> None]
NoKid == [at |-> "gone", run |-> None, done |-> FALSE, seen |-> {}, todo |-> {},
          pipe |-> {}, code |-> None, heir |-> None]

KentoInit ==
    /\ live \in SUBSET Guests
    /\ call = [c \in Callers |-> NoCall]
    /\ kid = [c \in Callers |-> NoKid]
    /\ late = {}

\* list_json_argv, provision_argv, teardown_argv: the command a call starts with.
FirstRun(op) ==
    CASE op = "list" -> "list" [] op = "provision" -> "create" [] op = "teardown" -> "destroy"

Spawned(run) == [NoKid EXCEPT !.at = "up", !.run = run]

Answer(c, ans) == [call EXCEPT ![c] = [@ EXCEPT !.at = "answered", !.ans = ans]]

-----------------------------------------------------------------------------
(* The caller *)

\* run: the child is spawned, or that fails.
Begin(c, op, g) ==
    /\ call[c].at = "idle"
    /\ LET opened == [NoCall EXCEPT !.at = "wait", !.op = op, !.arg = g] IN
       \/ /\ call' = [call EXCEPT ![c] = opened]
          /\ kid' = [kid EXCEPT ![c] = Spawned(FirstRun(op))]
       \/ /\ call' = [call EXCEPT ![c] = [opened EXCEPT !.at = "answered", !.ans = "err"]]
          /\ UNCHANGED kid
    /\ UNCHANGED <<live, late>>

\* wait_timeout: the child has exited.
Reap(c) ==
    /\ call[c].at = "wait" /\ kid[c].at = "exited"
    /\ call' = [call EXCEPT ![c].at = "collect"]
    /\ UNCHANGED <<live, kid, late>>

\* The child runs, killed or not: it may be in the middle of a system call.
Lives(c) == kid[c].at \in {"up", "killed"}

\* What may still happen once nobody waits: kento's work, if it is not done
\* and the child or an heir is there to do it.
Loose(c) ==
    IF /\ kid[c].run \in {"create", "destroy"} /\ ~kid[c].done
       /\ Lives(c) \/ kid[c].heir # None
    THEN {[run |-> kid[c].run, arg |-> call[c].arg]} ELSE {}

\* Mutant: the child is waited for, but was not killed.
ExpireUnkilled(c) ==
    /\ call[c].at = "wait" /\ kid[c].at = "up"
    /\ call' = [call EXCEPT ![c].at = "expired"]
    /\ UNCHANGED <<live, kid, late>>

\* wait_timeout: OP_TIMEOUT has passed.  The child is killed, not its heirs, ...
Expire(c) ==
    /\ call[c].at = "wait" /\ kid[c].at = "up"
    /\ call' = [call EXCEPT ![c].at = "expired"]
    /\ kid' = [kid EXCEPT ![c].at = "killed"]
    /\ UNCHANGED <<live, late>>

\* ... and waited for, with no deadline.  What it printed is dropped.
Bury(c) ==
    /\ call[c].at = "expired" /\ ~Lives(c)
    /\ call' = Answer(c, "err")
    /\ kid' = [kid EXCEPT ![c] = NoKid]
    /\ late' = late \cup Loose(c)
    /\ UNCHANGED live

\* wait_timeout or wait_with_output itself fails: the child is left alone.
WaitFails(c) ==
    /\ call[c].at \in {"wait", "collect"}
    /\ call' = Answer(c, "err")
    /\ kid' = [kid EXCEPT ![c] = NoKid]
    /\ late' = late \cup Loose(c)
    /\ UNCHANGED live

\* wait_with_output reads what is there ...
Drain(c) ==
    /\ call[c].at = "collect" /\ kid[c].pipe # {}
    /\ call' = [call EXCEPT ![c].got = @ \cup kid[c].pipe]
    /\ kid' = [kid EXCEPT ![c].pipe = {}]
    /\ UNCHANGED <<live, late>>

\* ... until nobody is left that could write.
AtEnd(c) == call[c].at = "collect" /\ kid[c].pipe = {} /\ kid[c].heir # "holding"

\* Mutants: a status other than a quorum loss is not looked at; a provision
\* goes on to inspect whatever create said.
VerdictLenient(code) == IF code = "quorum" THEN "quorum" ELSE "ok"

\* Mutant of the type: the status itself.
VerdictRaw(code) == code

\* The status, then QUORUM_MARKERS in what a failed child printed.
Verdict(code) ==
    CASE code = "ok" -> "ok" [] code = "quorum" -> "quorum" [] OTHER -> "err"

GoesOnAlways(c) == kid[c].run = "create"

\* provision runs inspect once create went well.
GoesOn(c) == kid[c].run = "create" /\ Verdict(kid[c].code) = "ok"

Inspect(c) ==
    /\ AtEnd(c) /\ GoesOn(c)
    /\ \/ /\ call' = [call EXCEPT ![c].at = "wait", ![c].got = {}]
          /\ kid' = [kid EXCEPT ![c] = Spawned("inspect")]
       \/ /\ call' = Answer(c, "err")
          /\ kid' = [kid EXCEPT ![c] = NoKid]
    /\ UNCHANGED <<live, late>>

\* list_instances, teardown, provision: the answer to the caller.  A list or an
\* inspect may have printed what does not parse, and exited 0.
Finish(c) ==
    LET verdict == Verdict(kid[c].code) IN
    /\ AtEnd(c) /\ ~GoesOn(c)
    /\ \/ /\ call' = Answer(c, verdict)
          /\ kid' = IF verdict = "ok" THEN kid ELSE [kid EXCEPT ![c] = NoKid]
       \/ /\ verdict = "ok" /\ kid[c].run \in {"list", "inspect"}
          /\ call' = Answer(c, "err")
          /\ kid' = [kid EXCEPT ![c] = NoKid]
    /\ late' = late \cup Loose(c)
    /\ UNCHANGED live

\* The caller takes the answer.
Return(c) ==
    /\ call[c].at = "answered"
    /\ call' = [call EXCEPT ![c] = NoCall]
    /\ kid' = [kid EXCEPT ![c] = NoKid]
    /\ UNCHANGED <<live, late>>

\* The caller dies.  Its child may go on.
Crash(c) ==
    /\ call[c].at # "idle"
    /\ call' = [call EXCEPT ![c] = NoCall]
    /\ kid' = [kid EXCEPT ![c] = NoKid]
    /\ late' = late \cup Loose(c)
    /\ UNCHANGED live

CallerStep(c) ==
    \/ Reap(c) \/ Expire(c) \/ Bury(c) \/ Drain(c) \/ Inspect(c) \/ Finish(c)

-----------------------------------------------------------------------------
(* kento and its heirs *)

\* kento creates what is not there and destroys what is.
Possible(run, g) == IF run = "create" THEN g \notin live ELSE g \in live
Effect(run, g) == IF run = "create" THEN live \cup {g} ELSE live \ {g}

\* The child, or an heir, does the work.
KidActs(c) ==
    /\ Lives(c) \/ kid[c].heir # None
    /\ kid[c].run \in {"create", "destroy"} /\ ~kid[c].done
    /\ Possible(kid[c].run, call[c].arg)
    /\ live' = Effect(kid[c].run, call[c].arg)
    /\ kid' = [kid EXCEPT ![c].done = TRUE]
    /\ UNCHANGED <<call, late>>

\* list looks at every instance, inspect at one that must be there.
KidLooks(c) ==
    LET found == IF kid[c].run = "list" THEN live ELSE live \cap {call[c].arg} IN
    /\ kid[c].at = "up" /\ kid[c].run \in {"list", "inspect"} /\ ~kid[c].done
    /\ kid[c].run = "inspect" => found # {}
    /\ kid' = [kid EXCEPT ![c] = [@ EXCEPT !.done = TRUE, !.seen = found, !.todo = found]]
    /\ UNCHANGED <<live, call, late>>

\* It prints a unit, for which the pipe must have room.
KidPrints(c) ==
    /\ kid[c].at = "up" /\ Cardinality(kid[c].pipe) < Capacity
    /\ \E u \in kid[c].todo :
          kid' = [kid EXCEPT ![c].todo = @ \ {u}, ![c].pipe = @ \cup {u}]
    /\ UNCHANGED <<live, call, late>>

\* It starts a process that inherits the pipe, or closes it.
KidForks(c) ==
    /\ kid[c].at = "up" /\ kid[c].heir = None
    /\ \E heir \in {"holding", "detached"} : kid' = [kid EXCEPT ![c].heir = heir]
    /\ UNCHANGED <<live, call, late>>

HeirEnds(c) ==
    /\ kid[c].heir # None
    /\ kid' = [kid EXCEPT ![c].heir = None]
    /\ UNCHANGED <<live, call, late>>

KidExits(c) ==
    /\ kid[c].at = "up"
    /\ \E code \in {"ok", "failed", "quorum"} :
          /\ code = "ok" => kid[c].done /\ kid[c].todo = {}
          /\ kid' = [kid EXCEPT ![c].at = "exited", ![c].code = code]
    /\ UNCHANGED <<live, call, late>>

KidDies(c) ==
    /\ kid[c].at = "killed"
    /\ kid' = [kid EXCEPT ![c].at = "dead"]
    /\ UNCHANGED <<live, call, late>>

\* Work that nobody waits for is done, or never will be.
LateWork ==
    \E w \in late :
       /\ late' = late \ {w}
       /\ \/ Possible(w.run, w.arg) /\ live' = Effect(w.run, w.arg)
          \/ UNCHANGED live
       /\ UNCHANGED <<call, kid>>

KidStep(c) ==
    \/ KidActs(c) \/ KidLooks(c) \/ KidPrints(c) \/ KidForks(c) \/ HeirEnds(c)
    \/ KidExits(c) \/ KidDies(c)

-----------------------------------------------------------------------------

KentoNext ==
    \/ \E c \in Callers :
          \/ \E a \in Asks[c] : Begin(c, a.op, a.arg)
          \/ CallerStep(c) \/ WaitFails(c) \/ Return(c) \/ Crash(c) \/ KidStep(c)
    \/ LateWork

\* The deadline passes, and the caller goes on whenever it can.  Nothing is
\* assumed of kento, not even that it dies when it is killed.
KentoFairness == \A c \in Callers : WF_kentoVars(CallerStep(c)) /\ WF_kentoVars(Return(c))

KentoSpec == KentoInit /\ [][KentoNext]_kentoVars

(***************************************************************************)
(* Properties                                                              *)
(***************************************************************************)

CallLocals == [at : {"idle", "wait", "expired", "collect", "answered"},
               op : Ops \cup {None}, arg : Guests \cup {None},
               got : SUBSET Guests, ans : {None, "ok", "err", "quorum"}]
KidLocals == [at : {"gone", "up", "killed", "dead", "exited"}, run : Runs \cup {None},
              done : BOOLEAN, seen : SUBSET Guests, todo : SUBSET Guests,
              pipe : SUBSET Guests, code : {None, "ok", "failed", "quorum"},
              heir : {None, "holding", "detached"}]
Work == [run : {"create", "destroy"}, arg : Guests]

\* The types of the four variables.
KentoTypeOK ==
    /\ live \subseteq Guests
    /\ call \in [Callers -> CallLocals]
    /\ kid \in [Callers -> KidLocals]
    /\ late \subseteq Work

\* A call answered "ok" is true: a list holds exactly the instances kento
\* found, however the pipe cut it up, and never the part that was printed
\* before a failure; a teardown and a provision were done.
OkIsTrue ==
    \A c \in Callers : call[c].ans = "ok" =>
        /\ kid[c].done
        /\ call[c].op = "list" => call[c].got = kid[c].seen
        /\ call[c].op = "provision" => kid[c].run = "inspect"

\* Every call is answered, whatever kento does, but for the two waits that have
\* no deadline: for an heir of a child that has exited, which keeps the pipe
\* open, and for a child that was killed and does not die.
CallReturns ==
    \A c \in Callers :
        \/ []<>(call[c].at \in {"idle", "answered"})
        \/ <>[](call[c].at = "collect" /\ kid[c].heir = "holding")
        \/ <>[](call[c].at = "expired" /\ kid[c].at = "killed")

\* The same process never waits for a child that waits for it to read.
NeverBothWait ==
    \A c \in Callers :
        ~ /\ call[c].at = "wait" /\ kid[c].at = "up"
          /\ kid[c].todo # {} /\ Cardinality(kid[c].pipe) = Capacity

\* The harness implements the bridge: "ok" follows the effect, an error
\* says nothing about it, and only given-up calls act later.
Stage(m, k) ==
    CASE m.at \in {"idle", "answered"} -> m.at
      [] m.at \in {"wait", "expired", "collect"} -> IF k.done \/ k.run = "inspect" THEN "done" ELSE "open"

\* The call of the bridge that a call and its child are.
Pending(m, k) ==
    LET ended == m.ans \in {"err", "quorum"} IN
    [at   |-> Stage(m, k),
     op   |-> IF ended THEN None ELSE m.op,
     arg  |-> IF ended THEN None ELSE m.arg,
     seen |-> IF m.op = "list" /\ ~ended THEN k.seen ELSE {},
     ans  |-> m.ans]

BridgePend == [c \in Callers |-> Pending(call[c], kid[c])]

\* What a process of kento still does, as the bridge calls it.
Outlasting(w) ==
    [op |-> IF w.run = "create" THEN "provision" ELSE "teardown", arg |-> w.arg]

BridgeLate == {Outlasting(w) : w \in late}

BridgeHere == INSTANCE Bridge WITH pend <- BridgePend, late <- BridgeLate
ImplementsBridge == BridgeHere!Spec

=============================================================================
