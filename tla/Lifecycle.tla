------------------------------ MODULE Lifecycle ------------------------------
(***************************************************************************)
(* The life of a test environment in seadog: a row of the SQLite table     *)
(* `envs`, the kento instance that carries the row's guid, and the         *)
(* processes that work on both without a common lock:                      *)
(*                                                                         *)
(*   create    a front-end process per guid (verbs/create.rs), with the    *)
(*             root helper it elevates to (provision.rs)                   *)
(*   destroy   front-end processes (verbs/destroy.rs) with their helper    *)
(*             (teardown.rs)                                               *)
(*   extend    front-end processes (verbs/extend.rs)                       *)
(*   sweep     reaper processes running core::reap::sweep (reap.rs): the   *)
(*             watcher's ticks, and the one-shot sweeps, which also prune  *)
(*                                                                         *)
(* One action is one SQLite statement or transaction, or one kento call,   *)
(* with the computation that follows it up to the next one; between two    *)
(* actions any other process may run.  Every process may die between two   *)
(* actions.  Notifications are in Notify, the watcher's lock and heartbeat *)
(* in Watcher; here a sweep may start whenever its process is idle.        *)
(***************************************************************************)
EXTENDS Integers, FiniteSets

CONSTANTS
    Guid,           \* the guids that creates will mint, one per create
    Owner,          \* owner names
    Mode,           \* backend families, a subset of {"lxc", "vm"}
    IpLo, IpHi,     \* the inclusive address pool
    Ttl,            \* the --ttl values a create may ask for
    Extension,      \* the durations an extend may ask for
    Cap,            \* envs an owner may hold per mode
    AgeFloor, DefaultTtl, MaxTtl, Retention, HerdCap,   \* config.rs
    ProvisionTime,  \* ticks from a create's clock reading to its guest
    ListTime,       \* ticks from a sweep's clock reading to its list
    Sweeper,        \* reaper processes
    OneShot,        \* those that are one-shot sweeps
    Destroyer, Extender,
    Altered,        \* what an operator may change on a guest: see Tamper
    MaxTime         \* bound on the clock

NoIp == 0
Pool == IpLo .. IpHi
Name == {"minted", "renamed", "alien"}      \* "alien": not a seadog label
Mac  == {"", "minted", "changed"}           \* "": none recorded or reported

ASSUME ConfigAssumption ==
    /\ IpLo \in Nat \ {0} /\ IpHi \in Nat
    /\ Mode \subseteq {"lxc", "vm"}
    /\ Ttl \subseteq Nat /\ Extension \subseteq Nat
    /\ {AgeFloor, DefaultTtl, MaxTtl, Retention, ProvisionTime, ListTime, MaxTime} \subseteq Nat
    /\ Cap \in Nat /\ HerdCap \in Nat
    /\ OneShot \subseteq Sweeper
    /\ Altered \subseteq {"name", "label", "mac"}

VARIABLES
    clock,      \* the wall clock, shared by all processes of the host
    env,        \* the table envs: status "absent" stands for no row
    live,       \* the instances kento lists, by the guid they carry
    create, destroy, extend, sweep      \* program counters and locals

vars == <<clock, env, live, create, destroy, extend, sweep>>

Status == {"absent", "active", "reaped", "vanished"}

Row == [status : Status, owner : Owner \cup {"none"}, mode : Mode \cup {"none"},
        name : Name, mac : Mac, ip : Pool \cup {NoIp},
        created : Nat, deadline : Nat]

NoRow == [status |-> "absent", owner |-> "none", mode |-> "none",
          name |-> "minted", mac |-> "", ip |-> NoIp,
          created |-> 0, deadline |-> 0]

Instance == [up : BOOLEAN, owner : Owner \cup {"none"}, mode : Mode \cup {"none"},
             name : Name, mac : Mac, ip : Pool \cup {NoIp}]

NoInstance == [up |-> FALSE, owner |-> "none", mode |-> "none",
               name |-> "minted", mac |-> "", ip |-> NoIp]

Present(g)  == env[g].status # "absent"
Active(g)   == env[g].status = "active"

IdleDestroy == [at |-> "idle", guid |-> "none", owner |-> "none",
                active |-> FALSE, name |-> "minted"]
IdleExtend  == [at |-> "idle", guid |-> "none", asked |-> 0, created |-> 0]
IdleSweep   == [at |-> "idle", now |-> 0, seen |-> [g \in Guid |-> NoInstance],
                todo |-> {}, cur |-> "none", row |-> NoRow, reaped |-> 0,
                gone |-> {}]

Init ==
    /\ clock = 0
    /\ env = [g \in Guid |-> NoRow]
    /\ live = [g \in Guid |-> NoInstance]
    /\ create = [g \in Guid |-> [at |-> "new", row |-> NoRow]]
    /\ destroy = [d \in Destroyer |-> IdleDestroy]
    /\ extend = [x \in Extender |-> IdleExtend]
    /\ sweep = [s \in Sweeper |-> IdleSweep]

Lesser(a, b) == IF a <= b THEN a ELSE b
Greater(a, b) == IF a <= b THEN b ELSE a

\* store::set_status: an UPDATE by guid, whatever the status was before.
SetStatus(g, status) ==
    env' = [env EXCEPT ![g].status = IF Present(g) THEN status ELSE @]

(***************************************************************************)
(* create                                                                  *)
(***************************************************************************)

Held(o, m) ==
    {g \in Guid : Active(g) /\ env[g].owner = o /\ env[g].mode = m}

\* The verb reads the clock, clamps the ttl, counts the owner's envs against
\* the cap and mints guid, name and mac.
CreateCheck(g, o, m, ttl) ==
    /\ create[g].at = "new"
    /\ Cardinality(Held(o, m)) < Cap
    /\ create' = [create EXCEPT ![g] =
          [at |-> "checked",
           row |-> [status |-> "active", owner |-> o, mode |-> m,
                    name |-> "minted", mac |-> "minted", ip |-> NoIp,
                    created |-> clock,
                    deadline |-> clock + Lesser(ttl, MaxTtl)]]]
    /\ UNCHANGED <<clock, env, live, destroy, extend, sweep>>

\* Mutant: an address is taken while a guest has it, not while a row holds it.
FreeIpsOfGuests == Pool \ {live[g].ip : g \in {h \in Guid : live[h].up}}

FreeIps == Pool \ {env[g].ip : g \in {h \in Guid : Active(h)}}

\* alloc::allocate: one BEGIN IMMEDIATE transaction picks the lowest address
\* no Active row holds and inserts the row.
CreateAllocate(g) ==
    /\ create[g].at = "checked"
    /\ \E ip \in FreeIps :
          /\ \A i \in FreeIps : ip <= i
          /\ env' = [env EXCEPT ![g] = [create[g].row EXCEPT !.ip = ip]]
          /\ create' = [create EXCEPT ![g].at = "leased", ![g].row.ip = ip]
    /\ UNCHANGED <<clock, live, destroy, extend, sweep>>

\* kento writes a MAC for VMs only.
Realized(row) ==
    [up |-> TRUE, owner |-> row.owner, mode |-> row.mode, name |-> row.name,
     mac |-> IF row.mode = "vm" THEN row.mac ELSE "", ip |-> row.ip]

\* The helper runs `kento create`, then `kento inspect`, each killed after
\* OP_TIMEOUT: it may fail without a guest, or fail having made one, or fail
\* while processes that kento has left behind still work on it.
Provision(g) ==
    /\ create[g].at = "leased"
    /\ \/ /\ live' = [live EXCEPT ![g] = Realized(create[g].row)]
          /\ \E at \in {"built", "failed"} :
                create' = [create EXCEPT ![g].at = at]
       \/ /\ \E at \in {"failed", "killed"} :
                create' = [create EXCEPT ![g].at = at]
          /\ UNCHANGED live
    /\ UNCHANGED <<clock, env, destroy, extend, sweep>>

\* The front-end is over.  What goes on with the guest, if anything does, is
\* kento, or the helper that has outlived the front-end.
Ended(g) ==
    create' = [create EXCEPT ![g] =
        IF @.at \in {"leased", "killed"} THEN [@ EXCEPT !.at = "late"]
                                         ELSE [at |-> "done", row |-> NoRow]]

\* It brings the guest up after all, or comes to nothing.
LateEnd(g) ==
    /\ create[g].at \in {"killed", "late"}
    /\ live' = [live EXCEPT ![g] = Realized(create[g].row)] \/ UNCHANGED live
    /\ create' = [create EXCEPT ![g] =
          IF @.at = "killed" THEN [@ EXCEPT !.at = "failed"]
                             ELSE [at |-> "done", row |-> NoRow]]
    /\ UNCHANGED <<clock, env, destroy, extend, sweep>>

\* Mutant: the whole row is written, not the MAC.
CreateRecordWhole(g) ==
    /\ create[g].at = "built"
    /\ env' = [env EXCEPT ![g] = IF Present(g) THEN create[g].row ELSE @]
    /\ create' = [create EXCEPT ![g] = [at |-> "done", row |-> NoRow]]
    /\ UNCHANGED <<clock, live, destroy, extend, sweep>>

\* set_provision_signals, best-effort.
CreateRecord(g) ==
    /\ create[g].at = "built"
    /\ env' = [env EXCEPT ![g].mac =
                  IF Present(g) THEN Realized(create[g].row).mac ELSE @]
    /\ create' = [create EXCEPT ![g] = [at |-> "done", row |-> NoRow]]
    /\ UNCHANGED <<clock, live, destroy, extend, sweep>>

\* Mutant: a status the sweeps do not know.
CreateRollbackFlagged(g) ==
    /\ create[g].at \in {"failed", "killed"}
    /\ SetStatus(g, "flagged")
    /\ Ended(g)
    /\ UNCHANGED <<clock, live, destroy, extend, sweep>>

\* The rollback of a failed provision, best-effort.
CreateRollback(g) ==
    /\ create[g].at \in {"failed", "killed"}
    /\ SetStatus(g, "vanished")
    /\ Ended(g)
    /\ UNCHANGED <<clock, live, destroy, extend, sweep>>

\* The front-end dies, its last write fails, or, before it has a row, its lease
\* does: the pool is exhausted, or alloc::allocate ran into an error.
CreateCrash(g) ==
    /\ create[g].at \in {"checked", "leased", "built", "failed", "killed"}
    /\ Ended(g)
    /\ UNCHANGED <<clock, env, live, destroy, extend, sweep>>

(***************************************************************************)
(* kento teardown, by name.  It fails when no instance has the name; it    *)
(* may fail though the instance is gone (killed after OP_TIMEOUT).         *)
(***************************************************************************)
Teardown(g, name) ==
    /\ live[g].up /\ live[g].name = name
    /\ live' = [live EXCEPT ![g] = NoInstance]

(***************************************************************************)
(* destroy                                                                 *)
(***************************************************************************)

\* The verb resolves the env-id to a row of the caller.
DestroyRead(d, g, o) ==
    /\ destroy[d].at = "idle"
    /\ Present(g) /\ env[g].owner = o
    /\ destroy' = [destroy EXCEPT ![d] =
          [at |-> "elevated", guid |-> g, owner |-> o,
           active |-> Active(g), name |-> "minted"]]
    /\ UNCHANGED <<clock, env, live, create, extend, sweep>>

\* The helper re-reads the row and checks the owner.
HelperRead(d) ==
    LET g == destroy[d].guid IN
    /\ destroy[d].at = "elevated"
    /\ destroy' = [destroy EXCEPT ![d] =
          IF Present(g) /\ env[g].owner = @.owner
          THEN [@ EXCEPT !.at = "read", !.name = env[g].name]
          ELSE IdleDestroy]
    /\ UNCHANGED <<clock, env, live, create, extend, sweep>>

\* It lists the instances.  One that has the guid must have the row's name;
\* where none has it there is nothing to destroy.
HelperList(d) ==
    LET guest == live[destroy[d].guid] IN
    /\ destroy[d].at = "read"
    /\ destroy' = [destroy EXCEPT ![d] =
          IF ~guest.up THEN [@ EXCEPT !.at = "mark"]
          ELSE IF guest.name = @.name THEN [@ EXCEPT !.at = "kill"]
          ELSE IdleDestroy]
    /\ UNCHANGED <<clock, env, live, create, extend, sweep>>

HelperKill(d) ==
    /\ destroy[d].at = "kill"
    /\ Teardown(destroy[d].guid, destroy[d].name)
    /\ \/ destroy' = [destroy EXCEPT ![d].at = "mark"]
       \/ destroy' = [destroy EXCEPT ![d] = IdleDestroy]
    /\ UNCHANGED <<clock, env, create, extend, sweep>>

\* The row is marked only if the verb read it Active.
DestroyMark(d) ==
    /\ destroy[d].at = "mark"
    /\ IF destroy[d].active THEN SetStatus(destroy[d].guid, "reaped")
                            ELSE UNCHANGED env
    /\ destroy' = [destroy EXCEPT ![d] = IdleDestroy]
    /\ UNCHANGED <<clock, live, create, extend, sweep>>

\* A kento or SQLite error, or the death of the verb.
DestroyFail(d) ==
    /\ destroy[d].at # "idle"
    /\ destroy' = [destroy EXCEPT ![d] = IdleDestroy]
    /\ UNCHANGED <<clock, env, live, create, extend, sweep>>

(***************************************************************************)
(* extend                                                                  *)
(***************************************************************************)

ExtendRead(x, g, o, add) ==
    /\ extend[x].at = "idle"
    /\ Present(g) /\ env[g].owner = o
    /\ extend' = [extend EXCEPT ![x] =
          [at |-> "select", guid |-> g, asked |-> env[g].deadline + add,
           created |-> 0]]
    /\ UNCHANGED <<clock, env, live, create, destroy, sweep>>

\* Mutant: no ceiling.
ClampedBelow(asked, created) == Greater(asked, created)

\* store::set_ttl_deadline is two statements: the SELECT of the creation, of
\* whatever row the guid then has, ...
ExtendSelect(x) ==
    LET g == extend[x].guid IN
    /\ extend[x].at = "select"
    /\ extend' = [extend EXCEPT ![x] =
          IF Present(g) THEN [@ EXCEPT !.at = "write", !.created = env[g].created]
                        ELSE IdleExtend]
    /\ UNCHANGED <<clock, env, live, create, destroy, sweep>>

\* ... the clamp into [created, created + MaxTtl], ...
Clamped(asked, created) ==
    Lesser(Greater(asked, created), created + MaxTtl)

\* ... and the UPDATE, of the row that the guid has by then.
ExtendWrite(x) ==
    LET g == extend[x].guid IN
    /\ extend[x].at = "write"
    /\ env' = [env EXCEPT ![g].deadline =
                  IF Present(g) THEN Clamped(extend[x].asked, extend[x].created) ELSE @]
    /\ extend' = [extend EXCEPT ![x] = IdleExtend]
    /\ UNCHANGED <<clock, live, create, destroy, sweep>>

(***************************************************************************)
(* sweep                                                                   *)
(***************************************************************************)

\* identity::classify, of an instance as listed against the row its guid has.
\* Without a row, a name that is not a seadog label makes it foreign.
Orphan(sig, row) == row.status = "absent" /\ sig.name # "alien"

\* Mutant: the name alone decides.
AnomalyOfName(sig, row) == row.status # "absent" /\ row.name # sig.name

Anomaly(sig, row) ==
    /\ row.status # "absent"
    /\ \/ row.name # sig.name
       \/ sig.mac # "" /\ row.mac # "" /\ sig.mac # row.mac

\* Mutant: a terminal row has no guest.
ReapEligibleActive(sig, row) == row.status = "active" /\ ~Anomaly(sig, row)

ReapEligible(sig, row) == row.status # "absent" /\ ~Anomaly(sig, row)

\* Mutants of the gates: the age alone; off by one.
DueByAge(row, now) == now - row.created >= AgeFloor
OverHerdCap(reaped) == HerdCap = 0 \/ reaped <= HerdCap

\* The gates of handle_reap_candidate.
Due(row, now) == now - row.created >= AgeFloor /\ now >= row.deadline
UnderHerdCap(reaped) == HerdCap = 0 \/ reaped < HerdCap

\* The caller reads the clock for the sweep.
SweepBegin(s) ==
    /\ sweep[s].at = "idle"
    /\ sweep' = [sweep EXCEPT ![s] = [IdleSweep EXCEPT !.at = "list", !.now = clock]]
    /\ UNCHANGED <<clock, env, live, create, destroy, extend>>

\* A failed list ends the sweep and changes nothing here (SweepCrash).
SweepList(s) ==
    /\ sweep[s].at = "list"
    /\ sweep' = [sweep EXCEPT ![s].at = "scan", ![s].seen = live,
                              ![s].todo = {g \in Guid : live[g].up}]
    /\ UNCHANGED <<clock, env, live, create, destroy, extend>>

\* Join the next listed instance to its row.
SweepJoin(s, g) ==
    /\ sweep[s].at = "scan" /\ g \in sweep[s].todo
    /\ sweep' = [sweep EXCEPT ![s].at = "judge", ![s].cur = g,
                              ![s].row = env[g], ![s].todo = @ \ {g}]
    /\ UNCHANGED <<clock, env, live, create, destroy, extend>>

Judging(s) == sweep[s].at = "judge"
Signals(s) == sweep[s].seen[sweep[s].cur]
ToReap(s) ==
    /\ ReapEligible(Signals(s), sweep[s].row)
    /\ Due(sweep[s].row, sweep[s].now)
    /\ UnderHerdCap(sweep[s].reaped)

\* Foreign, anomalous, not due, deferred by the herd cap, or an orphan whose
\* insert fails.
SweepPass(s) ==
    /\ Judging(s)
    /\ ~ToReap(s)
    /\ sweep' = [sweep EXCEPT ![s].at = "scan", ![s].cur = "none", ![s].row = NoRow]
    /\ UNCHANGED <<clock, env, live, create, destroy, extend>>

\* Mutant: an upsert instead of an insert.
SweepReadoptUpsert(s) ==
    LET g == sweep[s].cur  sig == Signals(s) IN
    /\ Judging(s)
    /\ Orphan(sig, sweep[s].row)
    /\ env' = [env EXCEPT ![g] =
                  [status |-> "active", owner |-> sig.owner, mode |-> sig.mode,
                   name |-> sig.name, mac |-> sig.mac, ip |-> NoIp,
                   created |-> sweep[s].now,
                   deadline |-> sweep[s].now + DefaultTtl]]
    /\ sweep' = [sweep EXCEPT ![s].at = "scan", ![s].cur = "none", ![s].row = NoRow]
    /\ UNCHANGED <<clock, live, create, destroy, extend>>

\* Mutant: a re-adopted guest is leased a free address.
SweepReadoptLeases(s) ==
    LET g == sweep[s].cur  sig == Signals(s) IN
    /\ Judging(s)
    /\ Orphan(sig, sweep[s].row)
    /\ \E ip \in FreeIps :
          /\ \A i \in FreeIps : ip <= i
          /\ env' = [env EXCEPT ![g] = IF Present(g) THEN @ ELSE
                  [status |-> "active", owner |-> sig.owner, mode |-> sig.mode,
                   name |-> sig.name, mac |-> sig.mac, ip |-> ip,
                   created |-> sweep[s].now,
                   deadline |-> sweep[s].now + DefaultTtl]]
    /\ sweep' = [sweep EXCEPT ![s].at = "scan", ![s].cur = "none", ![s].row = NoRow]
    /\ UNCHANGED <<clock, live, create, destroy, extend>>

\* readopt_orphan: the insert fails if a row has appeared meanwhile.
SweepReadopt(s) ==
    LET g == sweep[s].cur  sig == Signals(s) IN
    /\ Judging(s)
    /\ Orphan(sig, sweep[s].row)
    /\ env' = [env EXCEPT ![g] = IF Present(g) THEN @ ELSE
                  [status |-> "active", owner |-> sig.owner, mode |-> sig.mode,
                   name |-> sig.name, mac |-> sig.mac, ip |-> NoIp,
                   created |-> sweep[s].now,
                   deadline |-> sweep[s].now + DefaultTtl]]
    /\ sweep' = [sweep EXCEPT ![s].at = "scan", ![s].cur = "none", ![s].row = NoRow]
    /\ UNCHANGED <<clock, live, create, destroy, extend>>

SweepKill(s) ==
    /\ Judging(s)
    /\ ToReap(s)
    /\ Teardown(sweep[s].cur, Signals(s).name)
    /\ sweep' = [sweep EXCEPT ![s].at = "mark"]
    /\ UNCHANGED <<clock, env, create, destroy, extend>>

\* The teardown reports an error, its effect done or not: the reap is deferred.
SweepKillFail(s) ==
    /\ Judging(s)
    /\ ToReap(s)
    /\ \/ UNCHANGED live
       \/ Teardown(sweep[s].cur, Signals(s).name)
    /\ sweep' = [sweep EXCEPT ![s].at = "scan", ![s].cur = "none", ![s].row = NoRow]
    /\ UNCHANGED <<clock, env, create, destroy, extend>>

\* The teardown reports a lost quorum: no further instance, no vanished pass.
SweepQuorumLost(s) ==
    /\ Judging(s)
    /\ ToReap(s)
    /\ sweep' = [sweep EXCEPT ![s].at = "end", ![s].cur = "none", ![s].row = NoRow]
    /\ UNCHANGED <<clock, env, live, create, destroy, extend>>

\* store::mark_reaped; without a row it fails and the sweep aborts.
SweepMark(s) ==
    LET g == sweep[s].cur IN
    /\ sweep[s].at = "mark"
    /\ SetStatus(g, "reaped")
    /\ \/ /\ Present(g)
          /\ sweep' = [sweep EXCEPT ![s].at = "scan", ![s].cur = "none",
                                    ![s].row = NoRow, ![s].reaped = @ + 1]
       \/ /\ ~Present(g)
          /\ sweep' = [sweep EXCEPT ![s] = IdleSweep]
    /\ UNCHANGED <<clock, live, create, destroy, extend>>

\* Mutant: no age floor in the vanished pass.
SweepMissingYoung(s) ==
    /\ sweep[s].at = "scan" /\ sweep[s].todo = {}
    /\ sweep' = [sweep EXCEPT ![s].at = "vanish",
          ![s].gone = {g \in Guid : Active(g) /\ ~sweep[s].seen[g].up}]
    /\ UNCHANGED <<clock, env, live, create, destroy, extend>>

\* Mutant: the age with its operands swapped.
SweepMissingNone(s) ==
    /\ sweep[s].at = "scan" /\ sweep[s].todo = {}
    /\ sweep' = [sweep EXCEPT ![s].at = "vanish",
          ![s].gone = {g \in Guid : /\ Active(g)
                                    /\ ~sweep[s].seen[g].up
                                    /\ env[g].created - sweep[s].now >= AgeFloor}]
    /\ UNCHANGED <<clock, env, live, create, destroy, extend>>

\* The vanished pass reads the Active rows once.
SweepMissing(s) ==
    /\ sweep[s].at = "scan" /\ sweep[s].todo = {}
    /\ sweep' = [sweep EXCEPT ![s].at = "vanish",
          ![s].gone = {g \in Guid : /\ Active(g)
                                    /\ ~sweep[s].seen[g].up
                                    /\ sweep[s].now - env[g].created >= AgeFloor}]
    /\ UNCHANGED <<clock, env, live, create, destroy, extend>>

\* store::mark_vanished on each of them; an error leaves the row for later.
SweepVanish(s, g) ==
    /\ sweep[s].at = "vanish" /\ g \in sweep[s].gone
    /\ SetStatus(g, "vanished")
    /\ sweep' = [sweep EXCEPT ![s].gone = @ \ {g}]
    /\ UNCHANGED <<clock, live, create, destroy, extend>>

SweepVanishFail(s, g) ==
    /\ sweep[s].at = "vanish" /\ g \in sweep[s].gone
    /\ sweep' = [sweep EXCEPT ![s].gone = @ \ {g}]
    /\ UNCHANGED <<clock, env, live, create, destroy, extend>>

\* Mutant: whatever is old is pruned.
PrunableByAge(g, now) == Present(g) /\ env[g].created < now - Retention

\* store::prune_terminal.
Prunable(g, now) ==
    env[g].status \in {"reaped", "vanished"} /\ env[g].created < now - Retention

\* The end of a sweep; a one-shot sweep prunes.
SweepEnd(s) ==
    /\ \/ sweep[s].at = "vanish" /\ sweep[s].gone = {}
       \/ sweep[s].at = "end"
    /\ env' = [g \in Guid |->
          IF s \in OneShot /\ Prunable(g, sweep[s].now) THEN NoRow ELSE env[g]]
    /\ sweep' = [sweep EXCEPT ![s] = IdleSweep]
    /\ UNCHANGED <<clock, live, create, destroy, extend>>

\* A SQLite error that aborts the sweep, or the death of the reaper.
SweepCrash(s) ==
    /\ sweep[s].at # "idle"
    /\ sweep' = [sweep EXCEPT ![s] = IdleSweep]
    /\ UNCHANGED <<clock, env, live, create, destroy, extend>>

(***************************************************************************)
(* The environment                                                         *)
(***************************************************************************)

\* g's create has a row in hand and no guest yet, but may still get one.
Underway(g) == create[g].at \in {"checked", "leased", "killed", "late"}

\* Time passes.  A create's guest is up, or never will be, within ProvisionTime
\* of the clock reading the create started from, and a sweep has its list
\* within ListTime of its own.
Tick ==
    /\ clock < MaxTime
    /\ \A g \in Guid : Underway(g) => clock < create[g].row.created + ProvisionTime
    /\ \A s \in Sweeper : sweep[s].at = "list" => clock < sweep[s].now + ListTime
    /\ clock' = clock + 1
    /\ UNCHANGED <<env, live, create, destroy, extend, sweep>>

\* A guest goes away by itself: removed by hand, or lost with its host.
GuestLost(g) ==
    /\ live[g].up
    /\ live' = [live EXCEPT ![g] = NoInstance]
    /\ UNCHANGED <<clock, env, create, destroy, extend, sweep>>

\* An operator changes what kento reports of a guest.
Tamper(g) ==
    /\ live[g].up /\ live[g].name = "minted"
    /\ \/ "name" \in Altered /\ live' = [live EXCEPT ![g].name = "renamed"]
       \/ "label" \in Altered /\ live' = [live EXCEPT ![g].name = "alien"]
       \/ "mac" \in Altered /\ live[g].mac = "minted" /\ live' = [live EXCEPT ![g].mac = "changed"]
    /\ UNCHANGED <<clock, env, create, destroy, extend, sweep>>

-----------------------------------------------------------------------------

CreateStep(g) ==
    \/ \E o \in Owner, m \in Mode, ttl \in Ttl : CreateCheck(g, o, m, ttl)
    \/ CreateAllocate(g)
    \/ Provision(g) \/ LateEnd(g) \/ CreateRecord(g) \/ CreateRollback(g)
    \/ CreateCrash(g)

DestroyStep(d) ==
    \/ \E g \in Guid, o \in Owner : DestroyRead(d, g, o)
    \/ HelperRead(d) \/ HelperList(d) \/ HelperKill(d)
    \/ DestroyMark(d) \/ DestroyFail(d)

ExtendStep(x) ==
    \/ \E g \in Guid, o \in Owner, add \in Extension : ExtendRead(x, g, o, add)
    \/ ExtendSelect(x) \/ ExtendWrite(x)

SweepStep(s) ==
    \/ SweepBegin(s) \/ SweepList(s)
    \/ \E g \in Guid : SweepJoin(s, g) \/ SweepVanish(s, g) \/ SweepVanishFail(s, g)
    \/ SweepPass(s) \/ SweepReadopt(s)
    \/ SweepKill(s) \/ SweepKillFail(s) \/ SweepQuorumLost(s) \/ SweepMark(s)
    \/ SweepMissing(s) \/ SweepEnd(s) \/ SweepCrash(s)

Outside == Tick \/ \E g \in Guid : GuestLost(g) \/ Tamper(g)

Next ==
    \/ \E g \in Guid : CreateStep(g)
    \/ \E d \in Destroyer : DestroyStep(d)
    \/ \E x \in Extender : ExtendStep(x)
    \/ \E s \in Sweeper : SweepStep(s)
    \/ Outside

Spec == Init /\ [][Next]_vars

(***************************************************************************)
(* Properties                                                              *)
(***************************************************************************)

CreateLocals == [at : {"new", "checked", "leased", "built", "failed", "killed",
                       "late", "done"},
                 row : Row]
DestroyLocals == [at : {"idle", "elevated", "read", "kill", "mark"},
                  guid : Guid \cup {"none"}, owner : Owner \cup {"none"},
                  active : BOOLEAN, name : Name]
ExtendLocals == [at : {"idle", "select", "write"}, guid : Guid \cup {"none"},
                 asked : Nat, created : Nat]
SweepLocals == [at : {"idle", "list", "scan", "judge", "mark", "vanish", "end"},
                now : Nat, seen : [Guid -> Instance], todo : SUBSET Guid,
                cur : Guid \cup {"none"}, row : Row, reaped : Nat,
                gone : SUBSET Guid]

\* The types of all variables.
TypeOK ==
    /\ clock \in Nat
    /\ env \in [Guid -> Row]
    /\ live \in [Guid -> Instance]
    /\ create \in [Guid -> CreateLocals]
    /\ destroy \in [Destroyer -> DestroyLocals]
    /\ extend \in [Extender -> ExtendLocals]
    /\ sweep \in [Sweeper -> SweepLocals]

\* No two Active rows hold the same address, whatever creates, destroys and
\* sweeps do at the same time: the allocator's transaction (alloc.rs) is the
\* only writer of addresses.  A re-adopted row holds none.
ActiveIpsDistinct ==
    \A g, h \in Guid :
        g # h /\ Active(g) /\ Active(h) /\ env[g].ip # NoIp => env[g].ip # env[h].ip

\* What the lease is for: two guests that are up, each under an Active row
\* that records an address, really have different addresses.
LeasedGuestsDistinct ==
    \A g, h \in Guid :
        /\ g # h /\ live[g].up /\ live[h].up /\ Active(g) /\ Active(h)
        /\ env[g].ip # NoIp /\ env[h].ip # NoIp
        => live[g].ip # live[h].ip

\* "Live env, holding its vmid/ip lease" (models.rs:54, of Active): then no two
\* guests that are up under Active rows share an address.  Not so for a guest
\* that was re-adopted: it keeps its address, its row records none, and the
\* allocator gives the address away again.
ActiveGuestsDistinct ==
    \A g, h \in Guid :
        g # h /\ live[g].up /\ live[h].up /\ Active(g) /\ Active(h)
        => live[g].ip # live[h].ip

\* No row outlives the hard ceiling, if the configuration keeps default_ttl
\* below max_ttl: no deadline is ever more than MaxTtl ahead of the clock, and
\* that of a row that a create has inserted stays within MaxTtl of its creation
\* (store.rs, set_ttl_deadline), whatever runs between its two statements.
DeadlineBounded ==
    DefaultTtl <= MaxTtl =>
        \A g \in Guid : Present(g) =>
            /\ env[g].deadline <= clock + MaxTtl
            /\ env[g].ip # NoIp =>
                  env[g].deadline \in env[g].created .. env[g].created + MaxTtl

\* "clamped into [created_at, created_at + max_ttl_secs] - never before the
\* row's own create time, never past the max_ttl ceiling" (store.rs:411-412).
\* Not so for a guid whose row is pruned and re-adopted between the SELECT and
\* the UPDATE: the new row gets a deadline by the old one's creation.
DeadlineInWindow ==
    \A g \in Guid : Present(g) =>
        env[g].deadline \in env[g].created .. env[g].created + Greater(MaxTtl, DefaultTtl)

\* A sweep tears down at most HerdCap guests that report success (reap.rs).
HerdCapHeld ==
    \A s \in Sweeper : HerdCap # 0 =>
        sweep[s].reaped + (IF sweep[s].at = "mark" THEN 1 ELSE 0) <= HerdCap

\* Sweep s tears down guest g in this step.
Reaps(s, g) ==
    /\ sweep[s].at = "judge" /\ sweep[s].cur = g
    /\ live[g].up /\ ~live'[g].up /\ sweep'[s] # sweep[s]

\* A sweep tears a guest down only when, by the row that is in the table at
\* that moment, the guest is older than the age floor and past its deadline,
\* unless an extend or another process changed the row after the sweep read it.
ReapOnlyOverdue ==
    [][\A s \in Sweeper, g \in Guid :
        Reaps(s, g) /\ env[g] = sweep[s].row =>
            clock >= env[g].created + AgeFloor /\ clock >= env[g].deadline]_vars

\* A sweep never tears down a guest whose identity is in doubt: at the step
\* that does, the guest has the name in its row, and the MAC it was listed with
\* does not contradict the row (identity.rs, "flag, never reap").
ReapOnlyConfirmed ==
    [][\A s \in Sweeper, g \in Guid :
        Reaps(s, g) /\ env[g] = sweep[s].row =>
            /\ live[g].name = env[g].name
            /\ sweep[s].seen[g].mac # "" /\ env[g].mac # ""
                  => sweep[s].seen[g].mac = env[g].mac]_vars

\* The vanished pass never retires the row of a guest that is up: a create in
\* progress is younger than the age floor until its guest is listed
\* (reap.rs, "don't vanish within the create window"), and so is a re-adopted
\* row that an overlapping sweep has dated back.
VanishOnlyGone ==
    [][\A s \in Sweeper, g \in Guid :
        /\ ProvisionTime < AgeFloor /\ ListTime < AgeFloor
        /\ sweep[s].at = "vanish" /\ sweep'[s] # sweep[s]
        /\ env[g].status # env'[g].status
        /\ env'[g].status = "vanished"
        => ~live[g].up]_vars

\* A row's history is never rewritten: once terminal it stays terminal until it
\* is pruned, so a lease that was given up is never silently taken back; and
\* its owner, name, address and creation never change.
HistoryKept ==
    [][\A g \in Guid : Present(g) /\ env'[g].status # "absent" =>
        /\ ~Active(g) => env'[g].status # "active"
        /\ env'[g].owner = env[g].owner /\ env'[g].name = env[g].name
        /\ env'[g].ip = env[g].ip /\ env'[g].created = env[g].created]_vars

\* The ledger that the table is, of which a reader sees status, address and time.
Entry(row) == [status |-> row.status, ip |-> row.ip,
               created |-> row.created, deadline |-> row.deadline]

Ledger == INSTANCE Lease WITH
    Ceiling <- Greater(MaxTtl, DefaultTtl), now <- clock,
    lease <- [g \in Guid |-> Entry(env[g])]

\* Every interleaving of creates, destroys, extends, sweeps and crashes changes
\* the table only as Lease allows: no address is leased twice, no closed lease is
\* opened again, no open one is forgotten, no deadline passes the ceiling that
\* Lease sets it.
ImplementsLease == Ledger!Spec

(***************************************************************************)
(* Liveness.  Time passes, whatever the bounds of Tick wait for.  A create *)
(* that has started goes on or dies (kento's calls are killed after        *)
(* OP_TIMEOUT), and what it leaves behind comes to an end.  The watcher's  *)
(* loop and the one-shot timer start sweeps for ever, and a sweep goes on  *)
(* or dies (WF).  Of the sweeps that are tried for ever not all crash      *)
(* before they have their list or reach the same instance or row, and an   *)
(* operation that is retried for ever does not fail every time (SF); any   *)
(* finite number of errors, lost quorums and crashes is possible.          *)
(***************************************************************************)
FairSpec ==
    /\ Spec
    /\ SF_vars(Tick)
    /\ \A g \in Guid : WF_vars(create[g].at # "new" /\ CreateStep(g))
    /\ \A s \in Sweeper :
          /\ WF_vars(SweepStep(s))
          /\ SF_vars(SweepList(s)) /\ SF_vars(SweepPass(s)) /\ SF_vars(SweepMissing(s))
          /\ \A g \in Guid :
                /\ SF_vars(SweepJoin(s, g))
                /\ SF_vars(SweepKill(s) /\ sweep[s].cur = g)
                /\ SF_vars(SweepVanish(s, g))

Overdue(g) ==
    /\ live[g].up /\ Present(g)
    /\ ~Anomaly(live[g], env[g])
    /\ Due(env[g], clock)

\* A guest that is overdue under a row of any status, the rolled-back one of a
\* failed create and that of a destroy that came too early included, is
\* eventually torn down, unless an operator makes its identity doubtful.
OverdueIsReaped ==
    \A g \in Guid : Overdue(g) ~> ~live[g].up \/ Anomaly(live[g], env[g])

\* An address does not leak: a row whose guest is gone for good, or was never
\* made, eventually leaves Active.
LeaseIsReleased ==
    \A g \in Guid :
        (/\ Active(g) /\ ~live[g].up /\ create[g].at = "done"
         /\ env[g].created + AgeFloor <= MaxTime)
        ~> ~Active(g)

=============================================================================
