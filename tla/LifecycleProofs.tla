--------------------------- MODULE LifecycleProofs ---------------------------
(***************************************************************************)
(* Proofs about Lifecycle, for any number of envs and processes and any    *)
(* configuration: the types; what a step can do to one row, one guest, one *)
(* create and one sweep; then, from those lemmas and the few steps that    *)
(* matter, the safety properties, each with its inductive invariant; and   *)
(* that the table implements the ledger of module Lease.                   *)
(***************************************************************************)
EXTENDS Lifecycle, TLAPS

\* A process that is not idle works on a guid.
TargetsOK ==
    /\ \A d \in Destroyer : destroy[d].at # "idle" => destroy[d].guid \in Guid
    /\ \A x \in Extender : extend[x].at # "idle" => extend[x].guid \in Guid
    /\ \A s \in Sweeper : sweep[s].at \in {"judge", "mark"} => sweep[s].cur \in Guid

Typed == TypeOK /\ TargetsOK

-----------------------------------------------------------------------------
(* Helpers.                                                                *)

\* Every value Row, Instance and the locals are built from.
LEMMA ConstantsNat ==
    /\ AgeFloor \in Nat /\ DefaultTtl \in Nat /\ MaxTtl \in Nat /\ Retention \in Nat
    /\ ProvisionTime \in Nat /\ ListTime \in Nat /\ MaxTime \in Nat /\ HerdCap \in Nat
    /\ Ttl \subseteq Nat /\ Extension \subseteq Nat
    BY ConfigAssumption DEF ConfigAssumption

LEMMA NoRowTyped == NoRow \in Row
    BY DEF NoRow, Row, Status, Name, Mac, Pool, NoIp

LEMMA NoInstanceTyped == NoInstance \in Instance
    BY DEF NoInstance, Instance, Name, Mac, Pool, NoIp

\* The instance a row's create makes is an instance.
LEMMA RealizedTyped ==
    ASSUME NEW row \in Row
    PROVE  Realized(row) \in Instance
    BY DEF Realized, Row, Instance, Mac

\* set_ttl_deadline's clamp lands in [created, created + MaxTtl].
LEMMA ClampedInRange ==
    ASSUME NEW asked \in Nat, NEW created \in Nat
    PROVE  /\ Clamped(asked, created) \in Nat
           /\ created <= Clamped(asked, created)
           /\ Clamped(asked, created) <= created + MaxTtl
    BY ConstantsNat DEF Clamped, Lesser, Greater

\* What is left of a create.
LEMMA EndedTyped ==
    ASSUME create \in [Guid -> CreateLocals], NEW g \in Guid, Ended(g)
    PROVE  create' \in [Guid -> CreateLocals]
    <1>1. /\ [create[g] EXCEPT !.at = "late"] \in CreateLocals
          /\ [at |-> "done", row |-> NoRow] \in CreateLocals
        BY NoRowTyped DEF CreateLocals
    <1> QED
        BY <1>1 DEF Ended

\* SetStatus changes nothing but the status of a row.
LEMMA SetStatusTyped ==
    ASSUME env \in [Guid -> Row], NEW g, NEW status \in Status, SetStatus(g, status)
    PROVE  env' \in [Guid -> Row]
    <1>1. \A h \in Guid, st \in Status : [env[h] EXCEPT !.status = st] \in Row
        BY DEF Row
    <1>2. \A h \in Guid : env[h].status \in Status
        BY DEF Row
    <1> QED
        BY <1>1, <1>2 DEF SetStatus

-----------------------------------------------------------------------------
(* Type correctness.                                                       *)

LEMMA InitTyped == Init => Typed
    <1> SUFFICES ASSUME Init PROVE Typed
        OBVIOUS
    <1>1. \A g \in Guid : [at |-> "new", row |-> NoRow] \in CreateLocals
        BY NoRowTyped DEF CreateLocals
    <1>2. IdleDestroy \in DestroyLocals
        BY DEF IdleDestroy, DestroyLocals, Name
    <1>3. IdleExtend \in ExtendLocals
        BY DEF IdleExtend, ExtendLocals
    <1>4. IdleSweep \in SweepLocals
        BY NoRowTyped, NoInstanceTyped DEF IdleSweep, SweepLocals
    <1>5. TypeOK
        BY <1>1, <1>2, <1>3, <1>4, NoRowTyped, NoInstanceTyped DEF Init, TypeOK
    <1>6. TargetsOK
        BY DEF Init, TargetsOK, IdleDestroy, IdleExtend, IdleSweep
    <1> QED
        BY <1>5, <1>6 DEF Typed

LEMMA CreateTyped ==
    ASSUME Typed, NEW g \in Guid, CreateStep(g)
    PROVE  Typed'
    <1> USE DEF Typed, TypeOK
    <1>1. ASSUME NEW o \in Owner, NEW m \in Mode, NEW ttl \in Ttl, CreateCheck(g, o, m, ttl)
          PROVE  Typed'
        <2>1. /\ clock + Lesser(ttl, MaxTtl) \in Nat
            BY ConstantsNat DEF Lesser
        <2>2. [status |-> "active", owner |-> o, mode |-> m, name |-> "minted",
               mac |-> "minted", ip |-> NoIp, created |-> clock,
               deadline |-> clock + Lesser(ttl, MaxTtl)] \in Row
            BY <2>1 DEF Row, Status, Name, Mac, NoIp, Pool
        <2>3. create' \in [Guid -> CreateLocals]
            BY <1>1, <2>2 DEF CreateCheck, CreateLocals
        <2> QED
            BY <1>1, <2>3 DEF CreateCheck, TargetsOK
    <1>2. ASSUME CreateAllocate(g) PROVE Typed'
        <2>1. PICK ip \in FreeIps :
                 /\ env' = [env EXCEPT ![g] = [create[g].row EXCEPT !.ip = ip]]
                 /\ create' = [create EXCEPT ![g].at = "leased", ![g].row.ip = ip]
            BY <1>2 DEF CreateAllocate
        <2>2. [create[g].row EXCEPT !.ip = ip] \in Row
            <3>1. create[g].row \in Row /\ ip \in Pool
                BY DEF CreateLocals, FreeIps
            <3> QED
                BY <3>1 DEF Row
        <2>3. create' \in [Guid -> CreateLocals]
            BY <2>1, <2>2 DEF CreateLocals
        <2> QED
            BY <1>2, <2>1, <2>2, <2>3 DEF CreateAllocate, TargetsOK
    <1>4. ASSUME Provision(g) PROVE Typed'
        <2>1. Realized(create[g].row) \in Instance
            BY RealizedTyped DEF CreateLocals
        <2>2. create' \in [Guid -> CreateLocals]
            <3>1. PICK at \in {"built", "failed", "killed"} : create' = [create EXCEPT ![g].at = at]
                BY <1>4 DEF Provision
            <3> QED
                BY <3>1 DEF CreateLocals
        <2> QED
            BY <1>4, <2>1, <2>2 DEF Provision, TargetsOK
    <1>5. ASSUME CreateRecord(g) PROVE Typed'
        <2>1. Realized(create[g].row).mac \in Mac
            BY RealizedTyped DEF CreateLocals, Instance
        <2>2. env' \in [Guid -> Row]
            <3>1. env[g].mac \in Mac
                BY DEF Row
            <3>2. \A mac \in Mac : [env[g] EXCEPT !.mac = mac] \in Row
                BY DEF Row
            <3> QED
                BY <1>5, <2>1, <3>1, <3>2 DEF CreateRecord
        <2> QED
            BY <1>5, <2>2, NoRowTyped DEF CreateRecord, CreateLocals, TargetsOK
    <1>6. ASSUME CreateRollback(g) PROVE Typed'
        <2>1. env' \in [Guid -> Row] /\ create' \in [Guid -> CreateLocals]
            BY <1>6, SetStatusTyped, EndedTyped DEF CreateRollback, Status
        <2> QED
            BY <1>6, <2>1 DEF CreateRollback, TargetsOK
    <1>7. ASSUME CreateCrash(g) PROVE Typed'
        <2>1. create' \in [Guid -> CreateLocals]
            BY <1>7, EndedTyped DEF CreateCrash
        <2> QED
            BY <1>7, <2>1 DEF CreateCrash, TargetsOK
    <1>8. ASSUME LateEnd(g) PROVE Typed'
        <2>1. Realized(create[g].row) \in Instance
            BY RealizedTyped DEF CreateLocals
        <2>2. /\ [create[g] EXCEPT !.at = "failed"] \in CreateLocals
              /\ [at |-> "done", row |-> NoRow] \in CreateLocals
            BY NoRowTyped DEF CreateLocals
        <2>3. create' \in [Guid -> CreateLocals]
            BY <1>8, <2>2 DEF LateEnd
        <2> QED
            BY <1>8, <2>1, <2>3 DEF LateEnd, TargetsOK
    <1> QED
        BY <1>1, <1>2, <1>4, <1>5, <1>6, <1>7, <1>8 DEF CreateStep

LEMMA DestroyTyped ==
    ASSUME Typed, NEW d \in Destroyer, DestroyStep(d)
    PROVE  Typed'
    <1> USE DEF Typed, TypeOK
    <1>1. ASSUME NEW g \in Guid, NEW o \in Owner, DestroyRead(d, g, o) PROVE Typed'
        <2>1. destroy' \in [Destroyer -> DestroyLocals]
            BY <1>1 DEF DestroyRead, DestroyLocals, Active, Name
        <2> QED
            BY <1>1, <2>1 DEF DestroyRead, TargetsOK
    <1>2. IdleDestroy \in DestroyLocals /\ IdleDestroy.at = "idle"
        BY DEF IdleDestroy, DestroyLocals, Name
    <1>3. ASSUME HelperRead(d) PROVE Typed'
        <2>1. destroy[d].guid \in Guid
            BY <1>3 DEF HelperRead, TargetsOK
        <2>2. env[destroy[d].guid].name \in Name
            BY <2>1 DEF Row
        <2>3. \A n \in Name : LET w == [destroy[d] EXCEPT !.at = "read", !.name = n]
                              IN  w \in DestroyLocals /\ w.guid = destroy[d].guid
            BY DEF DestroyLocals
        <2>4. PICK w \in DestroyLocals : /\ destroy' = [destroy EXCEPT ![d] = w]
                                         /\ w.at # "idle" => w.guid \in Guid
            BY <1>2, <1>3, <2>1, <2>2, <2>3 DEF HelperRead
        <2> QED
            BY <1>3, <2>4 DEF HelperRead, TargetsOK
    <1>4. ASSUME HelperList(d) PROVE Typed'
        <2>1. destroy[d].guid \in Guid
            BY <1>4 DEF HelperList, TargetsOK
        <2>2. /\ [destroy[d] EXCEPT !.at = "mark"] \in DestroyLocals
              /\ [destroy[d] EXCEPT !.at = "mark"].guid = destroy[d].guid
              /\ [destroy[d] EXCEPT !.at = "kill"] \in DestroyLocals
              /\ [destroy[d] EXCEPT !.at = "kill"].guid = destroy[d].guid
            BY DEF DestroyLocals
        <2>3. PICK w \in DestroyLocals : /\ destroy' = [destroy EXCEPT ![d] = w]
                                         /\ w.at # "idle" => w.guid \in Guid
            BY <1>2, <1>4, <2>1, <2>2 DEF HelperList
        <2> QED
            BY <1>4, <2>3 DEF HelperList, TargetsOK
    <1>5. ASSUME HelperKill(d) PROVE Typed'
        <2>1. live' \in [Guid -> Instance]
            BY <1>5, NoInstanceTyped DEF HelperKill, Teardown
        <2>2. destroy[d].guid \in Guid
            BY <1>5 DEF HelperKill, TargetsOK
        <2>3. [destroy[d] EXCEPT !.at = "mark"] \in DestroyLocals
            BY DEF DestroyLocals
        <2>4. destroy' \in [Destroyer -> DestroyLocals]
            BY <1>2, <1>5, <2>3 DEF HelperKill
        <2>5. destroy'[d].guid \in Guid \/ destroy'[d].at = "idle"
            BY <1>2, <1>5, <2>2 DEF HelperKill, DestroyLocals
        <2> QED
            BY <1>5, <2>1, <2>4, <2>5 DEF HelperKill, TargetsOK
    <1>6. ASSUME DestroyMark(d) PROVE Typed'
        <2>1. env' \in [Guid -> Row]
            BY <1>6, SetStatusTyped DEF DestroyMark, Status
        <2> QED
            BY <1>2, <1>6, <2>1 DEF DestroyMark, TargetsOK
    <1>7. ASSUME DestroyFail(d) PROVE Typed'
        BY <1>2, <1>7 DEF DestroyFail, TargetsOK
    <1> QED
        BY <1>1, <1>3, <1>4, <1>5, <1>6, <1>7 DEF DestroyStep

LEMMA ExtendTyped ==
    ASSUME Typed, NEW x \in Extender, ExtendStep(x)
    PROVE  Typed'
    <1> USE DEF Typed, TypeOK
    <1>1. ASSUME NEW g \in Guid, NEW o \in Owner, NEW add \in Extension, ExtendRead(x, g, o, add)
          PROVE  Typed'
        <2>1. env[g].deadline + add \in Nat
            BY ConstantsNat DEF Row
        <2>2. extend' \in [Extender -> ExtendLocals]
            BY <1>1, <2>1 DEF ExtendRead, ExtendLocals
        <2> QED
            BY <1>1, <2>2 DEF ExtendRead, TargetsOK
    <1>2. ASSUME ExtendWrite(x) PROVE Typed'
        <2> DEFINE g == extend[x].guid
        <2>1. g \in Guid
            BY <1>2 DEF ExtendWrite, TargetsOK
        <2>2. Clamped(extend[x].asked, extend[x].created) \in Nat
            BY ClampedInRange DEF ExtendLocals
        <2>3. env[g].deadline \in Nat
            BY <2>1 DEF Row
        <2>4. \A t \in Nat : [env[g] EXCEPT !.deadline = t] \in Row
            BY <2>1 DEF Row
        <2>5. env' \in [Guid -> Row]
            BY <1>2, <2>2, <2>3, <2>4 DEF ExtendWrite
        <2>6. IdleExtend \in ExtendLocals /\ IdleExtend.at = "idle"
            BY DEF IdleExtend, ExtendLocals
        <2> QED
            BY <1>2, <2>5, <2>6 DEF ExtendWrite, TargetsOK
    <1>3. ASSUME ExtendSelect(x) PROVE Typed'
        <2>1. extend[x].guid \in Guid
            BY <1>3 DEF ExtendSelect, TargetsOK
        <2>2. env[extend[x].guid].created \in Nat
            BY <2>1 DEF Row
        <2>3. \A t \in Nat : LET w == [extend[x] EXCEPT !.at = "write", !.created = t]
                             IN  w \in ExtendLocals /\ w.guid = extend[x].guid
            BY DEF ExtendLocals
        <2>4. IdleExtend \in ExtendLocals /\ IdleExtend.at = "idle"
            BY DEF IdleExtend, ExtendLocals
        <2>5. PICK w \in ExtendLocals : /\ extend' = [extend EXCEPT ![x] = w]
                                        /\ w.at # "idle" => w.guid \in Guid
            BY <1>3, <2>1, <2>2, <2>3, <2>4 DEF ExtendSelect
        <2> QED
            BY <1>3, <2>5 DEF ExtendSelect, TargetsOK
    <1> QED
        BY <1>1, <1>2, <1>3 DEF ExtendStep

\* The steps of a sweep, given that what they write is well-typed.
LEMMA SweepLocalTyped ==
    ASSUME Typed, NEW s \in Sweeper, UNCHANGED <<clock, create, destroy, extend>>,
           env' \in [Guid -> Row], live' \in [Guid -> Instance],
           NEW w \in SweepLocals, sweep' = [sweep EXCEPT ![s] = w],
           w.at \in {"judge", "mark"} => w.cur \in Guid
    PROVE  Typed'
    BY DEF Typed, TypeOK, TargetsOK

LEMMA SweepTyped ==
    ASSUME Typed, NEW s \in Sweeper, SweepStep(s)
    PROVE  Typed'
    <1>0. /\ sweep[s] \in SweepLocals
          /\ env \in [Guid -> Row] /\ live \in [Guid -> Instance] /\ clock \in Nat
          /\ sweep[s].at \in {"judge", "mark"} => sweep[s].cur \in Guid
        BY DEF Typed, TypeOK, TargetsOK
    <1>1. ASSUME SweepList(s) PROVE Typed'
        <2> DEFINE w == [sweep[s] EXCEPT !.at = "scan", !.seen = live,
                                         !.todo = {g \in Guid : live[g].up}]
        <2>1. w \in SweepLocals /\ w.at = "scan"
            BY <1>0 DEF SweepLocals
        <2>2. sweep' = [sweep EXCEPT ![s] = w]
            BY <1>1 DEF SweepList
        <2> QED
            BY <1>0, <1>1, <2>1, <2>2, SweepLocalTyped DEF SweepList
    <1>14. ASSUME SweepBegin(s) PROVE Typed'
        <2> DEFINE w == [IdleSweep EXCEPT !.at = "list", !.now = clock]
        <2>1. w \in SweepLocals /\ w.at = "list"
            BY <1>0, NoRowTyped, NoInstanceTyped DEF SweepLocals, IdleSweep
        <2>2. sweep' = [sweep EXCEPT ![s] = w]
            BY <1>14 DEF SweepBegin
        <2> QED
            BY <1>0, <1>14, <2>1, <2>2, SweepLocalTyped DEF SweepBegin
    <1>2. ASSUME NEW g \in Guid, SweepJoin(s, g) PROVE Typed'
        <2> DEFINE w == [sweep[s] EXCEPT !.at = "judge", !.cur = g, !.row = env[g],
                                         !.todo = @ \ {g}]
        <2>1. w \in SweepLocals /\ w.cur \in Guid
            BY <1>0 DEF SweepLocals
        <2>2. sweep' = [sweep EXCEPT ![s] = w]
            BY <1>2 DEF SweepJoin
        <2> QED
            BY <1>0, <1>2, <2>1, <2>2, SweepLocalTyped DEF SweepJoin
    \* The records a sweep goes on with.
    <1> DEFINE onward(at) == [sweep[s] EXCEPT !.at = at, !.cur = "none", !.row = NoRow]
    <1>3. /\ onward("scan") \in SweepLocals /\ onward("scan").at = "scan"
          /\ onward("end") \in SweepLocals /\ onward("end").at = "end"
          /\ IdleSweep \in SweepLocals /\ IdleSweep.at = "idle"
        BY <1>0, NoRowTyped, NoInstanceTyped DEF SweepLocals, IdleSweep
    <1>4. ASSUME SweepPass(s) PROVE Typed'
        <2>1. sweep' = [sweep EXCEPT ![s] = onward("scan")]
            BY <1>4 DEF SweepPass
        <2> QED
            BY <1>0, <1>3, <1>4, <2>1, SweepLocalTyped DEF SweepPass
    <1>5. ASSUME SweepReadopt(s) PROVE Typed'
        <2> DEFINE g == sweep[s].cur
        <2> DEFINE sig == Signals(s)
        <2>1. g \in Guid /\ sig \in Instance
            BY <1>0, <1>5 DEF SweepReadopt, Judging, Signals, SweepLocals
        <2>2. sweep[s].now \in Nat /\ sweep[s].now + DefaultTtl \in Nat
            BY <1>0, ConstantsNat DEF SweepLocals
        <2>3. [status |-> "active", owner |-> sig.owner, mode |-> sig.mode,
               name |-> sig.name, mac |-> sig.mac, ip |-> NoIp,
               created |-> sweep[s].now, deadline |-> sweep[s].now + DefaultTtl] \in Row
            BY <2>1, <2>2 DEF Row, Instance, Status
        <2>4. env' \in [Guid -> Row]
            BY <1>0, <1>5, <2>3 DEF SweepReadopt
        <2>5. sweep' = [sweep EXCEPT ![s] = onward("scan")]
            BY <1>5 DEF SweepReadopt
        <2> QED
            BY <1>0, <1>3, <1>5, <2>4, <2>5, SweepLocalTyped DEF SweepReadopt
    <1>6. ASSUME SweepKill(s) PROVE Typed'
        <2> DEFINE w == [sweep[s] EXCEPT !.at = "mark"]
        <2>1. w \in SweepLocals /\ w.cur \in Guid
            BY <1>0, <1>6 DEF SweepKill, Judging, SweepLocals
        <2>2. sweep' = [sweep EXCEPT ![s] = w]
            BY <1>6 DEF SweepKill
        <2>3. live' \in [Guid -> Instance]
            BY <1>0, <1>6, NoInstanceTyped DEF SweepKill, Teardown
        <2> QED
            BY <1>0, <1>6, <2>1, <2>2, <2>3, SweepLocalTyped DEF SweepKill
    <1>7. ASSUME SweepKillFail(s) PROVE Typed'
        <2>1. sweep' = [sweep EXCEPT ![s] = onward("scan")]
            BY <1>7 DEF SweepKillFail
        <2>2. live' \in [Guid -> Instance]
            BY <1>0, <1>7, NoInstanceTyped DEF SweepKillFail, Teardown
        <2> QED
            BY <1>0, <1>3, <1>7, <2>1, <2>2, SweepLocalTyped DEF SweepKillFail
    <1>8. ASSUME SweepQuorumLost(s) PROVE Typed'
        <2>1. sweep' = [sweep EXCEPT ![s] = onward("end")]
            BY <1>8 DEF SweepQuorumLost
        <2> QED
            BY <1>0, <1>3, <1>8, <2>1, SweepLocalTyped DEF SweepQuorumLost
    <1>9. ASSUME SweepMark(s) PROVE Typed'
        <2> DEFINE counted == [sweep[s] EXCEPT !.at = "scan", !.cur = "none", !.row = NoRow,
                                               !.reaped = sweep[s].reaped + 1]
        <2>1. counted \in SweepLocals /\ counted.at = "scan"
            <3>1. sweep[s].reaped + 1 \in Nat
                BY <1>0 DEF SweepLocals
            <3>2. \A n \in Nat :
                     LET w == [onward("scan") EXCEPT !.reaped = n]
                     IN  w \in SweepLocals /\ w.at = "scan"
                BY <1>3 DEF SweepLocals
            <3>3. counted = [onward("scan") EXCEPT !.reaped = sweep[s].reaped + 1]
                OBVIOUS
            <3> HIDE DEF counted
            <3> QED
                BY <3>1, <3>2, <3>3
        <2>2. env' \in [Guid -> Row]
            BY <1>0, <1>9, SetStatusTyped DEF SweepMark, Status
        <2>3. CASE Present(sweep[s].cur)
            <3>1. sweep' = [sweep EXCEPT ![s] = counted]
                BY <1>9, <2>3 DEF SweepMark
            <3> QED
                BY <1>0, <1>9, <2>1, <2>2, <3>1, SweepLocalTyped DEF SweepMark
        <2>4. CASE ~Present(sweep[s].cur)
            <3>1. sweep' = [sweep EXCEPT ![s] = IdleSweep]
                BY <1>9, <2>4 DEF SweepMark
            <3> QED
                BY <1>0, <1>3, <1>9, <2>2, <3>1, SweepLocalTyped DEF SweepMark
        <2> QED
            BY <2>3, <2>4
    <1>10. ASSUME SweepMissing(s) PROVE Typed'
        <2> DEFINE missing == {g \in Guid : /\ Active(g)
                                            /\ ~sweep[s].seen[g].up
                                            /\ sweep[s].now - env[g].created >= AgeFloor}
        <2> DEFINE w == [sweep[s] EXCEPT !.at = "vanish", !.gone = missing]
        <2>1. w \in SweepLocals /\ w.at = "vanish"
            BY <1>0 DEF SweepLocals
        <2>2. sweep' = [sweep EXCEPT ![s] = w]
            BY <1>10 DEF SweepMissing
        <2> QED
            BY <1>0, <1>10, <2>1, <2>2, SweepLocalTyped DEF SweepMissing
    <1>11. ASSUME NEW g \in Guid, SweepVanish(s, g) \/ SweepVanishFail(s, g) PROVE Typed'
        <2> DEFINE w == [sweep[s] EXCEPT !.gone = @ \ {g}]
        <2>1. w \in SweepLocals /\ w.at = "vanish"
            BY <1>0, <1>11 DEF SweepVanish, SweepVanishFail, SweepLocals
        <2>2. sweep' = [sweep EXCEPT ![s] = w]
            BY <1>11 DEF SweepVanish, SweepVanishFail
        <2>3. env' \in [Guid -> Row]
            BY <1>0, <1>11, SetStatusTyped DEF SweepVanish, SweepVanishFail, Status
        <2> QED
            BY <1>0, <1>11, <2>1, <2>2, <2>3, SweepLocalTyped DEF SweepVanish, SweepVanishFail
    <1>12. ASSUME SweepEnd(s) PROVE Typed'
        <2>1. env' \in [Guid -> Row]
            BY <1>0, <1>12, NoRowTyped DEF SweepEnd
        <2> QED
            BY <1>0, <1>3, <1>12, <2>1, SweepLocalTyped DEF SweepEnd
    <1>13. ASSUME SweepCrash(s) PROVE Typed'
        BY <1>0, <1>3, <1>13, SweepLocalTyped DEF SweepCrash
    <1> QED
        BY <1>1, <1>2, <1>4, <1>5, <1>6, <1>7, <1>8, <1>9, <1>10, <1>11, <1>12, <1>13, <1>14
        DEF SweepStep

LEMMA OutsideTyped == Typed /\ Outside => Typed'
    <1> SUFFICES ASSUME Typed, Outside PROVE Typed'
        OBVIOUS
    <1> USE DEF Typed, TypeOK
    <1>1. ASSUME Tick PROVE Typed'
        BY <1>1 DEF Tick, TargetsOK
    <1>2. ASSUME NEW g \in Guid, GuestLost(g) PROVE Typed'
        BY <1>2, NoInstanceTyped DEF GuestLost, TargetsOK
    <1>3. ASSUME NEW g \in Guid, Tamper(g) PROVE Typed'
        <2>1. /\ [live[g] EXCEPT !.name = "renamed"] \in Instance
              /\ [live[g] EXCEPT !.name = "alien"] \in Instance
              /\ [live[g] EXCEPT !.mac = "changed"] \in Instance
            BY DEF Instance, Name, Mac
        <2>2. live' \in [Guid -> Instance]
            BY <1>3, <2>1 DEF Tamper
        <2> QED
            BY <1>3, <2>2 DEF Tamper, TargetsOK
    <1> QED
        BY <1>1, <1>2, <1>3 DEF Outside

LEMMA NextTyped == Typed /\ [Next]_vars => Typed'
    <1>1. Typed /\ UNCHANGED vars => Typed'
        BY DEF vars, Typed, TypeOK, TargetsOK
    <1> QED
        BY <1>1, CreateTyped, DestroyTyped, ExtendTyped, SweepTyped, OutsideTyped DEF Next

\* The variables always have the types TypeOK gives them.
THEOREM TypeCorrect == Spec => []TypeOK
    <1>1. Typed => TypeOK
        BY DEF Typed
    <1> QED
        BY InitTyped, NextTyped, <1>1, PTL DEF Spec

LEMMA AlwaysTyped == Spec => []Typed
    BY InitTyped, NextTyped, PTL DEF Spec

-----------------------------------------------------------------------------
(* What a step does to one row, one guest, one create and one sweep.       *)

\* An extend writes g's deadline.
Extends(g) ==
    \E x \in Extender :
        /\ ExtendWrite(x) /\ extend[x].guid = g /\ Present(g)
        /\ env'[g].deadline = Clamped(extend[x].asked, extend[x].created)

\* The row of g keeps its identity, its lease and its creation; its status
\* changes, if at all, to a terminal one, its deadline by an extend.
RowKept(g) ==
    /\ env'[g].owner = env[g].owner /\ env'[g].name = env[g].name
    /\ env'[g].ip = env[g].ip /\ env'[g].created = env[g].created
    /\ \/ env'[g].status = env[g].status
       \/ Present(g) /\ env'[g].status \in {"reaped", "vanished"}
    /\ env'[g].deadline = env[g].deadline \/ Extends(g)

Readopts(g) ==
    \E s \in Sweeper : SweepReadopt(s) /\ sweep[s].cur = g /\ ~Present(g)

LEMMA RowUnchanged ==
    ASSUME NEW g \in Guid, env'[g] = env[g]
    PROVE  RowKept(g)
    BY DEF RowKept

LEMMA StatusKeepsRow ==
    ASSUME env \in [Guid -> Row], NEW g \in Guid, NEW h \in Guid,
           NEW status \in {"reaped", "vanished"}, SetStatus(h, status)
    PROVE  RowKept(g)
    <1>1. CASE g = h /\ Present(g)
        <2>1. env'[g] = [env[g] EXCEPT !.status = status]
            BY <1>1 DEF SetStatus
        <2> QED
            BY <1>1, <2>1 DEF RowKept, Row
    <1>2. CASE ~(g = h /\ Present(g))
        <2>1. env'[g] = env[g]
            BY <1>2 DEF SetStatus, Row
        <2> QED
            BY <2>1, RowUnchanged
    <1> QED
        BY <1>1, <1>2

LEMMA RowStep ==
    ASSUME Typed, [Next]_vars, NEW g \in Guid
    PROVE  RowKept(g) \/ env'[g] = NoRow \/ CreateAllocate(g) \/ Readopts(g)
    <1>0. env \in [Guid -> Row]
        BY DEF Typed, TypeOK
    <1>1. CASE env' = env
        BY <1>1, RowUnchanged
    <1>2. ASSUME NEW h \in Guid, CreateAllocate(h), ~CreateAllocate(g) PROVE RowKept(g)
        <2>1. env'[g] = env[g]
            BY <1>0, <1>2 DEF CreateAllocate
        <2> QED
            BY <2>1, RowUnchanged
    <1>3. ASSUME NEW h \in Guid, CreateRecord(h) PROVE RowKept(g)
        <2>1. \E m : env'[g] = [env[g] EXCEPT !.mac = m] \/ env'[g] = env[g]
            BY <1>0, <1>3 DEF CreateRecord
        <2> QED
            BY <1>0, <2>1 DEF RowKept, Row
    <1>4. ASSUME NEW h \in Guid, CreateRollback(h) PROVE RowKept(g)
        BY <1>0, <1>4, StatusKeepsRow DEF CreateRollback
    <1>5. ASSUME NEW d \in Destroyer, DestroyMark(d) PROVE RowKept(g)
        <2>1. destroy[d].guid \in Guid
            BY <1>5 DEF DestroyMark, Typed, TargetsOK
        <2> QED
            BY <1>0, <1>5, <2>1, StatusKeepsRow, RowUnchanged DEF DestroyMark
    <1>6. ASSUME NEW x \in Extender, ExtendWrite(x) PROVE RowKept(g)
        <2>2. CASE extend[x].guid = g /\ Present(g)
            <3> DEFINE t == Clamped(extend[x].asked, extend[x].created)
            <3>1. env'[g] = [env[g] EXCEPT !.deadline = t]
                BY <1>0, <1>6, <2>2 DEF ExtendWrite
            <3> HIDE DEF t
            <3>2. env'[g].deadline = t
                BY <1>0, <3>1 DEF Row
            <3>3. Extends(g)
                BY <1>6, <2>2, <3>2 DEF Extends, t
            <3> QED
                BY <1>0, <3>1, <3>3 DEF RowKept, Row
        <2>3. CASE ~(extend[x].guid = g /\ Present(g))
            <3>1. env'[g] = env[g]
                BY <1>0, <1>6, <2>3 DEF ExtendWrite, Row
            <3> QED
                BY <3>1, RowUnchanged
        <2> QED
            BY <2>2, <2>3
    <1>7. ASSUME NEW s \in Sweeper, SweepReadopt(s) PROVE RowKept(g) \/ Readopts(g)
        <2>1. sweep[s].cur \in Guid
            BY <1>7 DEF SweepReadopt, Judging, Typed, TargetsOK
        <2>2. CASE sweep[s].cur = g /\ ~Present(g)
            BY <1>7, <2>2 DEF Readopts
        <2>3. CASE ~(sweep[s].cur = g /\ ~Present(g))
            <3>1. env'[g] = env[g]
                BY <1>0, <1>7, <2>3 DEF SweepReadopt
            <3> QED
                BY <3>1, RowUnchanged
        <2> QED
            BY <2>2, <2>3
    <1>8. ASSUME NEW s \in Sweeper, SweepMark(s) PROVE RowKept(g)
        <2>1. sweep[s].cur \in Guid
            BY <1>8 DEF SweepMark, Typed, TargetsOK
        <2> QED
            BY <1>0, <1>8, <2>1, StatusKeepsRow DEF SweepMark
    <1>9. ASSUME NEW s \in Sweeper, NEW h \in Guid, SweepVanish(s, h) PROVE RowKept(g)
        BY <1>0, <1>9, StatusKeepsRow DEF SweepVanish
    <1>10. ASSUME NEW s \in Sweeper, SweepEnd(s) PROVE RowKept(g) \/ env'[g] = NoRow
        <2>1. env'[g] = NoRow \/ env'[g] = env[g]
            BY <1>10 DEF SweepEnd
        <2> QED
            BY <2>1, RowUnchanged
    <1>11. ASSUME Next PROVE
              \/ env' = env
              \/ \E h \in Guid : CreateAllocate(h) \/ CreateRecord(h) \/ CreateRollback(h)
              \/ \E d \in Destroyer : DestroyMark(d)
              \/ \E x \in Extender : ExtendWrite(x)
              \/ \E s \in Sweeper : \/ SweepReadopt(s) \/ SweepMark(s) \/ SweepEnd(s)
                                     \/ \E h \in Guid : SweepVanish(s, h)
        <2>1. ASSUME NEW h \in Guid, CreateStep(h)
              PROVE  env' = env \/ CreateAllocate(h) \/ CreateRecord(h) \/ CreateRollback(h)
            BY <2>1 DEF CreateStep, CreateCheck, Provision, LateEnd, CreateCrash
        <2>2. ASSUME NEW d \in Destroyer, DestroyStep(d) PROVE env' = env \/ DestroyMark(d)
            BY <2>2 DEF DestroyStep, DestroyRead, HelperRead, HelperList, HelperKill, DestroyFail
        <2>3. ASSUME NEW x \in Extender, ExtendStep(x) PROVE env' = env \/ ExtendWrite(x)
            BY <2>3 DEF ExtendStep, ExtendRead, ExtendSelect
        <2>4. ASSUME NEW s \in Sweeper, SweepStep(s)
              PROVE  \/ env' = env
                     \/ SweepReadopt(s) \/ SweepMark(s) \/ SweepEnd(s)
                     \/ \E h \in Guid : SweepVanish(s, h)
            BY <2>4 DEF SweepStep, SweepBegin, SweepList, SweepJoin, SweepVanishFail, SweepPass, SweepKill,
                        SweepKillFail, SweepQuorumLost, SweepMissing, SweepCrash
        <2>5. Outside => env' = env
            BY DEF Outside, Tick, GuestLost, Tamper
        <2> QED
            BY <1>11, <2>1, <2>2, <2>3, <2>4, <2>5 DEF Next
    <1>12. UNCHANGED vars => env' = env
        BY DEF vars
    <1> QED
        BY <1>1, <1>2, <1>3, <1>4, <1>5, <1>6, <1>7, <1>8, <1>9, <1>10, <1>11, <1>12

\* A guest comes up by its create only; then it keeps its address.
Builds(g) == Provision(g) \/ LateEnd(g)

LEMMA GuestStep ==
    ASSUME Typed, [Next]_vars, NEW g \in Guid
    PROVE  \/ live'[g].up => live[g].up /\ live'[g].ip = live[g].ip
           \/ Builds(g)
    <1> DEFINE kept == live'[g].up => live[g].up /\ live'[g].ip = live[g].ip
    <1>0. live \in [Guid -> Instance] /\ ~NoInstance.up
        BY DEF Typed, TypeOK, NoInstance
    <1>1. live'[g] = live[g] \/ live'[g] = NoInstance => kept
        BY <1>0
    <1>2. ASSUME NEW h \in Guid, CreateStep(h) PROVE kept \/ Builds(g)
        <2>1. CASE Builds(h)
            BY <1>0, <1>1, <2>1 DEF Builds, Provision, LateEnd
        <2>2. CASE ~Builds(h)
            BY <1>1, <1>2, <2>2 DEF Builds, CreateStep, CreateCheck, CreateAllocate,
                                    CreateRecord, CreateRollback, CreateCrash
        <2> QED
            BY <2>1, <2>2
    <1>3. ASSUME NEW h \in Guid, live' = [live EXCEPT ![h] = NoInstance] PROVE kept
        BY <1>0, <1>1, <1>3
    <1>4. ASSUME NEW d \in Destroyer, DestroyStep(d) PROVE kept
        <2>1. CASE HelperKill(d)
            BY <1>3, <2>1 DEF HelperKill, Teardown, Typed, TargetsOK
        <2>2. CASE ~HelperKill(d)
            BY <1>1, <1>4, <2>2 DEF DestroyStep, DestroyRead, HelperRead, HelperList,
                                    DestroyMark, DestroyFail
        <2> QED
            BY <2>1, <2>2
    <1>5. ASSUME NEW x \in Extender, ExtendStep(x) PROVE kept
        BY <1>1, <1>5 DEF ExtendStep, ExtendRead, ExtendSelect, ExtendWrite
    <1>6. ASSUME NEW s \in Sweeper, SweepStep(s) PROVE kept
        <2>1. CASE SweepKill(s) \/ SweepKillFail(s)
            BY <1>1, <1>3, <2>1 DEF SweepKill, SweepKillFail, Judging, Teardown, Typed, TargetsOK
        <2>2. CASE ~(SweepKill(s) \/ SweepKillFail(s))
            BY <1>1, <1>6, <2>2 DEF SweepStep, SweepBegin, SweepList, SweepJoin, SweepVanish, SweepVanishFail,
                   SweepPass, SweepReadopt, SweepQuorumLost, SweepMark, SweepMissing, SweepEnd,
                   SweepCrash
        <2> QED
            BY <2>1, <2>2
    <1>7. ASSUME Outside PROVE kept
        <2>1. CASE Tick
            BY <1>1, <2>1 DEF Tick
        <2>2. ASSUME NEW h \in Guid, GuestLost(h) PROVE kept
            BY <1>3, <2>2 DEF GuestLost
        <2>3. ASSUME NEW h \in Guid, Tamper(h) PROVE kept
            BY <1>0, <2>3 DEF Tamper, Instance
        <2> QED
            BY <1>7, <2>1, <2>2, <2>3 DEF Outside
    <1>8. UNCHANGED vars => kept
        BY <1>1 DEF vars
    <1> QED
        BY <1>2, <1>4, <1>5, <1>6, <1>7, <1>8 DEF Next

\* A create advances by its own steps.
LEMMA CreateChange ==
    ASSUME Typed, [Next]_vars, NEW g \in Guid
    PROVE  create'[g] = create[g] \/ CreateStep(g)
    <1>0. create \in [Guid -> CreateLocals]
        BY DEF Typed, TypeOK
    <1>1. ASSUME NEW h \in Guid, CreateStep(h), h # g PROVE create'[g] = create[g]
        BY <1>0, <1>1 DEF CreateStep, CreateCheck, CreateAllocate, Provision,
                          LateEnd, Ended, CreateRecord, CreateRollback, CreateCrash
    <1>2. ASSUME NEW d \in Destroyer, DestroyStep(d) PROVE create' = create
        BY <1>2 DEF DestroyStep, DestroyRead, HelperRead, HelperList, HelperKill, DestroyMark,
                    DestroyFail
    <1>3. ASSUME NEW x \in Extender, ExtendStep(x) PROVE create' = create
        BY <1>3 DEF ExtendStep, ExtendRead, ExtendSelect, ExtendWrite
    <1>4. ASSUME NEW s \in Sweeper, SweepStep(s) PROVE create' = create
        BY <1>4 DEF SweepStep, SweepBegin, SweepList, SweepJoin, SweepVanish, SweepVanishFail, SweepPass,
                    SweepReadopt, SweepKill, SweepKillFail, SweepQuorumLost, SweepMark,
                    SweepMissing, SweepEnd, SweepCrash
    <1>5. Outside => create' = create
        BY DEF Outside, Tick, GuestLost, Tamper
    <1>6. UNCHANGED vars => create' = create
        BY DEF vars
    <1> QED
        BY <1>1, <1>2, <1>3, <1>4, <1>5, <1>6 DEF Next

\* An extend advances by its own steps.
LEMMA ExtendChange ==
    ASSUME Typed, [Next]_vars, NEW x \in Extender
    PROVE  extend'[x] = extend[x] \/ ExtendStep(x)
    <1>0. extend \in [Extender -> ExtendLocals]
        BY DEF Typed, TypeOK
    <1>1. ASSUME NEW g \in Guid, CreateStep(g) PROVE extend' = extend
        BY <1>1 DEF CreateStep, CreateCheck, CreateAllocate, Provision,
                    LateEnd, CreateRecord, CreateRollback, CreateCrash
    <1>2. ASSUME NEW d \in Destroyer, DestroyStep(d) PROVE extend' = extend
        BY <1>2 DEF DestroyStep, DestroyRead, HelperRead, HelperList, HelperKill, DestroyMark,
                    DestroyFail
    <1>3. ASSUME NEW y \in Extender, ExtendStep(y), y # x PROVE extend'[x] = extend[x]
        BY <1>0, <1>3 DEF ExtendStep, ExtendRead, ExtendSelect, ExtendWrite
    <1>4. ASSUME NEW s \in Sweeper, SweepStep(s) PROVE extend' = extend
        BY <1>4 DEF SweepStep, SweepBegin, SweepList, SweepJoin, SweepVanish, SweepVanishFail,
                    SweepPass, SweepReadopt, SweepKill, SweepKillFail, SweepQuorumLost, SweepMark,
                    SweepMissing, SweepEnd, SweepCrash
    <1>5. Outside => extend' = extend
        BY DEF Outside, Tick, GuestLost, Tamper
    <1>6. UNCHANGED vars => extend' = extend
        BY DEF vars
    <1> QED
        BY <1>1, <1>2, <1>3, <1>4, <1>5, <1>6 DEF Next

\* A sweep advances by its own steps.
LEMMA SweepChange ==
    ASSUME Typed, [Next]_vars, NEW s \in Sweeper
    PROVE  sweep'[s] = sweep[s] \/ SweepStep(s)
    <1>0. sweep \in [Sweeper -> SweepLocals]
        BY DEF Typed, TypeOK
    <1>1. ASSUME NEW g \in Guid, CreateStep(g) PROVE sweep' = sweep
        BY <1>1 DEF CreateStep, CreateCheck, CreateAllocate, Provision,
                    LateEnd, CreateRecord, CreateRollback, CreateCrash
    <1>2. ASSUME NEW d \in Destroyer, DestroyStep(d) PROVE sweep' = sweep
        BY <1>2 DEF DestroyStep, DestroyRead, HelperRead, HelperList, HelperKill, DestroyMark,
                    DestroyFail
    <1>3. ASSUME NEW x \in Extender, ExtendStep(x) PROVE sweep' = sweep
        BY <1>3 DEF ExtendStep, ExtendRead, ExtendSelect, ExtendWrite
    <1>4. ASSUME NEW t \in Sweeper, SweepStep(t), t # s PROVE sweep'[s] = sweep[s]
        <2>1. ASSUME NEW w, sweep' = [sweep EXCEPT ![t] = w] PROVE sweep'[s] = sweep[s]
            BY <1>0, <1>4, <2>1
        <2> QED
            BY <1>4, <2>1 DEF SweepStep, SweepBegin, SweepList, SweepJoin, SweepVanish, SweepVanishFail,
                   SweepPass, SweepReadopt, SweepKill, SweepKillFail, SweepQuorumLost, SweepMark,
                   SweepMissing, SweepEnd, SweepCrash
    <1>5. Outside => sweep' = sweep
        BY DEF Outside, Tick, GuestLost, Tamper
    <1>6. UNCHANGED vars => sweep' = sweep
        BY DEF vars
    <1> QED
        BY <1>1, <1>2, <1>3, <1>4, <1>5, <1>6 DEF Next

\* A sweep has its list.
Listed(s) == sweep[s].at \notin {"idle", "list"}

\* A sweep that is under way keeps its clock reading and its list.
Scans(s) ==
    /\ Listed(s)
    /\ sweep'[s].now = sweep[s].now /\ sweep'[s].seen = sweep[s].seen
    /\ sweep'[s].todo \subseteq sweep[s].todo
    /\ \/ sweep'[s].gone \subseteq sweep[s].gone
       \/ SweepMissing(s)
    /\ sweep'[s].at = "judge" =>
          sweep'[s].cur \in sweep[s].todo \/ (sweep[s].at = "judge" /\ sweep'[s].cur = sweep[s].cur)

LEMMA ScanStep ==
    ASSUME Typed, [Next]_vars, NEW s \in Sweeper
    PROVE  \/ sweep'[s] = sweep[s] \/ sweep'[s] = IdleSweep
           \/ SweepBegin(s) \/ SweepList(s) \/ Scans(s)
    <1> USE DEF Listed
    <1>0. sweep[s] \in SweepLocals /\ sweep \in [Sweeper -> SweepLocals]
        BY DEF Typed, TypeOK
    <1>1. ASSUME NEW g \in Guid, SweepJoin(s, g) PROVE Scans(s)
        BY <1>0, <1>1 DEF SweepJoin, Scans, SweepLocals
    <1>2. ASSUME NEW g \in Guid, SweepVanish(s, g) \/ SweepVanishFail(s, g) PROVE Scans(s)
        BY <1>0, <1>2 DEF SweepVanish, SweepVanishFail, Scans, SweepLocals
    <1>3. SweepPass(s) => Scans(s)
        BY <1>0 DEF SweepPass, Judging, Scans, SweepLocals
    <1>4. SweepReadopt(s) => Scans(s)
        BY <1>0 DEF SweepReadopt, Judging, Scans, SweepLocals
    <1>5. SweepKill(s) => Scans(s)
        BY <1>0 DEF SweepKill, Judging, Scans, SweepLocals
    <1>6. SweepKillFail(s) => Scans(s)
        BY <1>0 DEF SweepKillFail, Judging, Scans, SweepLocals
    <1>7. SweepQuorumLost(s) => Scans(s)
        BY <1>0 DEF SweepQuorumLost, Judging, Scans, SweepLocals
    <1>8. SweepMark(s) => Scans(s) \/ sweep'[s] = IdleSweep
        BY <1>0 DEF SweepMark, Scans, SweepLocals
    <1>9. SweepMissing(s) => Scans(s)
        BY <1>0 DEF SweepMissing, Scans, SweepLocals
    <1>10. SweepEnd(s) \/ SweepCrash(s) => sweep'[s] = IdleSweep
        BY <1>0 DEF SweepEnd, SweepCrash
    <1> QED
        BY <1>1, <1>2, <1>3, <1>4, <1>5, <1>6, <1>7, <1>8, <1>9, <1>10, SweepChange DEF SweepStep

LEMMA IdleSweepFields ==
    /\ IdleSweep.at = "idle" /\ IdleSweep.now = 0 /\ IdleSweep.reaped = 0
    /\ IdleSweep.todo = {} /\ IdleSweep.gone = {}
    /\ \A g \in Guid : ~IdleSweep.seen[g].up
    BY DEF IdleSweep, NoInstance

\* What a sweep has once it has begun, and once it has its list.
LEMMA BeginFields ==
    ASSUME Typed, NEW s \in Sweeper, SweepBegin(s)
    PROVE  /\ sweep[s].at = "idle" /\ sweep'[s].at = "list" /\ sweep'[s].now = clock
           /\ sweep'[s].todo = {} /\ sweep'[s].gone = {} /\ sweep'[s].reaped = 0
           /\ \A g \in Guid : ~sweep'[s].seen[g].up
           /\ \A t \in Sweeper : t # s => sweep'[t] = sweep[t]
           /\ UNCHANGED <<clock, env, live, create, destroy, extend>>
    <1>1. /\ sweep' = [sweep EXCEPT ![s] = [IdleSweep EXCEPT !.at = "list", !.now = clock]]
          /\ sweep[s].at = "idle" /\ sweep \in [Sweeper -> SweepLocals]
          /\ UNCHANGED <<clock, env, live, create, destroy, extend>>
        BY DEF SweepBegin, Typed, TypeOK
    <1>2. /\ sweep'[s] = [IdleSweep EXCEPT !.at = "list", !.now = clock]
          /\ \A t \in Sweeper : t # s => sweep'[t] = sweep[t]
        BY <1>1
    <1>3. /\ sweep'[s].at = "list" /\ sweep'[s].now = clock
          /\ sweep'[s].todo = {} /\ sweep'[s].gone = {} /\ sweep'[s].reaped = 0
          /\ sweep'[s].seen = IdleSweep.seen
        BY <1>2 DEF IdleSweep
    <1> QED
        BY <1>1, <1>2, <1>3, IdleSweepFields

LEMMA ListFields ==
    ASSUME Typed, NEW s \in Sweeper, SweepList(s)
    PROVE  /\ sweep[s].at = "list" /\ sweep'[s].at = "scan"
           /\ sweep'[s].now = sweep[s].now /\ sweep'[s].reaped = sweep[s].reaped
           /\ sweep'[s].gone = sweep[s].gone
           /\ sweep'[s].seen = live /\ sweep'[s].todo = {g \in Guid : live[g].up}
           /\ \A t \in Sweeper : t # s => sweep'[t] = sweep[t]
           /\ UNCHANGED <<clock, env, live, create, destroy, extend>>
    BY DEF SweepList, Typed, TypeOK, SweepLocals

\* Only Tick moves the clock.
LEMMA TickOnly ==
    ASSUME [Next]_vars
    PROVE  clock' = clock \/ Tick
    <1>1. ASSUME NEW g \in Guid, CreateStep(g) PROVE clock' = clock
        BY <1>1 DEF CreateStep, CreateCheck, CreateAllocate, Provision,
                    LateEnd, CreateRecord, CreateRollback, CreateCrash
    <1>2. ASSUME NEW d \in Destroyer, DestroyStep(d) PROVE clock' = clock
        BY <1>2 DEF DestroyStep, DestroyRead, HelperRead, HelperList, HelperKill, DestroyMark,
                    DestroyFail
    <1>3. ASSUME NEW x \in Extender, ExtendStep(x) PROVE clock' = clock
        BY <1>3 DEF ExtendStep, ExtendRead, ExtendSelect, ExtendWrite
    <1>4. ASSUME NEW s \in Sweeper, SweepStep(s) PROVE clock' = clock
        BY <1>4 DEF SweepStep, SweepBegin, SweepList, SweepJoin, SweepVanish, SweepVanishFail, SweepPass,
                    SweepReadopt, SweepKill, SweepKillFail, SweepQuorumLost, SweepMark,
                    SweepMissing, SweepEnd, SweepCrash
    <1>5. Outside => clock' = clock \/ Tick
        BY DEF Outside, GuestLost, Tamper
    <1>6. UNCHANGED vars => clock' = clock
        BY DEF vars
    <1> QED
        BY <1>1, <1>2, <1>3, <1>4, <1>5, <1>6 DEF Next

-----------------------------------------------------------------------------
(* Addresses and the history of a row.                                     *)

\* g's create has no guest yet.
PreGuest(g) == create[g].at \in {"new", "checked", "leased", "killed", "late"}

\* g's create has inserted its row and kento may still make the guest.
Pending(g) == create[g].at \in {"leased", "killed", "late"}

\* A create's guest and row carry the address its transaction leased, and a
\* sweep that has listed a guest knows that its create got so far.
LeaseOf(g) ==
    /\ create[g].at \in {"new", "checked"} => ~Present(g)
    /\ PreGuest(g) => ~live[g].up
    /\ Pending(g) => env[g].ip \in {NoIp, create[g].row.ip}
    /\ live[g].up => env[g].ip \in {NoIp, live[g].ip}

ListOf(s) ==
    /\ \A g \in Guid : sweep[s].seen[g].up => ~PreGuest(g)
    /\ sweep[s].todo \subseteq {g \in Guid : sweep[s].seen[g].up}
    /\ sweep[s].at = "judge" => sweep[s].seen[sweep[s].cur].up

LeaseInv ==
    /\ \A g \in Guid : LeaseOf(g)
    /\ \A s \in Sweeper : ListOf(s)

LEMMA NoRowFields == NoRow.status = "absent" /\ NoRow.ip = NoIp /\ NoRow.created = 0
    BY DEF NoRow

\* A sweep re-adopts an orphan it has listed, under no address, from its own
\* clock reading.
LEMMA ReadoptRow ==
    ASSUME Typed, LeaseInv, NEW g \in Guid, Readopts(g)
    PROVE  /\ ~Present(g) /\ ~PreGuest(g)
           /\ env'[g].status = "active" /\ env'[g].ip = NoIp
           /\ env'[g].deadline = env'[g].created + DefaultTtl
           /\ UNCHANGED <<clock, live, create>>
           /\ \E s \in Sweeper : /\ sweep[s].at = "judge" /\ sweep[s].seen[g].up
                                 /\ env'[g].created = sweep[s].now
    <1>1. PICK s \in Sweeper : SweepReadopt(s) /\ sweep[s].cur = g /\ ~Present(g)
        BY DEF Readopts
    <1>2. sweep[s].at = "judge" /\ sweep[s].seen[g].up /\ ~PreGuest(g)
        BY <1>1 DEF SweepReadopt, Judging, LeaseInv, ListOf
    <1>3. env'[g] = [status |-> "active", owner |-> Signals(s).owner, mode |-> Signals(s).mode,
                     name |-> Signals(s).name, mac |-> Signals(s).mac, ip |-> NoIp,
                     created |-> sweep[s].now, deadline |-> sweep[s].now + DefaultTtl]
        BY <1>1 DEF SweepReadopt, Typed, TypeOK
    <1> QED
        BY <1>1, <1>2, <1>3 DEF SweepReadopt

LEMMA AllocateRow ==
    ASSUME Typed, NEW g \in Guid, CreateAllocate(g)
    PROVE  /\ create[g].at = "checked" /\ create'[g].at = "leased"
           /\ env'[g].ip \in FreeIps /\ env'[g].ip = create'[g].row.ip
           /\ env'[g].created = create[g].row.created
           /\ env'[g].deadline = create[g].row.deadline
           /\ create'[g].row.created = create[g].row.created
           /\ \A h \in Guid : h # g => env'[h] = env[h]
           /\ UNCHANGED <<clock, live, sweep>>
    <1>1. PICK ip \in FreeIps :
             /\ env' = [env EXCEPT ![g] = [create[g].row EXCEPT !.ip = ip]]
             /\ create' = [create EXCEPT ![g].at = "leased", ![g].row.ip = ip]
        BY DEF CreateAllocate
    <1>2. create[g] \in CreateLocals /\ create \in [Guid -> CreateLocals] /\ env \in [Guid -> Row]
        BY DEF Typed, TypeOK
    <1>3. create[g].row \in Row
        BY <1>2 DEF CreateLocals
    <1>4. /\ env'[g] = [create[g].row EXCEPT !.ip = ip]
          /\ \A h \in Guid : h # g => env'[h] = env[h]
        BY <1>1, <1>2
    <1>5. /\ env'[g].ip = ip /\ env'[g].created = create[g].row.created
          /\ env'[g].deadline = create[g].row.deadline
        BY <1>3, <1>4 DEF Row
    <1>6. /\ create'[g].at = "leased" /\ create'[g].row = [create[g].row EXCEPT !.ip = ip]
        BY <1>1, <1>2 DEF CreateLocals
    <1>7. create'[g].row.ip = ip /\ create'[g].row.created = create[g].row.created
        BY <1>3, <1>6 DEF Row
    <1> QED
        BY <1>1, <1>4, <1>5, <1>6, <1>7 DEF CreateAllocate

LEMMA LeaseInit == Init => LeaseInv
    <1> SUFFICES ASSUME Init PROVE LeaseInv
        OBVIOUS
    <1>1. \A g \in Guid : env[g].status = "absent" /\ ~live[g].up /\ create[g].at = "new"
        BY DEF Init, NoRow, NoInstance
    <1>2. \A s \in Sweeper : /\ sweep[s].at = "idle" /\ sweep[s].todo = {}
                             /\ \A g \in Guid : ~sweep[s].seen[g].up
        BY DEF Init, IdleSweep, NoInstance
    <1> QED
        BY <1>1, <1>2 DEF LeaseInv, LeaseOf, ListOf, Present, Pending

\* Where a create may be, given where it was.
LEMMA CreateOrder ==
    ASSUME Typed, [Next]_vars, NEW g \in Guid
    PROVE  /\ create'[g].at = "new" => create[g].at = "new"
           /\ create'[g].at = "checked" =>
                 create'[g] = create[g] \/ \E o \in Owner, m \in Mode, ttl \in Ttl :
                                               CreateCheck(g, o, m, ttl)
           /\ Pending(g)' =>
                 CreateAllocate(g) \/ (Pending(g) /\ create'[g].row = create[g].row)
           /\ PreGuest(g)' => /\ PreGuest(g) /\ ~LateEnd(g)
                              /\ Provision(g) => live' = live
    <1> USE DEF Pending
    <1>0. create \in [Guid -> CreateLocals] /\ create[g] \in CreateLocals
        BY DEF Typed, TypeOK
    <1>1. Provision(g) =>
              /\ create[g].at = "leased" /\ create'[g].row = create[g].row
              /\ \/ create'[g].at \in {"built", "failed"}
                 \/ create'[g].at = "killed" /\ live' = live
        BY <1>0 DEF Provision, CreateLocals
    <1>7. LateEnd(g) => /\ create[g].at \in {"killed", "late"}
                        /\ create'[g].at \in {"failed", "done"}
        BY <1>0 DEF LateEnd, CreateLocals
    <1>8. Ended(g) => \/ create'[g].at = "done"
                      \/ /\ create[g].at \in {"leased", "killed"}
                         /\ create'[g].at = "late" /\ create'[g].row = create[g].row
        BY <1>0 DEF Ended, CreateLocals
    <1>2. CASE create'[g] = create[g]
        BY <1>1, <1>2, <1>7 DEF PreGuest
    <1>3. ASSUME NEW o \in Owner, NEW m \in Mode, NEW ttl \in Ttl, CreateCheck(g, o, m, ttl)
          PROVE  create[g].at = "new" /\ create'[g].at = "checked"
        BY <1>0, <1>3 DEF CreateCheck
    <1>4. CASE CreateAllocate(g)
        BY <1>1, <1>4, <1>7, AllocateRow DEF PreGuest
    <1>5. CASE CreateRecord(g)
        <2>1. create'[g].at = "done" /\ create[g].at = "built"
            BY <1>0, <1>5 DEF CreateRecord
        <2> QED
            BY <2>1 DEF PreGuest
    <1>6. CASE Provision(g)
        BY <1>1, <1>6, <1>7 DEF PreGuest
    <1>9. CASE LateEnd(g)
        BY <1>7, <1>9 DEF PreGuest
    <1>10. CASE CreateRollback(g) \/ CreateCrash(g)
        <2>1. Ended(g) /\ live' = live
            BY <1>10 DEF CreateRollback, CreateCrash
        <2> QED
            BY <1>7, <1>8, <2>1 DEF PreGuest
    <1> QED
        BY <1>1, <1>2, <1>3, <1>4, <1>5, <1>6, <1>7, <1>9, <1>10, CreateChange DEF CreateStep, PreGuest

LEMMA LeaseNext == Typed /\ LeaseInv /\ [Next]_vars => LeaseInv'
    <1> SUFFICES ASSUME Typed, LeaseInv, [Next]_vars PROVE LeaseInv'
        OBVIOUS
    <1>1. ASSUME NEW g \in Guid PROVE LeaseOf(g)'
        <2>0. LeaseOf(g)
            BY DEF LeaseInv
        <2>1. create'[g].at \in {"new", "checked"} => ~Present(g)'
            <3> SUFFICES ASSUME create'[g].at \in {"new", "checked"} PROVE ~Present(g)'
                OBVIOUS
            <3>1. create[g].at \in {"new", "checked"}
                BY CreateOrder DEF CreateCheck
            <3>2. ~Present(g) /\ PreGuest(g) /\ ~CreateAllocate(g)
                BY <2>0, <3>1, AllocateRow DEF LeaseOf, PreGuest
            <3>3. ~Readopts(g)
                BY <3>2, ReadoptRow
            <3>4. RowKept(g) => ~Present(g)'
                BY <3>2 DEF RowKept, Present
            <3>5. env'[g] = NoRow => ~Present(g)'
                BY NoRowFields DEF Present
            <3> QED
                BY <3>2, <3>3, <3>4, <3>5, RowStep
        <2>2. PreGuest(g)' => ~live'[g].up
            BY <2>0, CreateOrder, GuestStep DEF LeaseOf, Builds
        <2>3. Pending(g)' => env'[g].ip \in {NoIp, create'[g].row.ip}
            <3>1. CASE CreateAllocate(g)
                BY <3>1, AllocateRow
            <3>2. CASE create'[g].row = create[g].row /\ Pending(g) /\ ~CreateAllocate(g)
                <4>1. ~Readopts(g)
                    BY <3>2, ReadoptRow DEF PreGuest, Pending
                <4>2. RowKept(g) => env'[g].ip = env[g].ip
                    BY DEF RowKept
                <4>3. env'[g] = NoRow => env'[g].ip = NoIp
                    BY NoRowFields
                <4>4. env'[g].ip = env[g].ip \/ env'[g].ip = NoIp
                    BY <3>2, <4>1, <4>2, <4>3, RowStep
                <4> QED
                    BY <2>0, <3>2, <4>4 DEF LeaseOf
            <3> QED
                BY <3>1, <3>2, CreateOrder
        <2>4. live'[g].up => env'[g].ip \in {NoIp, live'[g].ip}
            <3> SUFFICES ASSUME live'[g].up PROVE env'[g].ip \in {NoIp, live'[g].ip}
                OBVIOUS
            <3>1. CASE live[g].up /\ live'[g].ip = live[g].ip
                <4>1. ~CreateAllocate(g)
                    BY <2>0, <3>1, AllocateRow DEF LeaseOf, PreGuest
                <4>2. RowKept(g) => env'[g].ip = env[g].ip
                    BY DEF RowKept
                <4>3. env'[g] = NoRow => env'[g].ip = NoIp
                    BY NoRowFields
                <4>4. env'[g].ip = env[g].ip \/ env'[g].ip = NoIp
                    BY <4>1, <4>2, <4>3, RowStep, ReadoptRow
                <4> QED
                    BY <2>0, <3>1, <4>4 DEF LeaseOf
            <3>2. CASE Builds(g) /\ ~live[g].up
                <4>1. live' = [live EXCEPT ![g] = Realized(create[g].row)]
                    BY <3>2 DEF Builds, Provision, LateEnd
                <4>2. live'[g].ip = create[g].row.ip
                    BY <4>1 DEF Typed, TypeOK, Realized
                <4>3. Pending(g) /\ env' = env
                    BY <3>2 DEF Builds, Provision, LateEnd, Pending
                <4> QED
                    BY <2>0, <4>2, <4>3 DEF LeaseOf
            <3>3. CASE Builds(g) /\ live[g].up
                BY <2>0, <3>3 DEF Builds, Provision, LateEnd, LeaseOf, PreGuest
            <3> QED
                BY <3>1, <3>2, <3>3, GuestStep
        <2> QED
            BY <2>1, <2>2, <2>3, <2>4 DEF LeaseOf
    <1>2. ASSUME NEW s \in Sweeper PROVE ListOf(s)'
        <2>0. /\ ListOf(s) /\ \A g \in Guid : LeaseOf(g)
              /\ \A g \in Guid : PreGuest(g)' => PreGuest(g)
            BY CreateOrder DEF LeaseInv
        <2>1. CASE sweep'[s] = sweep[s]
            BY <2>0, <2>1 DEF ListOf
        <2>2. CASE sweep'[s] = IdleSweep
            BY <2>2, IdleSweepFields DEF ListOf
        <2>5. CASE SweepBegin(s)
            <3>1. /\ sweep'[s].at = "list" /\ sweep'[s].todo = {}
                  /\ \A g \in Guid : ~sweep'[s].seen[g].up
                BY <2>5, BeginFields DEF NoInstance
            <3> QED
                BY <3>1 DEF ListOf
        <2>3. CASE SweepList(s)
            <3>2. /\ sweep'[s].at = "scan" /\ sweep'[s].seen = live
                  /\ sweep'[s].todo = {g \in Guid : live[g].up}
                BY <2>3, ListFields
            <3>3. \A g \in Guid : live[g].up => ~PreGuest(g)
                BY <2>0 DEF LeaseOf
            <3> QED
                BY <2>0, <3>2, <3>3 DEF ListOf
        <2>4. CASE Scans(s)
            <3>1. /\ \A g \in Guid : sweep'[s].seen[g].up => ~PreGuest(g)'
                  /\ sweep'[s].todo \subseteq {g \in Guid : sweep'[s].seen[g].up}
                BY <2>0, <2>4 DEF Scans, ListOf
            <3>2. sweep'[s].at = "judge" => sweep'[s].seen[sweep'[s].cur].up
                BY <2>0, <2>4 DEF Scans, ListOf
            <3> QED
                BY <3>1, <3>2 DEF ListOf
        <2> QED
            BY <2>1, <2>2, <2>3, <2>4, <2>5, ScanStep
    <1> QED
        BY <1>1, <1>2 DEF LeaseInv

LEMMA AlwaysLease == Spec => [](Typed /\ LeaseInv)
    <1>1. Init => Typed /\ LeaseInv
        BY InitTyped, LeaseInit
    <1>2. (Typed /\ LeaseInv) /\ [Next]_vars => (Typed /\ LeaseInv)'
        BY NextTyped, LeaseNext
    <1> QED
        BY <1>1, <1>2, PTL DEF Spec

LEMMA IpsInit == Init => ActiveIpsDistinct
    BY NoRowFields DEF Init, ActiveIpsDistinct, Active

LEMMA IpsNext == Typed /\ LeaseInv /\ ActiveIpsDistinct /\ [Next]_vars => ActiveIpsDistinct'
    <1> SUFFICES ASSUME Typed, LeaseInv, ActiveIpsDistinct, [Next]_vars
                 PROVE  ActiveIpsDistinct'
        OBVIOUS
    \* A row that is Active under an address after the step held it before, or
    \* has just been allocated it.
    <1>1. ASSUME NEW g \in Guid, env'[g].status = "active", env'[g].ip # NoIp
          PROVE  (Active(g) /\ env[g].ip = env'[g].ip) \/ CreateAllocate(g)
        <2>1. RowKept(g) => Active(g) /\ env[g].ip = env'[g].ip
            BY <1>1 DEF RowKept, Active
        <2> QED
            BY <1>1, <2>1, RowStep, ReadoptRow, NoRowFields
    <1>2. ASSUME NEW g \in Guid, NEW h \in Guid, g # h, CreateAllocate(g), Active(h)
          PROVE  env'[h] = env[h] /\ env'[g].ip # env[h].ip
        BY <1>2, AllocateRow DEF FreeIps
    <1>3. ASSUME NEW g \in Guid, NEW h \in Guid, g # h,
                 env'[g].status = "active", env'[h].status = "active", env'[g].ip # NoIp
          PROVE  env'[g].ip # env'[h].ip
        <2>1. CASE env'[h].ip = NoIp
            BY <1>3, <2>1
        <2>2. CASE CreateAllocate(g) /\ env'[h].ip # NoIp
            <3>1. env'[h] = env[h]
                BY <1>3, <2>2, AllocateRow
            <3> QED
                BY <1>2, <1>3, <2>2, <3>1 DEF Active
        <2>3. CASE CreateAllocate(h)
            <3>1. env'[g] = env[g]
                BY <1>3, <2>3, AllocateRow
            <3> QED
                BY <1>2, <1>3, <2>3, <3>1 DEF Active
        <2>4. CASE /\ Active(g) /\ env[g].ip = env'[g].ip
                   /\ Active(h) /\ env[h].ip = env'[h].ip
            BY <1>3, <2>4 DEF ActiveIpsDistinct
        <2> QED
            BY <1>1, <1>3, <2>1, <2>2, <2>3, <2>4
    <1> QED
        BY <1>3 DEF ActiveIpsDistinct, Active

\* At no time do two Active rows hold one address: the transaction that picks
\* an address is the only step that gives one out, and it looks at every
\* Active row.
THEOREM AddressesDistinct == Spec => []ActiveIpsDistinct
    <1>1. Init => Typed /\ LeaseInv /\ ActiveIpsDistinct
        BY InitTyped, LeaseInit, IpsInit
    <1>2. (Typed /\ LeaseInv /\ ActiveIpsDistinct) /\ [Next]_vars
              => (Typed /\ LeaseInv /\ ActiveIpsDistinct)'
        BY NextTyped, LeaseNext, IpsNext
    <1> QED
        BY <1>1, <1>2, PTL DEF Spec

\* Two guests that are up under Active rows with addresses really have
\* different addresses: a guest has the address of its row's lease.
THEOREM GuestsDistinct == Spec => []LeasedGuestsDistinct
    <1>1. LeaseInv /\ ActiveIpsDistinct => LeasedGuestsDistinct
        BY DEF LeaseInv, LeaseOf, ActiveIpsDistinct, LeasedGuestsDistinct
    <1> QED
        BY <1>1, AlwaysLease, AddressesDistinct, PTL

\* A row's identity, address and creation never change, and a row that has
\* left Active never returns to it: only a create allocates, once, before its
\* row exists, and only an orphan without a row is re-adopted.
THEOREM HistoryIsKept == Spec => HistoryKept
    <1>1. ASSUME Typed, LeaseInv, [Next]_vars, NEW g \in Guid,
                 Present(g), env'[g].status # "absent"
          PROVE  /\ ~Active(g) => env'[g].status # "active"
                 /\ env'[g].owner = env[g].owner /\ env'[g].name = env[g].name
                 /\ env'[g].ip = env[g].ip /\ env'[g].created = env[g].created
        <2>1. ~CreateAllocate(g)
            BY <1>1, AllocateRow DEF LeaseInv, LeaseOf
        <2>2. RowKept(g)
            BY <1>1, <2>1, RowStep, ReadoptRow, NoRowFields
        <2> QED
            BY <2>2 DEF RowKept, Active
    <1> DEFINE kept == \A g \in Guid : Present(g) /\ env'[g].status # "absent" =>
                          /\ ~Active(g) => env'[g].status # "active"
                          /\ env'[g].owner = env[g].owner /\ env'[g].name = env[g].name
                          /\ env'[g].ip = env[g].ip /\ env'[g].created = env[g].created
    <1>2. Typed /\ LeaseInv /\ [Next]_vars => [kept]_vars
        BY <1>1
    <1>3. [][kept]_vars => HistoryKept
        BY PTL DEF HistoryKept
    <1> HIDE DEF kept
    <1> QED
        BY <1>2, <1>3, AlwaysLease, PTL DEF Spec

-----------------------------------------------------------------------------
(* The herd cap, the deadline and the two conditions of a reap.            *)

LEMMA HerdNext == Typed /\ HerdCapHeld /\ [Next]_vars => HerdCapHeld'
    <1> DEFINE HeldBy(s) ==
            HerdCap # 0 => sweep[s].reaped + (IF sweep[s].at = "mark" THEN 1 ELSE 0) <= HerdCap
    <1> SUFFICES ASSUME Typed, [Next]_vars, NEW s \in Sweeper, HeldBy(s)
                 PROVE  HeldBy(s)'
        BY DEF HerdCapHeld
    <1>0. /\ sweep[s] \in SweepLocals /\ sweep \in [Sweeper -> SweepLocals]
          /\ sweep[s].reaped \in Nat
          /\ HerdCap \in Nat
        BY ConstantsNat DEF Typed, TypeOK, SweepLocals
    <1>1. CASE sweep'[s] = sweep[s]
        BY <1>1
    <1>2. CASE sweep'[s] = IdleSweep
        BY <1>0, <1>2, IdleSweepFields
    <1>3. CASE SweepBegin(s)
        <2>1. sweep'[s].at = "list" /\ sweep'[s].reaped = 0
            BY <1>3, BeginFields
        <2> QED
            BY <1>0, <2>1
    <1>4. CASE SweepKill(s)
        <2>1. /\ sweep[s].at = "judge" /\ UnderHerdCap(sweep[s].reaped)
              /\ sweep'[s].at = "mark" /\ sweep'[s].reaped = sweep[s].reaped
            BY <1>0, <1>4 DEF SweepKill, Judging, ToReap, SweepLocals
        <2> QED
            BY <1>0, <2>1 DEF UnderHerdCap
    <1>5. CASE SweepMark(s) /\ sweep'[s] # IdleSweep
        <2>1. /\ sweep[s].at = "mark"
              /\ sweep'[s].at = "scan" /\ sweep'[s].reaped = sweep[s].reaped + 1
            BY <1>0, <1>5 DEF SweepMark, SweepLocals
        <2> QED
            BY <1>0, <2>1
    <1>6. ASSUME SweepStep(s), ~SweepBegin(s), ~SweepKill(s), ~SweepMark(s)
          PROVE  sweep'[s] = IdleSweep
                 \/ (sweep'[s].reaped = sweep[s].reaped /\ sweep'[s].at # "mark")
        <2>1. ASSUME NEW g \in Guid, SweepJoin(s, g) \/ SweepVanish(s, g) \/ SweepVanishFail(s, g)
              PROVE  sweep'[s].reaped = sweep[s].reaped /\ sweep'[s].at # "mark"
            BY <1>0, <2>1 DEF SweepJoin, SweepVanish, SweepVanishFail, SweepLocals
        <2>2. SweepList(s) \/ SweepPass(s) \/ SweepReadopt(s) \/ SweepKillFail(s)
                 \/ SweepQuorumLost(s) \/ SweepMissing(s)
              => sweep'[s].reaped = sweep[s].reaped /\ sweep'[s].at # "mark"
            BY <1>0 DEF SweepList, SweepPass, SweepReadopt, SweepKillFail, SweepQuorumLost, SweepMissing,
                        SweepLocals
        <2>3. SweepEnd(s) \/ SweepCrash(s) => sweep'[s] = IdleSweep
            BY <1>0 DEF SweepEnd, SweepCrash
        <2> QED
            BY <1>6, <2>1, <2>2, <2>3 DEF SweepStep
    <1>7. CASE sweep'[s].reaped = sweep[s].reaped /\ sweep'[s].at # "mark"
        BY <1>0, <1>7
    <1> HIDE DEF HeldBy
    <1> QED
        BY <1>1, <1>2, <1>3, <1>4, <1>5, <1>6, <1>7, SweepChange

\* No sweep ever tears down more than HerdCap guests.
THEOREM HerdCapIsHeld == Spec => []HerdCapHeld
    <1>1. Init => HerdCapHeld
        BY IdleSweepFields, ConstantsNat DEF Init, HerdCapHeld
    <1> QED
        BY <1>1, HerdNext, AlwaysTyped, PTL DEF Spec

\* A sweep's clock reading lies in the past.
ReadPast == \A s \in Sweeper : sweep[s].now <= clock

LEMMA ClockStep ==
    ASSUME Typed, [Next]_vars
    PROVE  clock \in Nat /\ clock' \in Nat /\ clock <= clock'
    BY TickOnly DEF Tick, Typed, TypeOK

LEMMA ReadPastNext == Typed /\ ReadPast /\ [Next]_vars => ReadPast'
    <1> SUFFICES ASSUME Typed, ReadPast, [Next]_vars, NEW s \in Sweeper
                 PROVE  sweep'[s].now <= clock'
        BY DEF ReadPast
    <1>0. sweep[s].now \in Nat /\ sweep[s].now <= clock
        BY DEF Typed, TypeOK, SweepLocals, ReadPast
    <1>1. clock \in Nat /\ clock' \in Nat /\ clock <= clock'
        BY ClockStep
    <1>2. SweepBegin(s) => sweep'[s].now = clock
        BY BeginFields
    <1>3. Scans(s) \/ SweepList(s) => sweep'[s].now = sweep[s].now
        BY ListFields DEF Scans
    <1> QED
        BY <1>0, <1>1, <1>2, <1>3, ScanStep, IdleSweepFields

Bounds == Typed /\ LeaseInv /\ ReadPast

\* What create has computed for its row.
DraftOf(g) ==
    create[g].at = "checked" =>
        /\ create[g].row.created <= clock
        /\ create[g].row.created <= create[g].row.deadline
        /\ create[g].row.deadline <= create[g].row.created + MaxTtl

\* What an extend has in hand is the creation of a row with an address, if the
\* guid has one: a guid is leased an address once, before any extend finds it.
ExtendOf(x) ==
    LET g == extend[x].guid IN
    extend[x].at # "idle" =>
        /\ create[g].at \notin {"new", "checked"}
        /\ extend[x].at = "write" =>
              /\ extend[x].created <= clock
              /\ env[g].ip # NoIp => extend[x].created = env[g].created

DeadlineInv ==
    /\ DeadlineBounded
    /\ \A g \in Guid : DraftOf(g) /\ env[g].created <= clock
    /\ \A x \in Extender : ExtendOf(x)

LEMMA DeadlineInit == Init => DeadlineInv
    <1> SUFFICES ASSUME Init PROVE DeadlineInv
        OBVIOUS
    <1>1. \A g \in Guid : /\ env[g].status = "absent" /\ env[g].created = 0
                          /\ create[g].at = "new"
        BY DEF Init, NoRow
    <1>2. \A x \in Extender : extend[x].at = "idle"
        BY DEF Init, IdleExtend
    <1>3. clock = 0
        BY DEF Init
    <1> QED
        BY <1>1, <1>2, <1>3 DEF DeadlineInv, DeadlineBounded, DraftOf, ExtendOf, Present

LEMMA DraftNext ==
    ASSUME Typed, [Next]_vars, NEW g \in Guid, DraftOf(g)
    PROVE  DraftOf(g)'
    <1>0. create[g].row.created \in Nat /\ clock \in Nat /\ clock' \in Nat /\ clock <= clock'
        BY ClockStep DEF Typed, TypeOK, CreateLocals, Row
    <1>1. CASE create'[g] = create[g]
        BY <1>0, <1>1 DEF DraftOf
    <1>2. ASSUME NEW o \in Owner, NEW m \in Mode, NEW ttl \in Ttl, CreateCheck(g, o, m, ttl)
          PROVE  DraftOf(g)'
        <2>1. /\ create'[g].row.created = clock
              /\ create'[g].row.deadline = clock + Lesser(ttl, MaxTtl)
            BY <1>2 DEF CreateCheck, Typed, TypeOK
        <2>2. clock <= clock + Lesser(ttl, MaxTtl) /\ clock + Lesser(ttl, MaxTtl) <= clock + MaxTtl
            BY <1>0, ConstantsNat DEF Lesser
        <2> QED
            BY <1>0, <2>1, <2>2 DEF DraftOf
    <1> QED
        BY <1>1, <1>2, CreateOrder DEF DraftOf

LEMMA CreatedNext ==
    ASSUME Bounds, [Next]_vars, NEW g \in Guid, DraftOf(g), env[g].created <= clock
    PROVE  env'[g].created <= clock'
    <1>0. env[g].created \in Nat /\ clock \in Nat /\ clock' \in Nat /\ clock <= clock'
        BY ClockStep DEF Bounds, Typed, TypeOK, Row
    <1>1. CASE RowKept(g)
        BY <1>0, <1>1 DEF RowKept
    <1>2. CASE env'[g] = NoRow
        BY <1>0, <1>2, NoRowFields
    <1>3. CASE CreateAllocate(g)
        BY <1>3, AllocateRow DEF DraftOf, Bounds
    <1>4. CASE Readopts(g)
        BY <1>4, ReadoptRow DEF Bounds, ReadPast
    <1> QED
        BY <1>1, <1>2, <1>3, <1>4, RowStep DEF Bounds

\* A row that has an address after a step had it before, with its creation, or
\* has just been allocated it.
LEMMA AddressStays ==
    ASSUME Bounds, [Next]_vars, NEW g \in Guid, env'[g].ip # NoIp, ~CreateAllocate(g)
    PROVE  env[g].ip # NoIp /\ env'[g].created = env[g].created
    BY RowStep, ReadoptRow, NoRowFields DEF Bounds, RowKept

LEMMA ExtendNext ==
    ASSUME Bounds, DeadlineInv, [Next]_vars, NEW x \in Extender
    PROVE  ExtendOf(x)'
    <1> DEFINE g == extend[x].guid
    <1>0. /\ Typed /\ ExtendOf(x) /\ extend[x] \in ExtendLocals /\ extend \in [Extender -> ExtendLocals]
          /\ clock \in Nat /\ clock' \in Nat /\ clock <= clock'
        BY ClockStep DEF Bounds, DeadlineInv, Typed, TypeOK
    <1>1. ASSUME NEW h \in Guid, create[h].at \notin {"new", "checked"}
          PROVE  create'[h].at \notin {"new", "checked"} /\ ~CreateAllocate(h)
        BY <1>0, <1>1, CreateOrder, AllocateRow DEF CreateCheck
    <1>2. ASSUME NEW h \in Guid, NEW o \in Owner, NEW add \in Extension, ExtendRead(x, h, o, add)
          PROVE  ExtendOf(x)'
        <2>1. extend'[x].guid = h /\ extend'[x].at = "select" /\ create' = create /\ Present(h)
            BY <1>0, <1>2 DEF ExtendRead
        <2>2. create[h].at \notin {"new", "checked"}
            BY <2>1 DEF Bounds, LeaseInv, LeaseOf
        <2> QED
            BY <2>1, <2>2 DEF ExtendOf
    <1>3. CASE ExtendSelect(x) /\ Present(g)
        <2>1. /\ extend[x].at = "select" /\ extend'[x].at = "write" /\ extend'[x].guid = g
              /\ extend'[x].created = env[g].created
              /\ UNCHANGED <<clock, env, create>>
            BY <1>0, <1>3 DEF ExtendSelect, ExtendLocals
        <2>2. g \in Guid
            BY <2>1 DEF Bounds, Typed, TargetsOK
        <2> QED
            BY <1>0, <2>1, <2>2 DEF ExtendOf, DeadlineInv
    <1>4. CASE extend'[x].at = "idle"
        BY <1>4 DEF ExtendOf
    <1>5. CASE extend'[x] = extend[x] /\ extend[x].at # "idle"
        <2>1. g \in Guid /\ create[g].at \notin {"new", "checked"} /\ extend[x].created \in Nat
            BY <1>0, <1>5 DEF ExtendOf, ExtendLocals, Bounds, Typed, TargetsOK
        <2>2. create'[g].at \notin {"new", "checked"} /\ ~CreateAllocate(g)
            BY <1>1, <2>1
        <2>3. env'[g].ip # NoIp => env[g].ip # NoIp /\ env'[g].created = env[g].created
            BY <2>1, <2>2, AddressStays
        <2> QED
            BY <1>0, <1>5, <2>1, <2>2, <2>3 DEF ExtendOf
    <1>6. ExtendWrite(x) \/ (ExtendSelect(x) /\ ~Present(g)) => extend'[x].at = "idle"
        BY <1>0 DEF ExtendWrite, ExtendSelect, IdleExtend
    <1> QED
        BY <1>0, <1>2, <1>3, <1>4, <1>5, <1>6, ExtendChange DEF ExtendStep

\* Whatever deadline an extend writes.
LEMMA ExtendedDeadline ==
    ASSUME Bounds, DeadlineInv, NEW g \in Guid, Extends(g)
    PROVE  /\ env'[g].deadline \in Nat /\ env'[g].deadline <= clock + MaxTtl
           /\ env[g].ip # NoIp => /\ env[g].created <= env'[g].deadline
                                  /\ env'[g].deadline <= env[g].created + MaxTtl
    <1>1. PICK x \in Extender : /\ ExtendWrite(x) /\ extend[x].guid = g
                                /\ env'[g].deadline = Clamped(extend[x].asked, extend[x].created)
        BY DEF Extends
    <1>2. extend[x].asked \in Nat /\ extend[x].created \in Nat /\ clock \in Nat
        BY DEF Bounds, Typed, TypeOK, ExtendLocals
    <1>3. /\ extend[x].created <= clock
          /\ env[g].ip # NoIp => extend[x].created = env[g].created
        BY <1>1 DEF ExtendWrite, DeadlineInv, ExtendOf
    <1> DEFINE d == env'[g].deadline
    <1>4. d \in Nat /\ extend[x].created <= d /\ d <= extend[x].created + MaxTtl
        BY <1>1, <1>2, ClampedInRange
    <1> HIDE DEF d
    <1>5. d <= clock + MaxTtl
        BY <1>2, <1>3, <1>4, ConstantsNat
    <1> QED
        BY <1>3, <1>4, <1>5 DEF d

LEMMA DeadlineNext == Bounds /\ DeadlineInv /\ [Next]_vars => DeadlineInv'
    <1> SUFFICES ASSUME Bounds, DeadlineInv, [Next]_vars PROVE DeadlineInv'
        OBVIOUS
    <1>0. Typed
        BY DEF Bounds
    <1>1. ASSUME NEW g \in Guid PROVE DraftOf(g)' /\ env'[g].created <= clock'
        BY <1>0, DraftNext, CreatedNext DEF DeadlineInv
    <1>2. ASSUME DefaultTtl <= MaxTtl, NEW g \in Guid, env'[g].status # "absent"
          PROVE  /\ env'[g].deadline <= clock' + MaxTtl
                 /\ env'[g].ip # NoIp =>
                       env'[g].deadline \in env'[g].created .. env'[g].created + MaxTtl
        <2>0. /\ clock \in Nat /\ clock' \in Nat /\ clock <= clock'
              /\ env[g].created \in Nat /\ env[g].deadline \in Nat
              /\ env'[g].created \in Nat /\ env'[g].deadline \in Nat
            BY <1>0, ClockStep, NextTyped DEF Typed, TypeOK, Row
        <2>1. CASE RowKept(g)
            <3>1. Present(g) /\ env'[g].created = env[g].created /\ env'[g].ip = env[g].ip
                BY <1>2, <2>1 DEF RowKept, Present
            <3>2. CASE env'[g].deadline = env[g].deadline
                <4>1. /\ env[g].deadline <= clock + MaxTtl
                      /\ env[g].ip # NoIp => env[g].deadline \in env[g].created .. env[g].created + MaxTtl
                    BY <1>2, <3>1 DEF DeadlineInv, DeadlineBounded
                <4> QED
                    BY <2>0, <3>1, <3>2, <4>1, ConstantsNat
            <3>3. CASE Extends(g)
                BY <2>0, <3>1, <3>3, ExtendedDeadline, ConstantsNat
            <3> QED
                BY <2>1, <3>2, <3>3 DEF RowKept
        <2>2. CASE CreateAllocate(g)
            <3>1. /\ env'[g].created = create[g].row.created
                  /\ env'[g].deadline = create[g].row.deadline /\ DraftOf(g)
                  /\ create[g].at = "checked"
                BY <1>0, <2>2, AllocateRow DEF DeadlineInv
            <3>2. /\ env'[g].created <= clock /\ env'[g].created <= env'[g].deadline
                  /\ env'[g].deadline <= env'[g].created + MaxTtl
                BY <3>1 DEF DraftOf
            <3> QED
                BY <2>0, <3>2, ConstantsNat
        <2>3. CASE Readopts(g)
            <3>1. /\ env'[g].created <= clock /\ env'[g].ip = NoIp
                  /\ env'[g].deadline = env'[g].created + DefaultTtl
                BY <2>3, ReadoptRow DEF Bounds, ReadPast
            <3> QED
                BY <1>2, <2>0, <3>1, ConstantsNat
        <2> QED
            BY <1>0, <1>2, <2>1, <2>2, <2>3, RowStep, NoRowFields
    <1>3. DeadlineBounded'
        BY <1>2 DEF DeadlineBounded, Present
    <1> QED
        BY <1>1, <1>3, ExtendNext DEF DeadlineInv

LEMMA AlwaysDeadline == Spec => [](Bounds /\ DeadlineInv)
    <1>1. Init => Bounds /\ DeadlineInv
        BY InitTyped, LeaseInit, DeadlineInit, IdleSweepFields DEF Bounds, Init, ReadPast
    <1>2. (Bounds /\ DeadlineInv) /\ [Next]_vars => (Bounds /\ DeadlineInv)'
        BY NextTyped, LeaseNext, ReadPastNext, DeadlineNext DEF Bounds
    <1> QED
        BY <1>1, <1>2, PTL DEF Spec

\* Where default_ttl is below max_ttl, no deadline is ever more than MaxTtl
\* ahead of the clock, and that of a row with an address stays within MaxTtl of
\* its creation, however extends, prunes and re-adoptions interleave.
THEOREM DeadlineIsBounded == Spec => []DeadlineBounded
    <1>1. DeadlineInv => DeadlineBounded
        BY DEF DeadlineInv
    <1> QED
        BY <1>1, AlwaysDeadline, PTL

\* The step that tears a guest down in a sweep.
LEMMA ReapStep ==
    ASSUME Typed, [Next]_vars, NEW s \in Sweeper, NEW g \in Guid, Reaps(s, g)
    PROVE  ToReap(s) /\ Teardown(g, Signals(s).name)
    <1>1. SweepStep(s)
        BY SweepChange DEF Reaps
    <1>2. ~(live' = live)
        BY DEF Reaps
    <1>3. SweepKill(s) \/ SweepKillFail(s)
        BY <1>1, <1>2 DEF SweepStep, SweepBegin, SweepList, SweepJoin, SweepVanish, SweepVanishFail, SweepPass,
              SweepReadopt, SweepQuorumLost, SweepMark, SweepMissing, SweepEnd, SweepCrash
    <1> QED
        BY <1>2, <1>3 DEF Reaps, SweepKill, SweepKillFail

\* A guest that a sweep tears down while its row is as the sweep read it is
\* past the age floor and its deadline.
THEOREM ReapsAreOverdue == Spec => ReapOnlyOverdue
    <1> DEFINE overdue == \A s \in Sweeper, g \in Guid :
            Reaps(s, g) /\ env[g] = sweep[s].row =>
                clock >= env[g].created + AgeFloor /\ clock >= env[g].deadline
    <1>1. ASSUME Typed, ReadPast, [Next]_vars, NEW s \in Sweeper, NEW g \in Guid,
                 Reaps(s, g), env[g] = sweep[s].row
          PROVE  clock >= env[g].created + AgeFloor /\ clock >= env[g].deadline
        <2>1. Due(env[g], sweep[s].now)
            BY <1>1, ReapStep DEF ToReap
        <2>2. /\ clock \in Nat /\ sweep[s].now \in Nat /\ sweep[s].now <= clock
              /\ env[g].created \in Nat /\ env[g].deadline \in Nat
            BY <1>1 DEF Typed, TypeOK, SweepLocals, Row, ReadPast
        <2> QED
            BY <2>1, <2>2, ConstantsNat DEF Due
    <1>2. Typed /\ ReadPast /\ [Next]_vars => [overdue]_vars
        BY <1>1
    <1>3. [][overdue]_vars => ReapOnlyOverdue
        BY PTL DEF ReapOnlyOverdue
    <1>4. Init => ReadPast
        BY IdleSweepFields DEF Init, ReadPast
    <1> HIDE DEF overdue
    <1> QED
        BY <1>2, <1>3, <1>4, ReadPastNext, AlwaysTyped, PTL DEF Spec

\* A guest that a sweep tears down while its row is as the sweep read it has
\* the row's name, and was listed with no MAC that contradicts the row.
THEOREM ReapsAreConfirmed == Spec => ReapOnlyConfirmed
    <1> DEFINE confirmed == \A s \in Sweeper, g \in Guid :
            Reaps(s, g) /\ env[g] = sweep[s].row =>
                /\ live[g].name = env[g].name
                /\ sweep[s].seen[g].mac # "" /\ env[g].mac # ""
                      => sweep[s].seen[g].mac = env[g].mac
    <1>1. Typed /\ [Next]_vars => [confirmed]_vars
        BY ReapStep, ZenonT(40) DEF Reaps, Teardown, ToReap, ReapEligible, Anomaly, Signals
    <1>2. [][confirmed]_vars => ReapOnlyConfirmed
        BY PTL DEF ReapOnlyConfirmed
    <1> HIDE DEF confirmed
    <1> QED
        BY <1>1, <1>2, AlwaysTyped, PTL DEF Spec

-----------------------------------------------------------------------------
(* The create window.  A row that a sweep finds old enough to be vanished, *)
(* and whose guest it has not listed, has no guest and never gets one: its *)
(* create is over, by the clock, before the sweep listed the instances.    *)

\* A create that may still get its guest is younger than ProvisionTime, and its
\* row, if it still has one, is as old as it says.
WindowOf(g) ==
    /\ Underway(g) => clock <= create[g].row.created + ProvisionTime
    /\ Pending(g) /\ Present(g) => env[g].created = create[g].row.created

\* A sweep has its list within ListTime.
ListWindow(s) == sweep[s].at = "list" => clock <= sweep[s].now + ListTime

NeverUp(g) == ~live[g].up /\ ~PreGuest(g)

GoneOf(s, g) ==
    /\ /\ Listed(s) /\ ~sweep[s].seen[g].up
       /\ Present(g) /\ sweep[s].now - env[g].created >= AgeFloor
       => NeverUp(g)
    /\ g \in sweep[s].gone => NeverUp(g)
    /\ \A t \in Sweeper :
          /\ Listed(s) /\ ~sweep[s].seen[g].up
          /\ sweep[t].seen[g].up /\ sweep[s].now - sweep[t].now >= AgeFloor
          => NeverUp(g)

LEMMA WindowNext ==
    ASSUME Bounds, [Next]_vars, NEW g \in Guid, WindowOf(g)
    PROVE  WindowOf(g)'
    <1> USE DEF Bounds
    <1>0. /\ clock \in Nat /\ ProvisionTime \in Nat
          /\ create \in [Guid -> CreateLocals] /\ create[g].row.created \in Nat
        BY ConstantsNat DEF Typed, TypeOK, CreateLocals, Row
    <1>1. ASSUME create'[g].row = create[g].row, Underway(g)
          PROVE  clock' <= create'[g].row.created + ProvisionTime
        <2>1. CASE clock' = clock
            BY <1>1, <2>1 DEF WindowOf
        <2>2. CASE clock' # clock
            <3>1. Tick
                BY <2>2, TickOnly
            <3> QED
                BY <1>0, <1>1, <3>1 DEF Tick
        <2> QED
            BY <2>1, <2>2
    <1>2. ASSUME NEW o \in Owner, NEW m \in Mode, NEW ttl \in Ttl, CreateCheck(g, o, m, ttl)
          PROVE  create'[g].row.created = clock /\ clock' = clock
        BY <1>0, <1>2 DEF CreateCheck
    <1>3. Underway(g)' => clock' <= create'[g].row.created + ProvisionTime
        <2>1. CASE CreateAllocate(g)
            BY <2>1, AllocateRow DEF WindowOf, Underway
        <2>2. CASE create'[g].at = "checked"
            BY <1>0, <1>1, <1>2, <2>2, CreateOrder DEF Underway
        <2>3. CASE Pending(g)' /\ ~CreateAllocate(g)
            BY <1>1, <2>3, CreateOrder DEF Underway, Pending
        <2> QED
            BY <2>1, <2>2, <2>3 DEF Underway, Pending
    <1>4. Pending(g)' /\ env'[g].status # "absent" => env'[g].created = create'[g].row.created
        <2>1. CASE CreateAllocate(g)
            BY <2>1, AllocateRow
        <2>2. CASE ~CreateAllocate(g) /\ create'[g].row = create[g].row /\ Pending(g)
            <3>1. ~Readopts(g)
                BY <2>2, ReadoptRow DEF PreGuest, Pending
            <3>2. RowKept(g) /\ env'[g].status # "absent" =>
                     Present(g) /\ env'[g].created = env[g].created
                BY DEF RowKept, Present
            <3> QED
                BY <2>2, <3>1, <3>2, RowStep, NoRowFields DEF WindowOf
        <2> QED
            BY <2>1, <2>2, CreateOrder
    <1> QED
        BY <1>3, <1>4 DEF WindowOf, Present

LEMMA ListWindowNext ==
    ASSUME Typed, [Next]_vars, NEW s \in Sweeper, ListWindow(s)
    PROVE  ListWindow(s)'
    <1>0. /\ clock \in Nat /\ ListTime \in Nat /\ sweep[s].now \in Nat
          /\ sweep \in [Sweeper -> SweepLocals]
        BY ConstantsNat DEF Typed, TypeOK, SweepLocals
    <1>1. CASE SweepBegin(s)
        BY <1>0, <1>1, BeginFields DEF ListWindow
    <1>2. CASE sweep'[s] = sweep[s] /\ clock' = clock
        BY <1>2 DEF ListWindow
    <1>3. CASE sweep'[s] = sweep[s] /\ Tick
        BY <1>0, <1>3 DEF ListWindow, Tick
    <1>4. Scans(s) => sweep'[s].at # "list"
        <2>1. Scans(s) => SweepStep(s) \/ sweep'[s] = sweep[s]
            BY SweepChange
        <2>2. ASSUME NEW g \in Guid, SweepJoin(s, g) \/ SweepVanish(s, g) \/ SweepVanishFail(s, g)
              PROVE  sweep'[s].at # "list"
            BY <1>0, <2>2 DEF SweepJoin, SweepVanish, SweepVanishFail, SweepLocals
        <2>3. SweepPass(s) \/ SweepReadopt(s) \/ SweepKill(s) \/ SweepKillFail(s)
                 \/ SweepQuorumLost(s) \/ SweepMissing(s) => sweep'[s].at # "list"
            BY <1>0 DEF SweepPass, SweepReadopt, SweepKill, SweepKillFail, SweepQuorumLost,
                        SweepMissing, SweepLocals
        <2>4. SweepMark(s) \/ SweepEnd(s) \/ SweepCrash(s) => sweep'[s].at # "list"
            BY <1>0, IdleSweepFields DEF SweepMark, SweepEnd, SweepCrash, SweepLocals
        <2>5. SweepBegin(s) \/ SweepList(s) => ~Listed(s)
            BY DEF SweepBegin, SweepList, Listed
        <2>6. sweep'[s] = sweep[s] /\ Listed(s) => sweep'[s].at # "list"
            BY DEF Listed
        <2> QED
            BY <2>1, <2>2, <2>3, <2>4, <2>5, <2>6 DEF SweepStep, Scans
    <1>5. CASE sweep'[s] = IdleSweep \/ SweepList(s) \/ Scans(s)
        BY <1>4, <1>5, IdleSweepFields, ListFields DEF ListWindow
    <1> QED
        BY <1>1, <1>2, <1>3, <1>5, ScanStep, TickOnly

LEMMA NeverUpStays ==
    ASSUME Typed, [Next]_vars, NEW g \in Guid, NeverUp(g)
    PROVE  NeverUp(g)'
    BY CreateOrder, GuestStep DEF NeverUp, Builds, Provision, LateEnd, PreGuest

\* A sweep lists the instances.
LEMMA GoneList ==
    ASSUME ProvisionTime < AgeFloor, ListTime < AgeFloor, Bounds, [Next]_vars,
           NEW s \in Sweeper, NEW g \in Guid, WindowOf(g), SweepList(s), g \notin sweep[s].gone
    PROVE  GoneOf(s, g)'
    <1> USE DEF Bounds
    <1>0. /\ clock \in Nat /\ ProvisionTime \in Nat /\ AgeFloor \in Nat
          /\ \A t \in Sweeper : sweep[t].now \in Nat /\ sweep[t].now <= clock
          /\ LeaseOf(g) /\ \A t \in Sweeper : ListOf(t)
          /\ env[g].created \in Nat /\ create[g].row.created \in Nat
        BY ConstantsNat DEF Typed, TypeOK, CreateLocals, SweepLocals, Row, ReadPast, LeaseInv
    <1>1. /\ sweep'[s].seen = live /\ sweep'[s].now = sweep[s].now /\ g \notin sweep'[s].gone
          /\ UNCHANGED <<clock, env, live, create>>
          /\ \A t \in Sweeper : t # s => sweep'[t] = sweep[t]
        BY ListFields
    <1>2. ASSUME ~live[g].up, Present(g), sweep[s].now - env[g].created >= AgeFloor
          PROVE  ~PreGuest(g)
        <2>1. CASE create[g].at \in {"new", "checked"}
            BY <1>0, <1>2, <2>1 DEF LeaseOf
        <2>2. CASE Pending(g)
            <3>1. /\ clock <= create[g].row.created + ProvisionTime
                  /\ env[g].created = create[g].row.created
                BY <1>2, <2>2 DEF WindowOf, Underway, Pending
            <3> QED
                BY <1>0, <1>2, <3>1
        <2> QED
            BY <2>1, <2>2 DEF PreGuest, Pending
    <1>3. ASSUME NEW t \in Sweeper, ~live[g].up, sweep'[t].seen[g].up
          PROVE  ~PreGuest(g)
        <2>1. sweep[t].seen[g].up
            BY <1>1, <1>3
        <2> QED
            BY <1>0, <2>1 DEF ListOf
    <1>4. NeverUp(g)' <=> NeverUp(g)
        BY <1>1 DEF NeverUp, PreGuest
    <1>5. Present(g)' <=> Present(g)
        BY <1>1 DEF Present
    <1> QED
        BY <1>1, <1>2, <1>3, <1>4, <1>5 DEF GoneOf, NeverUp

LEMMA GoneNext ==
    ASSUME ProvisionTime < AgeFloor, ListTime < AgeFloor, Bounds, [Next]_vars,
           NEW s \in Sweeper, NEW g \in Guid, WindowOf(g), \A t \in Sweeper : ListWindow(t),
           GoneOf(s, g)
    PROVE  GoneOf(s, g)'
    <1> USE DEF Bounds
    <1>0. /\ clock \in Nat /\ ProvisionTime \in Nat /\ AgeFloor \in Nat /\ ListTime \in Nat
          /\ \A t \in Sweeper : sweep[t].now \in Nat /\ sweep[t].now <= clock
          /\ env[g].created \in Nat /\ create[g].row.created \in Nat
        BY ConstantsNat DEF Typed, TypeOK, CreateLocals, SweepLocals, Row, ReadPast
    <1>1. CASE NeverUp(g)
        BY <1>1, NeverUpStays DEF GoneOf
    <1>2. CASE ~NeverUp(g)
        \* What the sweep has in its hands after the step.
        <2>1. CASE SweepList(s)
            BY <1>2, <2>1, GoneList DEF GoneOf
        <2>2. CASE ~SweepList(s)
            <3>0. SweepBegin(s) => ~Listed(s)' /\ sweep'[s].gone = {}
                BY BeginFields DEF Listed
            <3>1. Listed(s)' =>
                     /\ Listed(s)
                     /\ sweep'[s].seen = sweep[s].seen /\ sweep'[s].now = sweep[s].now
                BY <2>2, <3>0, ScanStep, IdleSweepFields DEF Scans, Listed
            <3>2. g \notin sweep'[s].gone
                <4>1. CASE SweepMissing(s)
                    BY <1>2, <4>1 DEF SweepMissing, GoneOf, Listed, Active, Present, Typed, TypeOK,
                                      SweepLocals
                <4> QED
                    BY <1>2, <2>2, <3>0, <4>1, ScanStep, IdleSweepFields DEF Scans, GoneOf
            <3>3. ASSUME NEW t \in Sweeper, Listed(s)', ~sweep'[s].seen[g].up,
                         sweep'[t].seen[g].up, sweep'[s].now - sweep'[t].now >= AgeFloor
                  PROVE  FALSE
                <4>1. CASE SweepList(t)
                    <5>1. sweep'[t].now = sweep[t].now /\ clock <= sweep[t].now + ListTime
                        BY <4>1, ListFields DEF ListWindow
                    <5> QED
                        BY <1>0, <3>1, <3>3, <5>1
                <4>2. CASE sweep'[t].seen = sweep[t].seen /\ sweep'[t].now = sweep[t].now
                    BY <1>2, <3>1, <3>3, <4>2 DEF GoneOf
                <4>3. SweepBegin(t) => ~sweep'[t].seen[g].up
                    BY BeginFields
                <4> QED
                    BY <3>3, <4>1, <4>2, <4>3, ScanStep, IdleSweepFields DEF Scans
            <3>4. ASSUME Listed(s)', ~sweep'[s].seen[g].up,
                         env'[g].status # "absent", sweep'[s].now - env'[g].created >= AgeFloor
                  PROVE  FALSE
                <4>1. CASE RowKept(g)
                    <5>1. Present(g) /\ env'[g].created = env[g].created
                        BY <3>4, <4>1 DEF RowKept, Present
                    <5> QED
                        BY <1>2, <3>1, <3>4, <5>1 DEF GoneOf
                <4>2. CASE CreateAllocate(g)
                    <5>1. create[g].at = "checked" /\ env'[g].created = create[g].row.created
                        BY <4>2, AllocateRow
                    <5>2. clock <= create[g].row.created + ProvisionTime
                        BY <5>1 DEF WindowOf, Underway
                    <5> QED
                        BY <1>0, <3>1, <3>4, <5>1, <5>2
                <4>3. CASE Readopts(g)
                    <5>1. PICK t \in Sweeper : sweep[t].seen[g].up /\ env'[g].created = sweep[t].now
                        BY <4>3, ReadoptRow
                    <5>2. sweep[s].now - sweep[t].now >= AgeFloor
                        BY <1>0, <3>1, <3>4, <5>1
                    <5> QED
                        BY <1>2, <3>1, <3>4, <5>1, <5>2 DEF GoneOf
                <4> QED
                    BY <3>4, <4>1, <4>2, <4>3, RowStep, NoRowFields
            <3> QED
                BY <3>2, <3>3, <3>4 DEF GoneOf, Present
        <2> QED
            BY <2>1, <2>2
    <1> QED
        BY <1>1, <1>2

\* A row that the vanished pass retires has no guest: where every create has
\* its guest within less than the age floor, and every sweep its list, the pass
\* never takes a guest that is still on its way for one that is gone.
THEOREM VanishedAreGone == Spec => VanishOnlyGone
    <1> DEFINE windows == /\ \A g \in Guid : WindowOf(g)
                          /\ \A s \in Sweeper : ListWindow(s)
    <1> DEFINE gone == ProvisionTime < AgeFloor /\ ListTime < AgeFloor =>
                          \A s \in Sweeper, g \in Guid : GoneOf(s, g)
    <1> DEFINE vanishes == \A s \in Sweeper, g \in Guid :
            /\ ProvisionTime < AgeFloor /\ ListTime < AgeFloor
            /\ sweep[s].at = "vanish" /\ sweep'[s] # sweep[s]
            /\ env[g].status # env'[g].status
            /\ env'[g].status = "vanished"
            => ~live[g].up
    <1>1. Init => Bounds /\ windows /\ gone
        <2> SUFFICES ASSUME Init PROVE Bounds /\ windows /\ gone
            OBVIOUS
        <2>1. Bounds
            BY InitTyped, LeaseInit, IdleSweepFields DEF Bounds, Init, ReadPast
        <2>2. \A g \in Guid : create[g].at = "new"
            BY DEF Init
        <2>3. \A s \in Sweeper : sweep[s] = IdleSweep
            BY DEF Init
        <2> QED
            BY <2>1, <2>2, <2>3, IdleSweepFields
               DEF WindowOf, ListWindow, GoneOf, Underway, Pending, Listed
    <1>2. Bounds /\ windows /\ gone /\ [Next]_vars => (Bounds /\ windows /\ gone)'
        <2>1. Bounds /\ [Next]_vars => Bounds'
            BY NextTyped, LeaseNext, ReadPastNext DEF Bounds
        <2>2. Bounds /\ windows /\ [Next]_vars => windows'
            BY WindowNext, ListWindowNext DEF Bounds
        <2>3. Bounds /\ windows /\ gone /\ [Next]_vars => gone'
            BY GoneNext
        <2> QED
            BY <2>1, <2>2, <2>3
    <1>3. Bounds /\ windows /\ gone /\ [Next]_vars => [vanishes]_vars
        <2> SUFFICES ASSUME Bounds, gone, [Next]_vars, NEW s \in Sweeper, NEW g \in Guid,
                            ProvisionTime < AgeFloor, ListTime < AgeFloor,
                            sweep[s].at = "vanish", sweep'[s] # sweep[s],
                            env[g].status # env'[g].status, env'[g].status = "vanished"
                     PROVE  ~live[g].up
            OBVIOUS
        <2>1. SweepStep(s)
            BY SweepChange DEF Bounds
        <2>2. SweepEnd(s) => env'[g].status # "vanished" \/ env'[g] = env[g]
            BY NoRowFields DEF SweepEnd
        <2>3. PICK h \in Guid : SweepVanish(s, h)
            BY <2>1, <2>2 DEF SweepStep, SweepBegin, SweepList, SweepJoin, SweepVanishFail, SweepPass,
                  SweepReadopt, SweepKill, SweepKillFail, SweepQuorumLost, SweepMark,
                  SweepMissing, SweepCrash, Judging
        <2>4. h = g
            BY <2>3 DEF SweepVanish, SetStatus, Bounds, Typed, TypeOK
        <2> QED
            BY <2>3, <2>4 DEF SweepVanish, GoneOf, NeverUp
    <1>4. [][vanishes]_vars => VanishOnlyGone
        BY PTL DEF VanishOnlyGone
    <1> HIDE DEF windows, gone, vanishes
    <1> QED
        BY <1>1, <1>2, <1>3, <1>4, PTL DEF Spec

-----------------------------------------------------------------------------
(* The table implements the ledger.                                        *)

\* A row that is not there has left nothing behind.
AbsentIsBlank == \A g \in Guid : ~Present(g) => env[g] = NoRow

\* The row a create has drafted is Active.
DraftsActive == \A g \in Guid : create[g].at = "checked" => create[g].row.status = "active"

Blank == AbsentIsBlank /\ DraftsActive

LedgerInv == Bounds /\ DeadlineInv /\ Blank

\* What a step does to the entry of the one row it writes.
Rewritten(g) ==
    /\ Present(g)
    /\ \/ \E status \in {"reaped", "vanished"} :
             Entry(env'[g]) = [Entry(env[g]) EXCEPT !.status = status]
       \/ /\ Entry(env'[g]) = [Entry(env[g]) EXCEPT !.deadline = env'[g].deadline]
          /\ env'[g].deadline \in Nat /\ env'[g].deadline <= clock + MaxTtl
          /\ env[g].ip # NoIp => /\ env[g].created <= env'[g].deadline
                                 /\ env'[g].deadline <= env[g].created + MaxTtl

OthersKept(g) == \A h \in Guid : h # g => env'[h] = env[h]

LEMMA StatusRewrites ==
    ASSUME Typed, NEW g \in Guid, NEW status \in {"reaped", "vanished"}, SetStatus(g, status)
    PROVE  env' = env \/ (Rewritten(g) /\ OthersKept(g))
    <1>1. env \in [Guid -> Row]
        BY DEF Typed, TypeOK
    <1>2. CASE Present(g)
        <2>1. env'[g] = [env[g] EXCEPT !.status = status] /\ OthersKept(g)
            BY <1>1, <1>2 DEF SetStatus, OthersKept
        <2>2. Entry(env'[g]) = [Entry(env[g]) EXCEPT !.status = status]
            BY <1>1, <2>1 DEF Entry, Row
        <2> QED
            BY <1>2, <2>1, <2>2 DEF Rewritten
    <1>3. CASE ~Present(g)
        BY <1>1, <1>3 DEF SetStatus, Row
    <1> QED
        BY <1>2, <1>3

LEMMA DeadlineRewrites ==
    ASSUME LedgerInv, NEW x \in Extender, ExtendWrite(x)
    PROVE  env' = env \/ \E g \in Guid : Rewritten(g) /\ OthersKept(g)
    <1> DEFINE g == extend[x].guid
               t == Clamped(extend[x].asked, extend[x].created)
    <1>1. env \in [Guid -> Row] /\ g \in Guid
        BY DEF ExtendWrite, LedgerInv, Bounds, Typed, TypeOK, TargetsOK, ExtendLocals
    <1>2. CASE Present(g)
        <2>1. env'[g] = [env[g] EXCEPT !.deadline = t] /\ OthersKept(g)
            BY <1>1, <1>2 DEF ExtendWrite, OthersKept
        <2> HIDE DEF t
        <2>2. env'[g].deadline = t
            BY <1>1, <2>1 DEF Row
        <2>3. Extends(g)
            BY <1>2, <2>2 DEF Extends, t
        <2>4. Entry(env'[g]) = [Entry(env[g]) EXCEPT !.deadline = t]
            BY <1>1, <2>1 DEF Entry, Row
        <2> QED
            BY <1>1, <1>2, <2>1, <2>2, <2>3, <2>4, ExtendedDeadline DEF Rewritten, LedgerInv
    <1>3. CASE ~Present(g)
        BY <1>1, <1>3 DEF ExtendWrite, Row
    <1> QED
        BY <1>2, <1>3

LEMMA SignalsRecorded ==
    ASSUME Typed, NEW g \in Guid, CreateRecord(g)
    PROVE  \A h \in Guid : Entry(env'[h]) = Entry(env[h]) /\ (~Present(h) => env'[h] = env[h])
    <1>1. env \in [Guid -> Row]
        BY DEF Typed, TypeOK
    <1>2. \A h \in Guid : env'[h] = env[h] \/ (Present(h) /\ \E m : env'[h] = [env[h] EXCEPT !.mac = m])
        BY <1>1 DEF CreateRecord, Row
    <1>3. ASSUME NEW h \in Guid, NEW m PROVE Entry([env[h] EXCEPT !.mac = m]) = Entry(env[h])
        BY <1>1 DEF Entry, Row
    <1> QED
        BY <1>2, <1>3

\* The steps that write the table.
LEMMA TableStep ==
    ASSUME LedgerInv, [Next]_vars
    PROVE  \/ \A g \in Guid : Entry(env'[g]) = Entry(env[g]) /\ (~Present(g) => env'[g] = env[g])
           \/ \E g \in Guid : Rewritten(g) /\ OthersKept(g)
           \/ \E g \in Guid : CreateAllocate(g)
           \/ \E g \in Guid : Readopts(g) /\ OthersKept(g)
           \/ \E s \in Sweeper : SweepEnd(s)
    <1>0. Typed /\ env \in [Guid -> Row]
        BY DEF LedgerInv, Bounds, Typed, TypeOK
    <1> DEFINE same == \A g \in Guid : Entry(env'[g]) = Entry(env[g]) /\ (~Present(g) => env'[g] = env[g])
    <1>1. env' = env => same
        OBVIOUS
    <1>2. ASSUME NEW g \in Guid, CreateStep(g), ~CreateAllocate(g)
          PROVE  same \/ \E h \in Guid : Rewritten(h) /\ OthersKept(h)
        BY <1>0, <1>1, <1>2, SignalsRecorded, StatusRewrites
           DEF CreateStep, CreateCheck, Provision, LateEnd, CreateRollback,
               CreateCrash
    <1>3. ASSUME NEW d \in Destroyer, DestroyStep(d)
          PROVE  same \/ \E h \in Guid : Rewritten(h) /\ OthersKept(h)
        <2>1. CASE DestroyMark(d)
            <3>1. destroy[d].guid \in Guid
                BY <1>0, <2>1 DEF DestroyMark, Typed, TargetsOK
            <3> QED
                BY <1>0, <1>1, <2>1, <3>1, StatusRewrites DEF DestroyMark
        <2>2. CASE ~DestroyMark(d)
            BY <1>1, <1>3, <2>2 DEF DestroyStep, DestroyRead, HelperRead, HelperList, HelperKill,
                                    DestroyFail
        <2> QED
            BY <2>1, <2>2
    <1>4. ASSUME NEW x \in Extender, ExtendStep(x)
          PROVE  same \/ \E h \in Guid : Rewritten(h) /\ OthersKept(h)
        BY <1>1, <1>4, DeadlineRewrites DEF ExtendStep, ExtendRead, ExtendSelect
    <1>5. ASSUME NEW s \in Sweeper, SweepStep(s), ~SweepEnd(s)
          PROVE  \/ same \/ \E h \in Guid : Rewritten(h) /\ OthersKept(h)
                 \/ \E h \in Guid : Readopts(h) /\ OthersKept(h)
        <2>1. CASE SweepReadopt(s)
            <3>1. sweep[s].cur \in Guid
                BY <1>0, <2>1 DEF SweepReadopt, Judging, Typed, TargetsOK
            <3>2. OthersKept(sweep[s].cur)
                BY <1>0, <2>1 DEF SweepReadopt, OthersKept
            <3>3. CASE Present(sweep[s].cur)
                BY <1>0, <1>1, <2>1, <3>1, <3>3 DEF SweepReadopt
            <3>4. CASE ~Present(sweep[s].cur)
                BY <2>1, <3>1, <3>2, <3>4 DEF Readopts
            <3> QED
                BY <3>3, <3>4
        <2>2. CASE SweepMark(s)
            <3>1. sweep[s].cur \in Guid
                BY <1>0, <2>2 DEF SweepMark, Typed, TargetsOK
            <3> QED
                BY <1>0, <1>1, <2>2, <3>1, StatusRewrites DEF SweepMark
        <2>3. ASSUME NEW g \in Guid, SweepVanish(s, g)
              PROVE  same \/ \E h \in Guid : Rewritten(h) /\ OthersKept(h)
            BY <1>0, <1>1, <2>3, StatusRewrites DEF SweepVanish
        <2>4. CASE ~(SweepReadopt(s) \/ SweepMark(s) \/ \E g \in Guid : SweepVanish(s, g))
            BY <1>1, <1>5, <2>4 DEF SweepStep, SweepBegin, SweepList, SweepJoin, SweepVanishFail, SweepPass,
                   SweepKill, SweepKillFail, SweepQuorumLost, SweepMissing, SweepCrash
        <2> QED
            BY <2>1, <2>2, <2>3, <2>4
    <1>6. Outside => same
        BY <1>1 DEF Outside, Tick, GuestLost, Tamper
    <1>7. UNCHANGED vars => same
        BY <1>1 DEF vars
    <1> QED
        BY <1>2, <1>3, <1>4, <1>5, <1>6, <1>7 DEF Next

\* The row that the allocator's transaction inserts.
LEMMA AllocateEntry ==
    ASSUME LedgerInv, NEW g \in Guid, CreateAllocate(g)
    PROVE  /\ ~Present(g) /\ env'[g].status = "active"
           /\ env'[g].ip \in FreeIps /\ env'[g].ip \in Pool
           /\ env'[g].deadline \in env'[g].created .. env'[g].created + MaxTtl
           /\ env'[g].created <= clock /\ OthersKept(g)
    <1>1. PICK ip \in FreeIps : env' = [env EXCEPT ![g] = [create[g].row EXCEPT !.ip = ip]]
        BY DEF CreateAllocate
    <1>2. create[g].at = "checked" /\ create[g].row \in Row /\ env \in [Guid -> Row]
        BY DEF CreateAllocate, LedgerInv, Bounds, Typed, TypeOK, CreateLocals
    <1>3. env'[g] = [create[g].row EXCEPT !.ip = ip]
        BY <1>1, <1>2
    <1>4. env'[g].status = "active"
        BY <1>2, <1>3 DEF LedgerInv, Blank, DraftsActive, Row
    <1>5. env'[g].ip = ip /\ ip \in Pool
        BY <1>2, <1>3 DEF Row, FreeIps
    <1>6. /\ env'[g].created = create[g].row.created /\ env'[g].deadline = create[g].row.deadline
          /\ env'[g].created \in Nat /\ env'[g].deadline \in Nat
        BY <1>2, <1>3 DEF Row
    <1>7. env'[g].deadline \in env'[g].created .. env'[g].created + MaxTtl
        BY <1>2, <1>6, ConstantsNat DEF LedgerInv, DeadlineInv, DraftOf
    <1>8. ~Present(g)
        BY <1>2 DEF LedgerInv, Bounds, LeaseInv, LeaseOf
    <1>9. OthersKept(g)
        BY <1>1, <1>2 DEF OthersKept
    <1>10. env'[g].created <= clock
        BY <1>2, <1>6 DEF LedgerInv, DeadlineInv, DraftOf
    <1> QED
        BY <1>1, <1>4, <1>5, <1>7, <1>8, <1>9, <1>10

LEMMA BlankNext == LedgerInv /\ [Next]_vars => Blank'
    <1> SUFFICES ASSUME LedgerInv, [Next]_vars PROVE Blank'
        OBVIOUS
    <1>0. Typed /\ AbsentIsBlank
        BY DEF LedgerInv, Bounds, Blank
    <1>1. ASSUME NEW g \in Guid, env'[g].status = "absent" PROVE env'[g] = NoRow
        <2>1. CASE \A h \in Guid : Entry(env'[h]) = Entry(env[h]) /\ (~Present(h) => env'[h] = env[h])
            BY <1>0, <1>1, <2>1 DEF Entry, AbsentIsBlank, Present
        <2>2. ASSUME NEW h \in Guid, OthersKept(h), h # g PROVE env'[g] = NoRow
            BY <1>0, <1>1, <2>2 DEF OthersKept, AbsentIsBlank, Present
        <2>3. Rewritten(g) => env'[g].status # "absent"
            BY DEF Rewritten, Entry, Present
        <2>4. Readopts(g) => env'[g].status # "absent"
            BY <1>0, ReadoptRow DEF LedgerInv, Bounds
        <2>5. CreateAllocate(g) => env'[g].status # "absent"
            BY AllocateEntry
        <2>6. ASSUME NEW h \in Guid, CreateAllocate(h) PROVE OthersKept(h)
            BY <2>6, AllocateEntry
        <2>7. ASSUME NEW s \in Sweeper, SweepEnd(s) PROVE env'[g] = NoRow
            BY <1>0, <1>1, <2>7 DEF SweepEnd, AbsentIsBlank, Present
        <2> QED
            BY <1>0, <1>1, <2>1, <2>2, <2>3, <2>4, <2>5, <2>6, <2>7, TableStep
    <1>2. ASSUME NEW g \in Guid, create'[g].at = "checked" PROVE create'[g].row.status = "active"
        <2>1. CASE create'[g] = create[g]
            BY <1>2, <2>1 DEF LedgerInv, Blank, DraftsActive
        <2>2. ASSUME NEW o \in Owner, NEW m \in Mode, NEW ttl \in Ttl, CreateCheck(g, o, m, ttl)
              PROVE  create'[g].row.status = "active"
            BY <1>0, <2>2 DEF CreateCheck, Typed, TypeOK
        <2> QED
            BY <1>0, <1>2, <2>1, <2>2, CreateOrder
    <1> QED
        BY <1>1, <1>2 DEF Blank, AbsentIsBlank, DraftsActive, Present

LEMMA AlwaysLedger == Spec => []LedgerInv
    <1>1. Init => LedgerInv
        <2>1. Init => Blank
            BY DEF Init, Blank, AbsentIsBlank, DraftsActive
        <2>2. Init => ReadPast
            BY IdleSweepFields DEF Init, ReadPast
        <2> QED
            BY <2>1, <2>2, InitTyped, LeaseInit, DeadlineInit DEF LedgerInv, Bounds
    <1>2. LedgerInv /\ [Next]_vars => LedgerInv'
        <2>1. Bounds /\ [Next]_vars => Bounds'
            BY NextTyped, LeaseNext, ReadPastNext DEF Bounds
        <2> QED
            BY <2>1, DeadlineNext, BlankNext DEF LedgerInv
    <1> QED
        BY <1>1, <1>2, PTL DEF Spec

-----------------------------------------------------------------------------

Leases == [g \in Guid |-> Entry(env[g])]

LEMMA EntryFields ==
    ASSUME NEW row
    PROVE  /\ Entry(row).status = row.status /\ Entry(row).ip = row.ip
           /\ Entry(row).created = row.created /\ Entry(row).deadline = row.deadline
    BY DEF Entry

LEMMA BlankEntry == Entry(NoRow) = Ledger!NoLease
    BY DEF Entry, NoRow, Ledger!NoLease

\* A step that writes one row changes one entry.
LEMMA OneEntry ==
    ASSUME NEW g \in Guid, OthersKept(g), clock' = clock
    PROVE  Ledger!Only(g)
    BY DEF OthersKept, Ledger!Only

LEMMA InCeiling ==
    ASSUME NEW created \in Nat, NEW deadline \in Nat, created <= deadline,
           deadline <= created + MaxTtl \/ deadline <= created + DefaultTtl
    PROVE  deadline \in created .. created + Greater(MaxTtl, DefaultTtl)
    BY ConstantsNat DEF Greater

LEMMA GrantStep ==
    ASSUME LedgerInv, LedgerInv', NEW g \in Guid, OthersKept(g), clock' = clock,
           ~Present(g), env'[g].status = "active", env'[g].created <= clock,
           env'[g].ip \in Pool \cup {NoIp}, env'[g].ip # NoIp => env'[g].ip \in FreeIps,
           \/ env'[g].deadline \in env'[g].created .. env'[g].created + MaxTtl
           \/ env'[g].deadline = env'[g].created + DefaultTtl
    PROVE  Ledger!Grant(g)
    <1>1. env'[g] \in Row
        BY DEF LedgerInv, Bounds, Typed, TypeOK
    <1>2. env'[g].created \in Nat /\ env'[g].deadline \in Nat
        BY <1>1 DEF Row
    <1>3. Entry(env[g]) = Ledger!NoLease
        BY BlankEntry DEF LedgerInv, Blank, AbsentIsBlank
    <1>4. Ledger!WithinCeiling(Entry(env'[g]))
        BY <1>2, InCeiling, EntryFields, ConstantsNat DEF Ledger!WithinCeiling
    <1>5. env'[g].ip # NoIp =>
             \A h \in Guid : env[h].status = "active" => env[h].ip # env'[g].ip
        BY DEF FreeIps, Active
    <1> QED
        BY <1>3, <1>4, <1>5, OneEntry, EntryFields DEF Ledger!Grant, Ledger!Open

LEMMA RewriteStep ==
    ASSUME LedgerInv, LedgerInv', NEW g \in Guid, OthersKept(g), clock' = clock, Rewritten(g)
    PROVE  Ledger!Extend(g) \/ Ledger!Close(g)
    <1>1. env[g] \in Row /\ env'[g] \in Row
        BY DEF LedgerInv, Bounds, Typed, TypeOK
    <1>2. env[g].status \in {"active", "reaped", "vanished"}
        BY <1>1 DEF Rewritten, Present, Row, Status
    <1>3. Ledger!Open(g) \/ Ledger!Closed(g)
        BY <1>2, EntryFields DEF Ledger!Open, Ledger!Closed
    <1>4. ASSUME NEW status \in {"reaped", "vanished"},
                 Entry(env'[g]) = [Entry(env[g]) EXCEPT !.status = status]
          PROVE  Ledger!Close(g)
        BY <1>3, <1>4, OneEntry DEF Ledger!Close
    <1>5. ASSUME Entry(env'[g]) = [Entry(env[g]) EXCEPT !.deadline = env'[g].deadline],
                 env'[g].deadline <= clock + MaxTtl,
                 env[g].ip # NoIp => /\ env[g].created <= env'[g].deadline
                                     /\ env'[g].deadline <= env[g].created + MaxTtl
          PROVE  Ledger!Extend(g)
        <2>1. env'[g].created = env[g].created
            BY <1>5 DEF Entry
        <2>2. env'[g].created \in Nat /\ env'[g].deadline \in Nat /\ clock \in Nat
            BY <1>1 DEF Row, LedgerInv, Bounds, Typed, TypeOK
        <2>3. env[g].ip # NoIp => Ledger!WithinCeiling(Entry(env'[g]))
            BY <1>5, <2>1, <2>2, InCeiling, EntryFields DEF Ledger!WithinCeiling
        <2>4. env'[g].deadline \in 0 .. clock + Greater(MaxTtl, DefaultTtl)
            BY <1>5, <2>2, ConstantsNat DEF Greater
        <2> QED
            BY <1>3, <1>5, <2>3, <2>4, OneEntry, EntryFields DEF Ledger!Extend
    <1> QED
        BY <1>4, <1>5 DEF Rewritten

LEMMA ForgetStep ==
    ASSUME LedgerInv, NEW s \in Sweeper, SweepEnd(s)
    PROVE  Ledger!Forget
    <1> DEFINE old == {g \in Guid : s \in OneShot /\ Prunable(g, sweep[s].now)}
    <1>1. old \in SUBSET {g \in Guid : Ledger!Closed(g)}
        BY EntryFields DEF Prunable, Ledger!Closed
    <1>2. \A g \in Guid : Entry(env'[g]) = IF g \in old THEN Ledger!NoLease ELSE Entry(env[g])
        BY BlankEntry DEF SweepEnd
    <1>3. clock' = clock
        BY DEF SweepEnd
    <1> HIDE DEF old
    <1> QED
        BY <1>1, <1>2, <1>3 DEF Ledger!Forget

LEMMA LedgerStep ==
    ASSUME LedgerInv, LedgerInv', [Next]_vars
    PROVE  Ledger!Next \/ (Leases' = Leases /\ clock' = clock)
    <1>1. CASE clock' # clock
        <2>1. clock' = clock + 1 /\ env' = env
            BY <1>1, TickOnly DEF Tick
        <2> QED
            BY <2>1 DEF Ledger!Next, Ledger!Tick
    <1>2. CASE clock' = clock
        <2>1. CASE \A g \in Guid : Entry(env'[g]) = Entry(env[g])
            BY <1>2, <2>1 DEF Leases
        <2>2. ASSUME NEW g \in Guid, Rewritten(g), OthersKept(g) PROVE Ledger!Next
            BY <1>2, <2>2, RewriteStep DEF Ledger!Next
        <2>3. ASSUME NEW g \in Guid, CreateAllocate(g) PROVE Ledger!Next
            BY <1>2, <2>3, AllocateEntry, GrantStep DEF Ledger!Next
        <2>4. ASSUME NEW g \in Guid, Readopts(g), OthersKept(g) PROVE Ledger!Next
            <3>1. env'[g].created <= clock
                BY <2>4, ReadoptRow DEF LedgerInv, Bounds, ReadPast
            <3> QED
                BY <1>2, <2>4, <3>1, ReadoptRow, GrantStep DEF Ledger!Next, LedgerInv, Bounds
        <2>5. ASSUME NEW s \in Sweeper, SweepEnd(s) PROVE Ledger!Next
            BY <2>5, ForgetStep DEF Ledger!Next
        <2> QED
            BY <1>2, <2>1, <2>2, <2>3, <2>4, <2>5, TableStep
    <1> QED
        BY <1>1, <1>2

\* The table is a ledger of leases.
THEOREM LedgerImplemented == Spec => ImplementsLease
    <1>1. Init => Ledger!Init
        BY BlankEntry DEF Init, Ledger!Init
    <1>2. LedgerInv /\ LedgerInv' /\ [Next]_vars =>
              [Ledger!Next]_<<[g \in Guid |-> Entry(env[g])], clock>>
        BY LedgerStep DEF Leases
    <1> QED
        BY <1>1, <1>2, AlwaysLedger, PTL DEF Spec, ImplementsLease, Ledger!Spec

=============================================================================
