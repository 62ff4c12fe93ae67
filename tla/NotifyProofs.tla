---------------------------- MODULE NotifyProofs ----------------------------
(***************************************************************************)
(* For any number of reapers and acks: the variables keep their types, an  *)
(* ack that no recording overlaps is final, and what is on record was      *)
(* pushed.  NotifyInv adds to the types what makes the last two inductive: *)
(* the row of a muted key is acked and nobody is about to overwrite it, and *)
(* a sweep that is about to record has pushed what it will record.         *)
(*                                                                         *)
(* Where one reaper runs at a time, events climb rung by rung and never    *)
(* down: LadderInv relates the last emission of an event to what is on     *)
(* record and to what the sweep is about to record.                        *)
(***************************************************************************)
EXTENDS Notify, TLAPS

MutedIsAcked ==
    \A key \in Escalating : said[key].muted =>
        /\ store[key].set /\ store[key].acked
        /\ \A s \in Sweeper : ~(Recording(s) /\ sweep[s].key = key)

PutIsPushed ==
    \A s \in Sweeper : sweep[s].at = "put" => sweep[s].pushed = sweep[s].severity

NotifyInv == TypeOK /\ MutedIsAcked /\ PutIsPushed /\ RecordedIsPushed

\* The ladder and the ages stay within their ranges.
LEMMA LadderTypes ==
    /\ \A severity \in Severity : Climb(severity) \in Severity
    /\ \A key \in Key : Base(key) \in Severity
<1>1. \A severity \in Severity : Climb(severity) \in Severity
  BY DEF Climb, Severity, Crit
<1>2. \A key \in Key : Base(key) \in Severity
  <2> SUFFICES ASSUME NEW key \in Key PROVE Base(key) \in Severity
    OBVIOUS
  <2>1. CASE key = "anomaly"  BY <2>1 DEF Base, Severity, Crit
  <2>2. CASE key = "sweeper"  BY <2>2 DEF Base, Severity, Crit
  <2>3. CASE key # "anomaly" /\ key # "sweeper"  BY <2>3 DEF Base, Severity, Crit
  <2> QED  BY <2>1, <2>2, <2>3
<1> QED  BY <1>1, <1>2

LEMMA AgeTypes ==
    /\ \A age \in 0 .. AgeCap : Capped(age + 1) \in 0 .. AgeCap
    /\ AgeCap \in Nat /\ 0 .. SweepTime \subseteq 0 .. AgeCap
BY NotifyAssumption DEF Capped, AgeCap

\* A process that is not recording.
LEMMA IdleTypes ==
    /\ NoState \in State /\ AckedState \in State /\ Unsaid \in Said
    /\ IdleSweep \in SweepLocals /\ IdleAck \in AckLocals
    /\ Escalating \subseteq Key
BY NotifyAssumption
DEF NoState, AckedState, State, Unsaid, Said, IdleSweep, SweepLocals, IdleAck, AckLocals,
    Escalating, Key, Severity, AgeCap

LEMMA NotifyInit == Init => NotifyInv
<1> SUFFICES ASSUME Init PROVE NotifyInv
  OBVIOUS
<1>2. TypeOK  BY IdleTypes DEF Init, TypeOK
<1>3. MutedIsAcked  BY DEF Init, MutedIsAcked, Unsaid, Key, Escalating
<1>4. PutIsPushed  BY DEF Init, PutIsPushed, IdleSweep
<1>5. RecordedIsPushed  BY DEF Init, RecordedIsPushed, NoState
<1> QED  BY <1>2, <1>3, <1>4, <1>5 DEF NotifyInv

-----------------------------------------------------------------------------
\* One lemma per action.

LEMMA SweepQuiet ==
    ASSUME NotifyInv, NEW s \in Sweeper,
           SweepBegin(s) \/ SweepEnd(s) \/ SweepCrash(s)
           \/ \E key \in Key : RouteSilent(s, key)
    PROVE  NotifyInv'
<1> USE DEF NotifyInv, TypeOK
<1>1. /\ UNCHANGED <<store, problem, ack, said>>
      /\ sweep' \in [Sweeper -> SweepLocals]
      /\ sweep'[s].at \in {"idle", "scan"}
      /\ \A r \in Sweeper : r # s => sweep'[r] = sweep[r]
  <2>1. CASE SweepBegin(s)
    <3>1. problem \in SUBSET Key  BY NotifyAssumption
    <3>2. [IdleSweep EXCEPT !.at = "scan", !.todo = problem] \in SweepLocals
      BY <3>1, IdleTypes DEF SweepLocals
    <3> QED  BY <2>1, <3>2 DEF SweepBegin
  <2>2. CASE SweepEnd(s) \/ SweepCrash(s)
    <3>1. IdleSweep.at = "idle"  BY DEF IdleSweep
    <3> QED  BY <2>2, <3>1, IdleTypes DEF SweepEnd, SweepCrash
  <2>3. CASE \E key \in Key : RouteSilent(s, key)
    <3>1. PICK key \in Key : RouteSilent(s, key)  BY <2>3
    <3>2. [sweep[s] EXCEPT !.todo = @ \ {key}] \in SweepLocals
      BY DEF SweepLocals
    <3> QED  BY <3>1, <3>2 DEF RouteSilent
  <2> QED  BY <2>1, <2>2, <2>3
<1>2. TypeOK'  BY <1>1
<1>3. MutedIsAcked'  BY <1>1 DEF MutedIsAcked, Recording
<1>4. PutIsPushed'  BY <1>1 DEF PutIsPushed
<1>5. RecordedIsPushed'  BY <1>1 DEF RecordedIsPushed
<1> QED  BY <1>2, <1>3, <1>4, <1>5

\* An emission under a key whose row is not acked, or that could not be read.
LEMMA EmitStep ==
    ASSUME NotifyInv, NEW s \in Sweeper, NEW key \in Key,
           RouteEmit(s, key) \/ RouteBlind(s, key)
    PROVE  NotifyInv'
<1> USE DEF NotifyInv, TypeOK
<1>1. /\ sweep' \in [Sweeper -> SweepLocals]
      /\ sweep'[s].at = "push" /\ sweep'[s].key = key
      /\ \A r \in Sweeper : r # s => sweep'[r] = sweep[r]
  <2>1. sweep[s] \in SweepLocals
    OBVIOUS
  <2>2. CASE RouteEmit(s, key)
    <3> DEFINE next == [sweep[s] EXCEPT !.at = "push", !.todo = @ \ {key}, !.key = key,
                                        !.severity = Spoken(key, store[key])]
    <3>1. Spoken(key, store[key]) \in Severity
      BY LadderTypes DEF Spoken, State
    <3>2. next \in SweepLocals /\ next.at = "push" /\ next.key = key
      BY <2>1, <3>1 DEF SweepLocals
    <3>3. sweep' = [sweep EXCEPT ![s] = next]
      BY <2>2 DEF RouteEmit
    <3> HIDE DEF next
    <3> QED  BY <3>2, <3>3
  <2>3. CASE RouteBlind(s, key)
    <3> DEFINE next == [sweep[s] EXCEPT !.at = "push", !.todo = @ \ {key}, !.key = key,
                                        !.severity = Base(key), !.blind = TRUE]
    <3>1. next \in SweepLocals /\ next.at = "push" /\ next.key = key
      BY <2>1, LadderTypes DEF SweepLocals
    <3>2. sweep' = [sweep EXCEPT ![s] = next]
      BY <2>3 DEF RouteBlind
    <3> HIDE DEF next
    <3> QED  BY <3>1, <3>2
  <2> QED  BY <2>2, <2>3
<1>2. /\ UNCHANGED <<store, problem, ack>>
      /\ said' \in [Key -> Said]
      /\ \A k \in Key : said'[k].backed = said[k].backed
      /\ \A k \in Key : said'[k].muted => said[k].muted
  <2>1. said[key] \in Said /\ sweep[s].lag \in 0 .. AgeCap
    BY AgeTypes DEF SweepLocals
  <2>2. CASE RouteEmit(s, key)
    <3> DEFINE next == [said[key] EXCEPT !.severity = Spoken(key, store[key]),
                                         !.age = sweep[s].lag, !.recorded = FALSE]
    <3>1. Spoken(key, store[key]) \in Severity
      BY LadderTypes DEF Spoken, State
    <3>2. next \in Said /\ next.backed = said[key].backed /\ next.muted = said[key].muted
      BY <2>1, <3>1 DEF Said
    <3>3. said' = [said EXCEPT ![key] = next] /\ UNCHANGED <<store, problem, ack>>
      BY <2>2 DEF RouteEmit
    <3> HIDE DEF next
    <3> QED  BY <3>2, <3>3
  <2>3. CASE RouteBlind(s, key)
    <3> DEFINE next == [said[key] EXCEPT !.severity = Base(key), !.age = sweep[s].lag,
                                         !.recorded = FALSE, !.muted = FALSE]
    <3>1. next \in Said /\ next.backed = said[key].backed /\ ~next.muted
      BY <2>1, LadderTypes DEF Said
    <3>2. said' = [said EXCEPT ![key] = next] /\ UNCHANGED <<store, problem, ack>>
      BY <2>3 DEF RouteBlind
    <3> HIDE DEF next
    <3> QED  BY <3>1, <3>2
  <2> QED  BY <2>2, <2>3
<1>3. key \in Escalating => ~said'[key].muted
  <2>1. CASE RouteEmit(s, key)
    BY <2>1, <1>2 DEF RouteEmit, Speaks, MutedIsAcked
  <2>2. CASE RouteBlind(s, key)
    BY <2>2 DEF RouteBlind, Said
  <2> QED  BY <2>1, <2>2
<1>4. TypeOK'
  BY <1>1, <1>2
<1>5. MutedIsAcked'
  BY <1>1, <1>2, <1>3 DEF MutedIsAcked, Recording, Key, Escalating
<1>6. PutIsPushed'
  <2> SUFFICES ASSUME NEW r \in Sweeper, sweep'[r].at = "put"
               PROVE  sweep'[r].pushed = sweep'[r].severity
    BY DEF PutIsPushed
  <2>1. r # s /\ sweep'[r] = sweep[r]
    BY <1>1
  <2> QED  BY <2>1 DEF PutIsPushed
<1>7. RecordedIsPushed'
  BY <1>2 DEF RecordedIsPushed
<1> QED  BY <1>4, <1>5, <1>6, <1>7

LEMMA PushStep ==
    ASSUME NotifyInv, NEW s \in Sweeper, RoutePush(s)
    PROVE  NotifyInv'
<1> USE DEF NotifyInv, TypeOK
<1> DEFINE next == [sweep[s] EXCEPT !.at = "put", !.pushed = sweep[s].severity]
<1>1. /\ sweep[s] \in SweepLocals /\ sweep[s].key \in Key /\ sweep[s].at = "push"
      /\ sweep[s].severity \in Severity
  BY DEF SweepLocals, RoutePush
<1>2. /\ next \in SweepLocals /\ next.at = "put" /\ next.key = sweep[s].key
      /\ next.pushed = next.severity
  BY <1>1 DEF SweepLocals
<1>3. /\ sweep' = [sweep EXCEPT ![s] = next]
      /\ UNCHANGED <<store, problem, ack, said>>
  BY DEF RoutePush
<1> HIDE DEF next
<1>4. TypeOK'
  BY <1>2, <1>3
<1>6. MutedIsAcked'
  BY <1>1, <1>2, <1>3, IdleTypes DEF MutedIsAcked, Recording
<1>7. PutIsPushed'
  BY <1>2, <1>3 DEF PutIsPushed
<1>8. RecordedIsPushed'
  BY <1>3 DEF RecordedIsPushed
<1> QED  BY <1>4, <1>6, <1>7, <1>8

LEMMA PutStep ==
    ASSUME NotifyInv, NEW s \in Sweeper, RoutePut(s) \/ RoutePutFail(s)
    PROVE  NotifyInv'
<1> USE DEF NotifyInv, TypeOK
<1> DEFINE key == sweep[s].key
           next == [sweep[s] EXCEPT !.at = "scan", !.key = "sweeper", !.severity = 0,
                                    !.blind = FALSE, !.pushed = 0]
           row == [set |-> TRUE, severity |-> sweep[s].severity, age |-> sweep[s].lag,
                   acked |-> FALSE]
<1>1. /\ sweep[s] \in SweepLocals /\ key \in Key /\ sweep[s].at = "put"
      /\ row \in State /\ row.severity = sweep[s].severity
      /\ next \in SweepLocals /\ next.at = "scan"
  <2>1. sweep[s] \in SweepLocals /\ sweep[s].at = "put"
    BY DEF RoutePut, RoutePutFail
  <2>2. key \in Key /\ sweep[s].severity \in Severity /\ sweep[s].lag \in 0 .. AgeCap
    BY <2>1, AgeTypes DEF SweepLocals
  <2>3. row \in State /\ row.severity = sweep[s].severity
    BY <2>2 DEF State
  <2>4. next \in SweepLocals /\ next.at = "scan"
    <3>1. "sweeper" \in Key /\ 0 \in Severity  BY DEF Key, Severity
    <3> HIDE DEF key, row
    <3> QED  BY <2>1, <3>1 DEF SweepLocals
  <2> QED  BY <2>1, <2>2, <2>3, <2>4
<1>2. sweep' = [sweep EXCEPT ![s] = next] /\ UNCHANGED <<problem, ack>>
  BY DEF RoutePut, RoutePutFail, Noted
<1>3. /\ said' \in [Key -> Said]
      /\ \A k \in Key : said'[k].muted = said[k].muted
      /\ \A k \in Key : k # key => said'[k].backed = said[k].backed
      /\ RoutePut(s) => said'[key].backed = sweep[s].severity
      /\ RoutePutFail(s) => said' = said
  <2>1. sweep[s].pushed = sweep[s].severity /\ sweep[s].severity \in Severity
    BY <1>1 DEF PutIsPushed, SweepLocals
  <2> DEFINE told == [said[key] EXCEPT !.recorded = TRUE, !.backed = sweep[s].pushed]
  <2>2. told \in Said /\ told.muted = said[key].muted /\ told.backed = sweep[s].severity
    <3>1. said[key] \in Said  BY <1>1
    <3> HIDE DEF key, row, next
    <3> QED  BY <2>1, <3>1 DEF Said
  <2>3. RoutePut(s) => said' = [said EXCEPT ![key] = told]
    BY DEF RoutePut
  <2>4. RoutePutFail(s) => said' = said
    BY DEF RoutePutFail
  <2> HIDE DEF told, key, row, next
  <2> QED  BY <1>1, <2>2, <2>3, <2>4
<1>4. \/ RoutePut(s) /\ store' = [store EXCEPT ![key] = row]
      \/ RoutePutFail(s) /\ store' = store
  BY DEF RoutePut, RoutePutFail
<1> HIDE DEF key, row, next
<1>5. TypeOK'
  BY <1>1, <1>2, <1>3, <1>4
<1>6. MutedIsAcked'
  BY <1>1, <1>2, <1>3, <1>4, IdleTypes DEF MutedIsAcked, Recording, key
<1>7. PutIsPushed'
  <2> SUFFICES ASSUME NEW r \in Sweeper, sweep'[r].at = "put"
               PROVE  sweep'[r].pushed = sweep'[r].severity
    BY DEF PutIsPushed
  <2>1. r # s /\ sweep'[r] = sweep[r]
    BY <1>1, <1>2
  <2> QED  BY <2>1 DEF PutIsPushed
<1>8. RecordedIsPushed'
  BY <1>1, <1>3, <1>4 DEF RecordedIsPushed
<1> QED  BY <1>5, <1>6, <1>7, <1>8

LEMMA AckedStep == ASSUME NotifyInv, NEW a \in Acker, AckStep(a) PROVE NotifyInv'
<1> USE DEF NotifyInv, TypeOK
<1>1. CASE AckGet(a) \/ AckFail(a)
  <2>1. [ack[a] EXCEPT !.at = "put"] \in AckLocals
    BY DEF AckLocals
  <2>2. UNCHANGED <<store, problem, sweep, said>> /\ TypeOK'
    BY <1>1, <2>1, IdleTypes DEF AckGet, AckFail
  <2> QED
    BY <2>2 DEF MutedIsAcked, PutIsPushed, RecordedIsPushed, Recording
<1>2. CASE AckPut(a)
  <2> DEFINE key == ack[a].key
             quiet == \A s \in Sweeper : ~(Recording(s) /\ sweep[s].key = key)
             next == [said[key] EXCEPT !.acked = TRUE, !.backed = 0, !.muted = quiet]
  <2>1. key \in Escalating /\ key \in Key
    BY IdleTypes DEF AckLocals
  <2>2. quiet \in BOOLEAN
    OBVIOUS
  <2>3. /\ UNCHANGED <<problem, sweep>>
        /\ store' = [store EXCEPT ![key] = AckedState]
        /\ said' = [said EXCEPT ![key] = next]
    BY <1>2 DEF AckPut
  <2>4. next \in Said /\ next.muted = quiet
    <3>1. 0 \in Severity  BY DEF Severity
    <3> HIDE DEF quiet
    <3> QED  BY <2>1, <2>2, <3>1 DEF Said
  <2>5. ack' \in [Acker -> AckLocals]
    BY <1>2, IdleTypes DEF AckPut, AckLocals, Escalating
  <2> HIDE DEF next, key
  <2>6. TypeOK'
    BY <2>1, <2>3, <2>4, <2>5, IdleTypes
  <2>7. MutedIsAcked'
    <3> SUFFICES ASSUME NEW k \in Escalating, said'[k].muted
                 PROVE  /\ store'[k].set /\ store'[k].acked
                        /\ \A s \in Sweeper : ~(Recording(s)' /\ sweep'[s].key = k)
      BY DEF MutedIsAcked
    <3>1. CASE k = key
      BY <3>1, <2>1, <2>3, <2>4 DEF AckedState, Recording
    <3>2. CASE k # key
      BY <3>2, <2>1, <2>3, IdleTypes DEF MutedIsAcked, Recording
    <3> QED  BY <3>1, <3>2
  <2>8. PutIsPushed'
    BY <2>3 DEF PutIsPushed
  <2>9. RecordedIsPushed'
    BY <2>1, <2>3, <2>4 DEF RecordedIsPushed, AckedState
  <2> QED  BY <2>6, <2>7, <2>8, <2>9
<1> QED  BY <1>1, <1>2 DEF AckStep

LEMMA OutsideStep == ASSUME NotifyInv, Outside PROVE NotifyInv'
<1> USE DEF NotifyInv, TypeOK
<1>1. CASE Tick
  <2>1. /\ store' \in [Key -> State]
        /\ \A k \in Key : /\ store'[k].set = store[k].set
                          /\ store'[k].acked = store[k].acked
                          /\ store'[k].severity = store[k].severity
    BY <1>1, AgeTypes DEF Tick, Older, State
  <2>2. /\ said' \in [Key -> Said]
        /\ \A k \in Key : said'[k].muted = said[k].muted /\ said'[k].backed = said[k].backed
    BY <1>1, AgeTypes DEF Tick, Older, Said
  <2>3. /\ sweep' \in [Sweeper -> SweepLocals]
        /\ \A s \in Sweeper : /\ sweep'[s].at = sweep[s].at
                              /\ sweep'[s].key = sweep[s].key
                              /\ sweep'[s].severity = sweep[s].severity
                              /\ sweep'[s].pushed = sweep[s].pushed
    <3> SUFFICES ASSUME NEW s \in Sweeper
                 PROVE  /\ sweep'[s] \in SweepLocals
                        /\ sweep'[s].at = sweep[s].at
                        /\ sweep'[s].key = sweep[s].key
                        /\ sweep'[s].severity = sweep[s].severity
                        /\ sweep'[s].pushed = sweep[s].pushed
      BY <1>1 DEF Tick
    <3>1. sweep[s] \in SweepLocals  BY DEF SweepLocals
    <3>2. sweep[s].at # "idle" => sweep[s].lag + 1 \in 0 .. SweepTime
      BY <1>1, <3>1, NotifyAssumption, SMTT(20) DEF Tick, SweepLocals
    <3> QED  BY <1>1, <3>1, <3>2 DEF Tick, SweepLocals
  <2>4. UNCHANGED <<problem, ack>>  BY <1>1 DEF Tick
  <2>5. TypeOK'  BY <2>1, <2>2, <2>3, <2>4 DEF Said, SweepLocals
  <2>6. MutedIsAcked'
    BY <2>1, <2>2, <2>3 DEF MutedIsAcked, Recording, Key, Escalating
  <2>7. PutIsPushed'
    BY <2>3 DEF PutIsPushed
  <2>8. RecordedIsPushed'
    BY <2>1, <2>2 DEF RecordedIsPushed
  <2> QED  BY <2>5, <2>6, <2>7, <2>8
<1>2. CASE Prune
  <2>1. NoState \in State /\ NoState.set = FALSE
    BY AgeTypes DEF NoState, State, Severity
  <2>2. /\ said' \in [Key -> Said]
        /\ \A k \in Escalating : ~said'[k].muted
    <3>1. Unsaid \in Said /\ ~Unsaid.muted /\ "sweeper" \notin Escalating
      BY IdleTypes DEF Unsaid, Escalating
    <3> QED  BY <1>2, <3>1, IdleTypes DEF Prune
  <2>3. /\ store' \in [Key -> State]
        /\ \A k \in Key : \/ store'[k] = store[k] /\ said'[k] = said[k]
                          \/ ~store'[k].set
    BY <1>2, <2>1 DEF Prune
  <2>4. UNCHANGED <<problem, sweep, ack>>  BY <1>2 DEF Prune
  <2>5. TypeOK'  BY <2>2, <2>3, <2>4 DEF Said
  <2>6. MutedIsAcked'  BY <2>2 DEF MutedIsAcked
  <2>7. PutIsPushed'  BY <2>4 DEF PutIsPushed
  <2>8. RecordedIsPushed'  BY <2>3 DEF RecordedIsPushed
  <2> QED  BY <2>5, <2>6, <2>7, <2>8
<1>3. CASE \E key \in Key : ProblemChanges(key)
  BY <1>3 DEF ProblemChanges, MutedIsAcked, PutIsPushed, RecordedIsPushed, Recording
<1> QED  BY <1>1, <1>2, <1>3 DEF Outside

-----------------------------------------------------------------------------

LEMMA NotifyStep == NotifyInv /\ [Next]_vars => NotifyInv'
<1> SUFFICES ASSUME NotifyInv, [Next]_vars PROVE NotifyInv'
  OBVIOUS
<1>1. CASE \E s \in Sweeper : SweepStep(s) \/ SweepFault(s)
  BY <1>1, SweepQuiet, EmitStep, PushStep, PutStep DEF SweepStep, SweepFault
<1>2. CASE \E a \in Acker : AckStep(a)
  BY <1>2, AckedStep
<1>3. CASE Outside
  BY <1>3, OutsideStep
<1>4. CASE UNCHANGED vars
  BY <1>4 DEF vars, NotifyInv, TypeOK, MutedIsAcked, PutIsPushed, RecordedIsPushed, Recording
<1> QED  BY <1>1, <1>2, <1>3, <1>4 DEF Next

\* The invariant holds of every behaviour, whatever the number of processes.
THEOREM NotifyInvariant == Spec => []NotifyInv
BY NotifyInit, NotifyStep, PTL DEF Spec

\* The types of all variables.
THEOREM NotifyTypes == Spec => []TypeOK
<1>1. NotifyInv => TypeOK  BY DEF NotifyInv
<1> QED  BY <1>1, NotifyInvariant, PTL

\* Every emission on record had a push of its own, at its severity.
THEOREM PushedRecords == Spec => []RecordedIsPushed
<1>1. NotifyInv => RecordedIsPushed  BY DEF NotifyInv
<1> QED  BY <1>1, NotifyInvariant, PTL

\* What the action properties look at is the step of decide.
LEMMA EmissionIsRoute ==
    ASSUME TypeOK, Next, NEW s \in Sweeper, NEW key \in Key, Emits(s, key)
    PROVE  RouteEmit(s, key)
<1>1. /\ sweep' # sweep /\ sweep[s].at = "scan" /\ sweep'[s].at = "push"
      /\ sweep'[s].key = key /\ ~sweep'[s].blind
  BY DEF Emits
<1>2. ~ \E a \in Acker : AckStep(a)
  BY <1>1 DEF AckStep, AckGet, AckPut, AckFail
<1>3. ~Outside
  <2>1. ~Tick  BY <1>1 DEF Tick, TypeOK, SweepLocals
  <2>2. ~Prune  BY <1>1 DEF Prune
  <2>3. \A k \in Key : ~ProblemChanges(k)  BY <1>1 DEF ProblemChanges
  <2> QED  BY <2>1, <2>2, <2>3 DEF Outside
<1>4. PICK r \in Sweeper : SweepStep(r) \/ SweepFault(r)
  BY <1>2, <1>3 DEF Next
<1>5. \A k \in Key : ~RouteBlind(s, k) /\ ~RouteSilent(s, k)
  BY <1>1 DEF RouteBlind, RouteSilent, TypeOK, SweepLocals
<1>6. \A k \in Key : RouteEmit(s, k) => k = key
  BY <1>1 DEF RouteEmit, TypeOK, SweepLocals
<1>7. r = s
  BY <1>1, <1>4, ZenonT(40)
  DEF SweepStep, SweepFault, SweepBegin, SweepEnd, RouteSilent, RouteEmit, RoutePush,
      RoutePut, RoutePutFail, Noted, SweepCrash, RouteBlind, TypeOK
<1>8. ~SweepBegin(s) /\ ~SweepEnd(s) /\ ~RoutePush(s) /\ ~RoutePut(s)
      /\ ~RoutePutFail(s) /\ ~SweepCrash(s)
  BY <1>1
  DEF SweepBegin, SweepEnd, RoutePush, RoutePut, RoutePutFail, SweepCrash, IdleSweep, TypeOK
<1> QED  BY <1>4, <1>5, <1>6, <1>7, <1>8 DEF SweepStep, SweepFault

\* An ack is final: the row of a muted key is acked, so that decide is silent.
THEOREM AckIsFinal == Spec => AckSilences
<1>1. ASSUME NotifyInv, [Next]_vars
      PROVE  [\A s \in Sweeper, key \in Escalating :
                 Emits(s, key) => ~said[key].muted]_vars
  <2> SUFFICES ASSUME NEW s \in Sweeper, NEW key \in Escalating, Emits(s, key),
                      said[key].muted, Next
               PROVE  FALSE
    BY <1>1
  <2>1. store[key].set /\ store[key].acked
    BY <1>1 DEF NotifyInv, MutedIsAcked
  <2>2. RouteEmit(s, key)
    BY <1>1, EmissionIsRoute, IdleTypes DEF NotifyInv
  <2> QED  BY <2>1, <2>2 DEF RouteEmit, Speaks
<1> QED  BY <1>1, NotifyInvariant, PTL DEF Spec, AckSilences

-----------------------------------------------------------------------------
\* Where one reaper runs at a time, what was said last of an event, what is on
\* record of it, and what a sweep is about to record agree.

OneReaper == \A r, s \in Sweeper : r = s

OnItsWay ==
    \A s \in Sweeper : Recording(s) =>
        /\ sweep[s].severity >= Base(sweep[s].key)
        /\ ~said[sweep[s].key].recorded
        /\ said[sweep[s].key].severity # 0 =>
              /\ said[sweep[s].key].severity = sweep[s].severity
              /\ said[sweep[s].key].age = sweep[s].lag

OnRecord ==
    \A key \in Key : said[key].recorded /\ said[key].severity # 0 =>
        /\ store[key].set
        /\ ~store[key].acked =>
              store[key].severity = said[key].severity /\ store[key].age = said[key].age

NextRung ==
    \A key \in Key :
        /\ store[key].set /\ ~store[key].acked =>
              /\ store[key].severity >= Base(key)
              /\ said[key].severity <= Climb(store[key].severity)
        /\ ~store[key].set => said[key].severity <= Base(key)

LadderInv == OnItsWay /\ OnRecord /\ NextRung

LEMMA LadderInit == Init => LadderInv
<1> SUFFICES ASSUME Init PROVE LadderInv
  OBVIOUS
<1>1. OnItsWay  BY DEF Init, OnItsWay, Recording, IdleSweep
<1>2. OnRecord  BY DEF Init, OnRecord, Unsaid
<1>3. NextRung
  <2>1. \A key \in Key : Base(key) \in 0 .. 4
    BY LadderTypes DEF Severity
  <2> QED  BY <2>1 DEF Init, NextRung, NoState, Unsaid
<1> QED  BY <1>1, <1>2, <1>3 DEF LadderInv

\* The sweep records nothing, and nothing is said.
LEMMA LadderQuiet ==
    ASSUME OneReaper, NotifyInv, LadderInv, NEW s \in Sweeper,
           \/ SweepBegin(s) \/ SweepEnd(s) \/ SweepCrash(s) \/ RoutePutFail(s)
           \/ \E key \in Key : RouteSilent(s, key)
    PROVE  LadderInv'
<1>1. UNCHANGED <<store, said>> /\ sweep'[s].at \in {"idle", "scan"}
  <2>1. sweep \in [Sweeper -> SweepLocals]
    BY DEF NotifyInv, TypeOK
  <2>2. CASE SweepBegin(s)
    BY <2>1, <2>2 DEF SweepBegin, IdleSweep
  <2>3. CASE SweepEnd(s) \/ SweepCrash(s)
    BY <2>1, <2>3 DEF SweepEnd, SweepCrash, IdleSweep
  <2>4. CASE RoutePutFail(s)
    BY <2>1, <2>4 DEF RoutePutFail, Noted, SweepLocals
  <2>5. CASE \E key \in Key : RouteSilent(s, key)
    BY <2>1, <2>5 DEF RouteSilent, SweepLocals
  <2> QED  BY <2>2, <2>3, <2>4, <2>5
<1>2. OnItsWay'  BY <1>1 DEF OneReaper, OnItsWay, Recording
<1> QED  BY <1>1, <1>2 DEF LadderInv, OnRecord, NextRung

\* decide climbs from the rung on record, or starts at the base.
LEMMA LadderEmit ==
    ASSUME OneReaper, NotifyInv, LadderInv, NEW s \in Sweeper, NEW key \in Key,
           RouteEmit(s, key) \/ RouteBlind(s, key)
    PROVE  LadderInv'
<1>1. TypeOK /\ OnRecord /\ NextRung
  BY DEF NotifyInv, LadderInv
<1>2. /\ UNCHANGED store /\ sweep[s] \in SweepLocals /\ said[key] \in Said
      /\ store[key] \in State /\ Base(key) \in 0 .. 4
  BY <1>1, LadderTypes DEF RouteEmit, RouteBlind, TypeOK, Severity
<1>3. PICK severity \in 0 .. 4 :
        /\ severity >= Base(key) /\ severity # 0
        /\ store[key].set /\ ~store[key].acked => severity <= Climb(store[key].severity)
        /\ ~store[key].set => severity = Base(key)
        /\ sweep'[s].at = "push" /\ sweep'[s].key = key /\ sweep'[s].severity = severity
        /\ sweep'[s].lag = sweep[s].lag
        /\ said'[key].severity = severity /\ said'[key].age = sweep[s].lag
        /\ ~said'[key].recorded
        /\ \A k \in Key : k # key => said'[k] = said[k]
  <2>1. store[key].severity \in 0 .. 4 /\ Base(key) # 0
    BY <1>2 DEF State, Severity, Base, Crit
  <2>2. \A severity \in 0 .. 4 : Climb(severity) \in 0 .. 4 /\ Climb(severity) >= severity
    BY DEF Climb, Crit
  <2>3. CASE RouteEmit(s, key)
    <3>1. Speaks(key, store[key], sweep[s].lag) /\ Spoken(key, store[key]) \in 0 .. 4
      BY <2>1, <2>2, <2>3, <1>2 DEF RouteEmit, Spoken
    <3>2. store[key].set => ~store[key].acked
      BY <3>1 DEF Speaks
    <3>3. /\ Spoken(key, store[key]) >= Base(key) /\ Spoken(key, store[key]) # 0
          /\ store[key].set => Spoken(key, store[key]) = Climb(store[key].severity)
          /\ ~store[key].set => Spoken(key, store[key]) = Base(key)
      BY <2>1, <2>2, <3>2, <1>1, <1>2 DEF Spoken, NextRung
    <3>4. /\ sweep'[s].at = "push" /\ sweep'[s].key = key
          /\ sweep'[s].severity = Spoken(key, store[key]) /\ sweep'[s].lag = sweep[s].lag
      BY <2>3, <1>1, <1>2 DEF RouteEmit, TypeOK, SweepLocals
    <3>5. /\ said'[key].severity = Spoken(key, store[key]) /\ said'[key].age = sweep[s].lag
          /\ ~said'[key].recorded /\ \A k \in Key : k # key => said'[k] = said[k]
      BY <2>3, <1>1, <1>2 DEF RouteEmit, TypeOK, Said
    <3> QED  BY <2>1, <2>2, <3>1, <3>3, <3>4, <3>5
  <2>4. CASE RouteBlind(s, key)
    <3>1. store[key].set /\ ~store[key].acked => Base(key) <= Climb(store[key].severity)
      BY <2>1, <2>2, <1>1, <1>2 DEF NextRung
    <3>2. /\ sweep'[s].at = "push" /\ sweep'[s].key = key
          /\ sweep'[s].severity = Base(key) /\ sweep'[s].lag = sweep[s].lag
      BY <2>4, <1>1, <1>2 DEF RouteBlind, TypeOK, SweepLocals
    <3>3. /\ said'[key].severity = Base(key) /\ said'[key].age = sweep[s].lag
          /\ ~said'[key].recorded /\ \A k \in Key : k # key => said'[k] = said[k]
      BY <2>4, <1>1, <1>2 DEF RouteBlind, TypeOK, Said
    <3> QED  BY <2>1, <3>1, <3>2, <3>3, <1>2
  <2> QED  BY <2>3, <2>4
<1>4. OnItsWay'  BY <1>3 DEF OneReaper, OnItsWay, Recording
<1>5. OnRecord'  BY <1>1, <1>2, <1>3 DEF OnRecord
<1>6. NextRung'  BY <1>1, <1>2, <1>3 DEF NextRung
<1> QED  BY <1>4, <1>5, <1>6 DEF LadderInv

LEMMA LadderPush ==
    ASSUME OneReaper, NotifyInv, LadderInv, NEW s \in Sweeper, RoutePush(s)
    PROVE  LadderInv'
<1>1. /\ UNCHANGED store /\ Recording(s) /\ sweep'[s].key = sweep[s].key
      /\ sweep'[s].severity = sweep[s].severity /\ sweep'[s].lag = sweep[s].lag
  BY DEF RoutePush, Recording, NotifyInv, TypeOK, SweepLocals
<1>2. \A k \in Key : /\ said'[k].severity = said[k].severity /\ said'[k].age = said[k].age
                     /\ said'[k].recorded = said[k].recorded
  BY DEF RoutePush, NotifyInv, TypeOK, Said
<1>3. sweep[s].key \in Key
  BY DEF NotifyInv, TypeOK, SweepLocals
<1>4. OnItsWay'  BY <1>1, <1>2, <1>3 DEF OneReaper, LadderInv, OnItsWay
<1> QED  BY <1>1, <1>2, <1>4 DEF LadderInv, OnRecord, NextRung

\* The record is of the last emission, unless that was pruned.
LEMMA LadderPut ==
    ASSUME OneReaper, NotifyInv, LadderInv, NEW s \in Sweeper, RoutePut(s)
    PROVE  LadderInv'
<1> DEFINE key == sweep[s].key
<1>1. /\ key \in Key /\ sweep[s].severity \in 0 .. 4 /\ said[key].severity \in 0 .. 4
      /\ Climb(sweep[s].severity) \in 0 .. 4 /\ Climb(sweep[s].severity) >= sweep[s].severity
  <2>1. sweep[s] \in SweepLocals /\ said \in [Key -> Said]
    BY DEF NotifyInv, TypeOK
  <2>2. key \in Key /\ sweep[s].severity \in 0 .. 4 /\ said[key].severity \in 0 .. 4
    BY <2>1 DEF SweepLocals, Said, Severity
  <2> QED  BY <2>2 DEF Climb, Crit
<1>2. /\ sweep[s].severity >= Base(key)
      /\ said[key].severity # 0 =>
            said[key].severity = sweep[s].severity /\ said[key].age = sweep[s].lag
  BY DEF RoutePut, LadderInv, OnItsWay, Recording
<1>3. /\ store'[key].set /\ ~store'[key].acked /\ store'[key].severity = sweep[s].severity
      /\ store'[key].age = sweep[s].lag
      /\ \A k \in Key : k # key => store'[k] = store[k]
  BY <1>1 DEF RoutePut, NotifyInv, TypeOK
<1>4. /\ \A k \in Key : said'[k].severity = said[k].severity /\ said'[k].age = said[k].age
      /\ \A k \in Key : k # key => said'[k].recorded = said[k].recorded
  BY <1>1 DEF RoutePut, NotifyInv, TypeOK, Said
<1>5. sweep'[s].at = "scan"
  BY DEF RoutePut, Noted, NotifyInv, TypeOK, SweepLocals
<1> HIDE DEF key
<1>6. OnItsWay'  BY <1>5 DEF OneReaper, OnItsWay, Recording
<1>7. OnRecord'  BY <1>1, <1>2, <1>3, <1>4 DEF LadderInv, OnRecord
<1>8. NextRung'
  <2> SUFFICES ASSUME NEW k \in Key
               PROVE  /\ store'[k].set /\ ~store'[k].acked =>
                            /\ store'[k].severity >= Base(k)
                            /\ said'[k].severity <= Climb(store'[k].severity)
                      /\ ~store'[k].set => said'[k].severity <= Base(k)
    BY DEF NextRung
  <2>1. CASE k = key  BY <2>1, <1>1, <1>2, <1>3, <1>4
  <2>2. CASE k # key  BY <2>2, <1>3, <1>4 DEF LadderInv, NextRung
  <2> QED  BY <2>1, <2>2
<1> QED  BY <1>6, <1>7, <1>8 DEF LadderInv

LEMMA LadderAcked ==
    ASSUME NotifyInv, LadderInv, NEW a \in Acker, AckStep(a)
    PROVE  LadderInv'
<1>1. UNCHANGED sweep
  BY DEF AckStep, AckGet, AckPut, AckFail
<1>2. \A k \in Key : /\ said'[k].severity = said[k].severity /\ said'[k].age = said[k].age
                     /\ said'[k].recorded = said[k].recorded
  BY DEF AckStep, AckGet, AckPut, AckFail, NotifyInv, TypeOK, Said
<1>3. \A k \in Key : store'[k] = store[k] \/ (store'[k].set /\ store'[k].acked)
  BY DEF AckStep, AckGet, AckPut, AckFail, AckedState, NotifyInv, TypeOK
<1>4. \A s \in Sweeper : sweep[s].key \in Key
  BY DEF NotifyInv, TypeOK, SweepLocals
<1>5. OnItsWay'  BY <1>1, <1>2, <1>4 DEF LadderInv, OnItsWay, Recording
<1>6. OnRecord'  BY <1>2, <1>3 DEF LadderInv, OnRecord
<1>7. NextRung'  BY <1>2, <1>3 DEF LadderInv, NextRung
<1> QED  BY <1>5, <1>6, <1>7 DEF LadderInv

\* What was said, what is on record and what is on its way grow old together.
LEMMA LadderOutside == ASSUME NotifyInv, LadderInv, Outside PROVE LadderInv'
<1>1. CASE Tick
  <2>1. \A k \in Key : /\ store'[k].set = store[k].set /\ store'[k].acked = store[k].acked
                       /\ store'[k].severity = store[k].severity
                       /\ store[k].set /\ ~store[k].acked =>
                             store'[k].age = Capped(store[k].age + 1)
    BY <1>1 DEF Tick, Older, NotifyInv, TypeOK, State
  <2>2. \A k \in Key : /\ said'[k].severity = said[k].severity
                       /\ said'[k].recorded = said[k].recorded
                       /\ said[k].severity # 0 => said'[k].age = Capped(said[k].age + 1)
    BY <1>1 DEF Tick, Older, NotifyInv, TypeOK, Said
  <2>3. \A s \in Sweeper : /\ sweep'[s].at = sweep[s].at /\ sweep'[s].key = sweep[s].key
                           /\ sweep'[s].severity = sweep[s].severity
                           /\ sweep[s].at # "idle" =>
                                 sweep'[s].lag = sweep[s].lag + 1 /\ sweep[s].lag < SweepTime
    BY <1>1 DEF Tick, NotifyInv, TypeOK, SweepLocals
  <2>4. \A lag \in 0 .. SweepTime : lag < SweepTime => Capped(lag + 1) = lag + 1
    BY NotifyAssumption DEF Capped, AgeCap
  <2>5. \A s \in Sweeper : sweep[s].key \in Key /\ sweep[s].lag \in 0 .. SweepTime
    BY DEF NotifyInv, TypeOK, SweepLocals
  <2>6. OnItsWay'  BY <2>2, <2>3, <2>4, <2>5 DEF LadderInv, OnItsWay, Recording
  <2>7. OnRecord'  BY <2>1, <2>2 DEF LadderInv, OnRecord
  <2>8. NextRung'  BY <2>1, <2>2 DEF LadderInv, NextRung
  <2> QED  BY <2>6, <2>7, <2>8 DEF LadderInv
<1>2. CASE Prune
  <2>1. UNCHANGED sweep /\ \A s \in Sweeper : sweep[s].key \in Key
    BY <1>2 DEF Prune, NotifyInv, TypeOK, SweepLocals
  <2>2. \A k \in Key : \/ store'[k] = store[k] /\ said'[k] = said[k]
                       \/ ~store'[k].set /\ said'[k].severity = 0 /\ ~said'[k].recorded
    BY <1>2 DEF Prune, NoState, Unsaid
  <2>3. \A k \in Key : Base(k) \in 0 .. 4
    BY LadderTypes DEF Severity
  <2>4. OnItsWay'  BY <2>1, <2>2 DEF LadderInv, OnItsWay, Recording
  <2>5. OnRecord'  BY <2>2 DEF LadderInv, OnRecord
  <2>6. NextRung'  BY <2>2, <2>3 DEF LadderInv, NextRung
  <2> QED  BY <2>4, <2>5, <2>6 DEF LadderInv
<1>3. CASE \E key \in Key : ProblemChanges(key)
  BY <1>3 DEF ProblemChanges, LadderInv, OnItsWay, OnRecord, NextRung, Recording
<1> QED  BY <1>1, <1>2, <1>3 DEF Outside

LEMMA LadderStep == OneReaper /\ NotifyInv /\ LadderInv /\ [Next]_vars => LadderInv'
<1> SUFFICES ASSUME OneReaper, NotifyInv, LadderInv, [Next]_vars PROVE LadderInv'
  OBVIOUS
<1>1. CASE \E s \in Sweeper : SweepStep(s) \/ SweepFault(s)
  BY <1>1, LadderQuiet, LadderEmit, LadderPush, LadderPut DEF SweepStep, SweepFault
<1>2. CASE \E a \in Acker : AckStep(a)
  BY <1>2, LadderAcked
<1>3. CASE Outside
  BY <1>3, LadderOutside
<1>4. CASE UNCHANGED vars
  BY <1>4 DEF vars, LadderInv, OnItsWay, OnRecord, NextRung, Recording
<1> QED  BY <1>1, <1>2, <1>3, <1>4 DEF Next

THEOREM LadderInvariant == ASSUME OneReaper PROVE Spec => [](NotifyInv /\ LadderInv)
<1>1. NotifyInv /\ LadderInv /\ [Next]_vars => (NotifyInv /\ LadderInv)'
  BY NotifyStep, LadderStep
<1> QED  BY <1>1, NotifyInit, LadderInit, PTL DEF Spec

\* With one reaper at a time an event climbs rung by rung, each Reescalate after
\* the last that was recorded.
THEOREM ClimbsRungByRung == ASSUME OneReaper PROVE Spec => BackoffClimbs
<1>1. ASSUME NotifyInv, LadderInv, [Next]_vars
      PROVE  [\A s \in Sweeper, key \in Escalating :
                 Emits(s, key) /\ said[key].recorded /\ said[key].severity # 0 =>
                     /\ said[key].age - sweep[s].lag >= Reescalate
                     /\ sweep'[s].severity = Climb(said[key].severity)]_vars
  <2> SUFFICES ASSUME NEW s \in Sweeper, NEW key \in Escalating, Emits(s, key),
                      said[key].recorded, said[key].severity # 0, Next
               PROVE  /\ said[key].age - sweep[s].lag >= Reescalate
                      /\ sweep'[s].severity = Climb(said[key].severity)
    BY <1>1
  <2>1. key \in Key /\ RouteEmit(s, key)
    BY <1>1, EmissionIsRoute, IdleTypes DEF NotifyInv
  <2>2. store[key].set /\ ~store[key].acked /\ store[key].age - sweep[s].lag >= Reescalate
    BY <1>1, <2>1 DEF RouteEmit, Speaks, LadderInv, OnRecord
  <2>3. store[key].severity = said[key].severity /\ store[key].age = said[key].age
    BY <1>1, <2>1, <2>2 DEF LadderInv, OnRecord
  <2>4. sweep'[s].severity = Spoken(key, store[key])
    BY <1>1, <2>1 DEF RouteEmit, NotifyInv, TypeOK, SweepLocals
  <2> QED  BY <2>2, <2>3, <2>4 DEF Spoken
<1> QED  BY <1>1, LadderInvariant, PTL DEF Spec, BackoffClimbs

\* With one reaper at a time no event is said more mildly than before.
THEOREM NoStepDown == ASSUME OneReaper PROVE Spec => NeverMilder
<1>1. ASSUME NotifyInv, LadderInv, [Next]_vars
      PROVE  [\A s \in Sweeper, key \in Key :
                 Emits(s, key) => sweep'[s].severity >= said[key].severity]_vars
  <2> SUFFICES ASSUME NEW s \in Sweeper, NEW key \in Key, Emits(s, key), Next
               PROVE  sweep'[s].severity >= said[key].severity
    BY <1>1
  <2>1. RouteEmit(s, key)
    BY <1>1, EmissionIsRoute DEF NotifyInv
  <2>2. sweep'[s].severity = Spoken(key, store[key])
    BY <1>1, <2>1 DEF RouteEmit, NotifyInv, TypeOK, SweepLocals
  <2>3. store[key].set => ~store[key].acked
    BY <2>1 DEF RouteEmit, Speaks
  <2>4. /\ said[key].severity \in 0 .. 4 /\ Base(key) \in 0 .. 4
        /\ Climb(store[key].severity) \in 0 .. 4
    BY <1>1, LadderTypes DEF NotifyInv, TypeOK, Said, State, Severity
  <2> QED  BY <1>1, <2>2, <2>3, <2>4 DEF Spoken, LadderInv, NextRung
<1> QED  BY <1>1, LadderInvariant, PTL DEF Spec, NeverMilder

=============================================================================
