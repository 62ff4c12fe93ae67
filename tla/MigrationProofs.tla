--------------------------- MODULE MigrationProofs ---------------------------
(***************************************************************************)
(* For any number of openers and envs, and with deaths at every step: the  *)
(* version is backed by the schema, and an open database is up to date.    *)
(*                                                                         *)
(* The two are not inductive: what a stamp writes, and what an opening     *)
(* relies on, is what its process remembers.  Backed says that whatever    *)
(* version a process remembers is backed too; it stays so because no step  *)
(* takes a table or a column away.                                         *)
(***************************************************************************)
EXTENDS Migration, TLAPS

\* The schema has what version v promises.
Has(v) ==
    /\ v >= 1 => Table \subseteq schema
    /\ v >= 2 => "ssh_host_key_fps" \in schema
    /\ v >= 3 => "acked_by" \in schema

Backed ==
    \A p \in Opener :
        /\ opener[p].at # "closed" => Table \subseteq schema
        /\ Has(opener[p].current)
        /\ opener[p].at = "open" => opener[p].current = Latest

MigrationInv == TypeOK /\ Has(version) /\ Backed

LEMMA MigrationInit == Init => MigrationInv
<1> SUFFICES ASSUME Init PROVE MigrationInv
  OBVIOUS
<1>1. version \in 0 .. Latest /\ schema \subseteq Table \cup Column \cup Index
  BY DEF Init, Deployed, Column, Latest
<1>2. row \in [Guid -> {"none", "blank", "known"}]
  BY DEF Init, Deployed
<1>3. Has(version)
  BY DEF Init, Deployed, Has, Column
<1>4. opener = [p \in Opener |-> Closed]
  BY DEF Init
<1>5. opener \in [Opener -> [at : {"closed", "read", "stamp_baseline", "migrate", "stamp",
                                 "open", "failed"},
                           current : 0 .. Latest]]
  BY <1>4 DEF Closed, Latest
<1>6. erased \subseteq Guid /\ disturbed \in BOOLEAN
  BY DEF Init
<1>7. TypeOK
  BY <1>1, <1>2, <1>5, <1>6 DEF TypeOK
<1>8. Backed
  <2> SUFFICES ASSUME NEW p \in Opener
               PROVE  /\ opener[p].at # "closed" => Table \subseteq schema
                      /\ Has(opener[p].current)
                      /\ opener[p].at = "open" => opener[p].current = Latest
    BY DEF Backed
  <2>1. opener[p].at = "closed" /\ opener[p].current = 0
    BY <1>4 DEF Closed
  <2> QED  BY <2>1 DEF Has
<1> QED  BY <1>3, <1>7, <1>8 DEF MigrationInv

\* Every step of an opener or of its user keeps the invariant.
LEMMA MigrationStep ==
    ASSUME MigrationInv, NEW p \in Opener,
           OpenStep(p) \/ UseStep(p) \/ Close(p) \/ Crash(p)
    PROVE  MigrationInv'
<1> USE DEF MigrationInv, Has, Backed, TypeOK, Latest, Baseline, Table, Column, Index, Closed
<1>1. CASE CreateBaseline(p)  BY <1>1 DEF CreateBaseline
<1>2. CASE ReadVersion(p)  BY <1>2 DEF ReadVersion
<1>3. CASE StampBaseline(p)  BY <1>3 DEF StampBaseline
<1>4. CASE Migrate2(p)  BY <1>4 DEF Migrate2
<1>5. CASE Migrate3(p)  BY <1>5 DEF Migrate3
<1>6. CASE Migrate3Fail(p)  BY <1>6 DEF Migrate3Fail
<1>7. CASE Stamp(p)  BY <1>7 DEF Stamp
<1>8. CASE Opened(p)  BY <1>8 DEF Opened
<1>9. CASE UseStep(p)  BY <1>9 DEF UseStep, InsertEnv, SetProvisionSignals
<1>10. CASE Close(p)  BY <1>10 DEF Close
<1>11. CASE Crash(p)  BY <1>11 DEF Crash
<1> QED  BY <1>1, <1>2, <1>3, <1>4, <1>5, <1>6, <1>7, <1>8, <1>9, <1>10, <1>11 DEF OpenStep

\* The invariant holds of every behaviour.
THEOREM MigrationInvariant == Spec => []MigrationInv
<1>1. MigrationInv /\ [Next]_vars => MigrationInv'
  <2> SUFFICES ASSUME MigrationInv, [Next]_vars PROVE MigrationInv'
    OBVIOUS
  <2>1. CASE Next  BY <2>1, MigrationStep DEF Next
  <2>2. CASE UNCHANGED vars
    BY <2>2 DEF vars, MigrationInv, TypeOK, Has, Backed
  <2> QED  BY <2>1, <2>2
<1> QED  BY <1>1, MigrationInit, PTL DEF Spec

\* The version never promises what the schema lacks.
THEOREM VersionBacked == Spec => []VersionIsBacked
<1>1. MigrationInv => VersionIsBacked  BY DEF MigrationInv, Has, VersionIsBacked
<1> QED  BY <1>1, MigrationInvariant, PTL

\* An open database has the whole schema.
THEOREM OpenCurrent == Spec => []OpenIsCurrent
<1>1. MigrationInv => OpenIsCurrent
  BY DEF MigrationInv, Has, Backed, OpenIsCurrent, Latest, Column
<1> QED  BY <1>1, MigrationInvariant, PTL

\* The types of all variables.
THEOREM MigrationTypes == Spec => []TypeOK
<1>1. MigrationInv => TypeOK  BY DEF MigrationInv
<1> QED  BY <1>1, MigrationInvariant, PTL

-----------------------------------------------------------------------------
(***************************************************************************)
(* Openings that come one after the other.  As long as nothing disturbs    *)
(* them the schema is exactly what the version says, or what the one       *)
(* opening between a commit and its stamp is about to say: that is why no  *)
(* migration finds its work done.                                          *)
(***************************************************************************)
Exact(v) ==
    /\ "ssh_host_key_fps" \in schema <=> v >= 2
    /\ "acked_by" \in schema <=> v >= 3

Calm ==
    ~disturbed =>
        /\ erased = {}
        /\ \A g \in Guid : row[g] = "known" => "ssh_host_key_fps" \in schema
        /\ \A p \in Opener : opener[p].at # "failed"
        /\ \A p, q \in Opener : Opening(p) /\ Opening(q) => p = q
        /\ (\A p \in Opener : opener[p].at # "stamp") => Exact(version)
        /\ \A p \in Opener : opener[p].at = "stamp" =>
              opener[p].current # 0 /\ Exact(opener[p].current)
        /\ \A p \in Opener : opener[p].at = "stamp_baseline" => version = 0
        /\ \A p \in Opener : opener[p].at = "migrate" =>
              opener[p].current = version /\ version # 0

LEMMA CalmInit == Init => Calm
<1> SUFFICES ASSUME Init PROVE Calm
  OBVIOUS
<1>1. Exact(version)
  BY DEF Init, Deployed, Exact, Table, Column, Index
<1>2. \A g \in Guid : row[g] = "known" => "ssh_host_key_fps" \in schema
  BY DEF Init
<1>3. \A p \in Opener : opener[p].at = "closed"
  BY DEF Init, Closed
<1> QED  BY <1>1, <1>2, <1>3 DEF Init, Calm, Opening

LEMMA CalmStep ==
    ASSUME MigrationInv, Calm, NEW p \in Opener,
           OpenStep(p) \/ UseStep(p) \/ Close(p) \/ Crash(p)
    PROVE  Calm'
<1> SUFFICES ASSUME ~disturbed'
             PROVE  Calm'
  BY DEF Calm
<1>0. ~disturbed
  BY DEF OpenStep, UseStep, Close, Crash, CreateBaseline, ReadVersion, StampBaseline, Migrate2,
         Migrate3, Migrate3Fail, Stamp, Opened, InsertEnv, SetProvisionSignals
<1> USE <1>0 DEF Calm, MigrationInv, TypeOK, Opening, Latest, Baseline
<1>1. CASE CreateBaseline(p)  BY <1>1, ZenonT(40) DEF CreateBaseline, Exact, Table, Index
<1>2. CASE ReadVersion(p)  BY <1>2 DEF ReadVersion, Exact
<1>3. CASE StampBaseline(p)  BY <1>3 DEF StampBaseline, Exact
<1>4. CASE Migrate2(p)  BY <1>4 DEF Migrate2, Exact, Index
<1>5. CASE Migrate3(p)  BY <1>5 DEF Migrate3, Exact
<1>6. CASE Migrate3Fail(p)  BY <1>6 DEF Migrate3Fail, Exact
<1>7. CASE Stamp(p)
  <2>1. /\ version' = opener[p].current /\ UNCHANGED <<schema, row, erased, disturbed>>
        /\ opener'[p].at = "migrate" /\ opener'[p].current = opener[p].current
        /\ \A q \in Opener : q # p => opener'[q] = opener[q]
    BY <1>7 DEF Stamp
  <2>2. /\ \A q \in Opener : q # p => opener[q].at \in {"closed", "open"}
        /\ Exact(opener[p].current)
    BY <1>7 DEF Stamp
  <2>3. opener[p].current # 0
    BY <1>7 DEF Stamp
  <2>4. Exact(version)'
    BY <2>1, <2>2 DEF Exact
  <2> HIDE DEF MigrationInv, TypeOK
  <2> QED  BY <2>1, <2>2, <2>3, <2>4
<1>8. CASE Opened(p)  BY <1>8 DEF Opened, Exact
<1>9. CASE UseStep(p)
  BY <1>9 DEF UseStep, InsertEnv, SetProvisionSignals, Exact, Backed, Has
<1>10. CASE Close(p)  BY <1>10 DEF Close, Closed, Exact
<1>11. CASE Crash(p)  BY <1>11 DEF Crash, Closed, Exact
<1> QED  BY <1>1, <1>2, <1>3, <1>4, <1>5, <1>6, <1>7, <1>8, <1>9, <1>10, <1>11 DEF OpenStep

\* Undisturbed openings succeed and erase nothing.
THEOREM UndisturbedOpenings == Spec => []OpenSucceedsUndisturbed
<1>1. MigrationInv /\ Calm /\ [Next]_vars => Calm'
  <2>1. Calm /\ UNCHANGED vars => Calm'
    BY DEF vars, Calm, Opening, Exact
  <2> QED  BY <2>1, CalmStep DEF Next
<1>2. Calm => OpenSucceedsUndisturbed
  BY DEF Calm, OpenSucceedsUndisturbed
<1> QED  BY <1>1, <1>2, CalmInit, MigrationInvariant, PTL DEF Spec

=============================================================================
