------------------------------ MODULE Migration ------------------------------
(***************************************************************************)
(* The schema of the shared database (core/src/store.rs, open): every verb,*)
(* helper, watcher and sweep opens the file, and each opening creates what *)
(* is missing of the baseline, reads user_version and runs the migrations  *)
(* above the version it has read.  One action is one statement, or one     *)
(* migration with its transaction; openers interleave between them, and    *)
(* any of them may die there.                                              *)
(*                                                                         *)
(* The data kept are the rows of envs and whether the host-key             *)
(* fingerprints of an env are recorded: what migration 2 copies.           *)
(***************************************************************************)
EXTENDS Integers

CONSTANTS
    Opener,         \* processes that open the database, again and again
    Guid,           \* envs that are created once the schema is there
    Faults          \* "crash": an opener may die

ASSUME MigrationAssumption == Faults \subseteq {"crash"}

Baseline == 1
Latest == 3         \* the last entry of MIGRATIONS

Table == {"envs", "notify_state", "heartbeat"}
Column == {"ssh_host_key_fps", "acked_by"}      \* of migrations 2 and 3
Index == {"idx_envs_vmid"}

VARIABLES
    version,    \* PRAGMA user_version
    schema,     \* the tables, columns and indexes that are there
    row,        \* per guid "none", or the fingerprints of its row: "blank", "known"
    opener,     \* per process, the program counter and current_version
    erased,     \* history: the guids whose recorded fingerprints were overwritten
    disturbed   \* history: two openings overlapped, or one died before a stamp

vars == <<version, schema, row, opener, erased, disturbed>>

Closed == [at |-> "closed", current |-> 0]

\* No file yet, a file from before user_version, or one of any release.
Deployed ==
    {<<0, {}>>, <<0, Table \cup Index>>, <<1, Table \cup Index>>,
     <<2, Table \cup {"ssh_host_key_fps"}>>, <<3, Table \cup Column>>}

Init ==
    /\ \E d \in Deployed :
          /\ version = d[1] /\ schema = d[2]
          /\ row \in [Guid -> IF "ssh_host_key_fps" \in d[2] THEN {"none", "blank", "known"}
                              ELSE IF d[2] = {} THEN {"none"} ELSE {"none", "blank"}]
    /\ opener = [p \in Opener |-> Closed]
    /\ erased = {}
    /\ disturbed = FALSE

\* Between the first statement of open and its end.
Opening(p) == opener[p].at \in {"read", "stamp_baseline", "migrate", "stamp"}

(***************************************************************************)
(* open                                                                    *)
(***************************************************************************)

\* create_baseline: CREATE ... IF NOT EXISTS, of the tables and, whatever the
\* version, of the index on vmid.
CreateBaseline(p) ==
    /\ opener[p].at = "closed"
    /\ schema' = schema \cup Table \cup Index
    /\ opener' = [opener EXCEPT ![p].at = "read"]
    /\ disturbed' = (disturbed \/ \E q \in Opener : Opening(q))
    /\ UNCHANGED <<version, row, erased>>

\* Mutant: a database without a version is a new one, and up to date.
ReadVersionNew(p) ==
    /\ opener[p].at = "read"
    /\ opener' = [opener EXCEPT ![p] =
          [at |-> "migrate", current |-> IF version = 0 THEN Latest ELSE version]]
    /\ UNCHANGED <<version, schema, row, erased, disturbed>>

\* A version of 0 is to be stamped.
ReadVersion(p) ==
    /\ opener[p].at = "read"
    /\ opener' = [opener EXCEPT ![p] =
          [at |-> IF version = 0 THEN "stamp_baseline" ELSE "migrate", current |-> version]]
    /\ UNCHANGED <<version, schema, row, erased, disturbed>>

\* Mutant: the new database is stamped with the latest version at once.
StampLatest(p) ==
    /\ opener[p].at = "stamp_baseline"
    /\ version' = Latest
    /\ opener' = [opener EXCEPT ![p] = [at |-> "migrate", current |-> Baseline]]
    /\ UNCHANGED <<schema, row, erased, disturbed>>

StampBaseline(p) ==
    /\ opener[p].at = "stamp_baseline"
    /\ version' = Baseline
    /\ opener' = [opener EXCEPT ![p] = [at |-> "migrate", current |-> Baseline]]
    /\ UNCHANGED <<schema, row, erased, disturbed>>

\* m2_vmid_nullable_add_fps rebuilds envs: every row is copied, with the
\* fingerprints blank, and the index on vmid goes with the old table.
Migrate2(p) ==
    /\ opener[p].at = "migrate" /\ opener[p].current < 2
    /\ schema' = (schema \cup {"ssh_host_key_fps"}) \ Index
    /\ row' = [g \in Guid |-> IF row[g] = "known" THEN "blank" ELSE row[g]]
    /\ erased' = erased \cup {g \in Guid : row[g] = "known"}
    /\ opener' = [opener EXCEPT ![p] = [at |-> "stamp", current |-> 2]]
    /\ UNCHANGED <<version, disturbed>>

\* m3_notify_ack_audit: ALTER TABLE ... ADD COLUMN.
Migrate3(p) ==
    /\ opener[p].at = "migrate" /\ opener[p].current = 2
    /\ "acked_by" \notin schema
    /\ schema' = schema \cup {"acked_by"}
    /\ opener' = [opener EXCEPT ![p] = [at |-> "stamp", current |-> 3]]
    /\ UNCHANGED <<version, row, erased, disturbed>>

\* The column is there: the migration fails, and with it the opening.
Migrate3Fail(p) ==
    /\ opener[p].at = "migrate" /\ opener[p].current = 2
    /\ "acked_by" \in schema
    /\ opener' = [opener EXCEPT ![p].at = "failed"]
    /\ UNCHANGED <<version, schema, row, erased, disturbed>>

\* Mutant: no stamp at all.
StampNot(p) ==
    /\ opener[p].at = "stamp"
    /\ opener' = [opener EXCEPT ![p].at = "migrate"]
    /\ UNCHANGED <<version, schema, row, erased, disturbed>>

\* The stamp follows the commit, in a statement of its own.
Stamp(p) ==
    /\ opener[p].at = "stamp"
    /\ version' = opener[p].current
    /\ opener' = [opener EXCEPT ![p].at = "migrate"]
    /\ UNCHANGED <<schema, row, erased, disturbed>>

Opened(p) ==
    /\ opener[p].at = "migrate" /\ opener[p].current = Latest
    /\ opener' = [opener EXCEPT ![p].at = "open"]
    /\ UNCHANGED <<version, schema, row, erased, disturbed>>

(***************************************************************************)
(* What the process then does, and its end                                 *)
(***************************************************************************)

InsertEnv(p, g) ==
    /\ opener[p].at = "open" /\ row[g] = "none"
    /\ row' = [row EXCEPT ![g] = "blank"]
    /\ UNCHANGED <<version, schema, opener, erased, disturbed>>

SetProvisionSignals(p, g) ==
    /\ opener[p].at = "open" /\ row[g] = "blank"
    /\ row' = [row EXCEPT ![g] = "known"]
    /\ UNCHANGED <<version, schema, opener, erased, disturbed>>

Close(p) ==
    /\ opener[p].at \in {"open", "failed"}
    /\ opener' = [opener EXCEPT ![p] = Closed]
    /\ UNCHANGED <<version, schema, row, erased, disturbed>>

\* An error of a statement, or the death of the process.
Crash(p) ==
    /\ "crash" \in Faults
    /\ opener[p].at \notin {"closed", "open", "failed"}
    /\ opener' = [opener EXCEPT ![p] = Closed]
    /\ disturbed' = (disturbed \/ opener[p].at = "stamp")
    /\ UNCHANGED <<version, schema, row, erased>>

OpenStep(p) ==
    \/ CreateBaseline(p) \/ ReadVersion(p) \/ StampBaseline(p)
    \/ Migrate2(p) \/ Migrate3(p) \/ Migrate3Fail(p) \/ Stamp(p) \/ Opened(p)

UseStep(p) == \E g \in Guid : InsertEnv(p, g) \/ SetProvisionSignals(p, g)

Next == \E p \in Opener : OpenStep(p) \/ UseStep(p) \/ Close(p) \/ Crash(p)

Spec == Init /\ [][Next]_vars

(***************************************************************************)
(* Properties                                                              *)
(***************************************************************************)

\* The types of all variables.
TypeOK ==
    /\ version \in 0 .. Latest
    /\ schema \subseteq Table \cup Column \cup Index
    /\ row \in [Guid -> {"none", "blank", "known"}]
    /\ opener \in [Opener -> [at : {"closed", "read", "stamp_baseline", "migrate", "stamp",
                                    "open", "failed"},
                              current : 0 .. Latest]]
    /\ erased \subseteq Guid
    /\ disturbed \in BOOLEAN

\* The version never promises a column that is not there, whatever openers
\* overwrite each other's stamps or die: a stamp only follows its commit.
VersionIsBacked ==
    /\ version >= 1 => Table \subseteq schema
    /\ version >= 2 => "ssh_host_key_fps" \in schema
    /\ version >= 3 => "acked_by" \in schema

\* A process that has opened the database has the whole schema under it,
\* however many openers migrate at the same time.
OpenIsCurrent ==
    \A p \in Opener : opener[p].at = "open" =>
        Table \cup Column \subseteq schema

\* As long as no two openings overlap and none dies between the commit of a
\* migration and its stamp, no migration is run twice: every opening succeeds,
\* and none blanks fingerprints that an env has recorded.
OpenSucceedsUndisturbed ==
    ~disturbed => erased = {} /\ \A p \in Opener : opener[p].at # "failed"

\* "Idempotent: safe to call on a cold (missing) file or an existing one"
\* (store.rs:31, of open).  Not so once an opener has died between the commit of
\* migration 3 and its stamp: the next one adds the column again, and fails.
OpenSucceeds == \A p \in Opener : opener[p].at # "failed"

=============================================================================
