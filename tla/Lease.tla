-------------------------------- MODULE Lease --------------------------------
(***************************************************************************)
(* What the table envs promises whoever reads it: a ledger of leases.  A   *)
(* lease is opened once, with an address that no open lease has (or with   *)
(* none), its deadline moves within a ceiling, it is closed for good, and  *)
(* only a closed one is forgotten.  Lifecycle implements it.               *)
(***************************************************************************)
EXTENDS Integers

CONSTANTS Guid, Pool, NoIp, Ceiling

VARIABLES lease, now

NoLease == [status |-> "absent", ip |-> NoIp, created |-> 0, deadline |-> 0]

Init ==
    /\ lease = [g \in Guid |-> NoLease]
    /\ now = 0

Open(g)   == lease[g].status = "active"
Closed(g) == lease[g].status \in {"reaped", "vanished"}

\* No lease but g's changes.
Only(g) ==
    /\ lease' = [lease EXCEPT ![g] = lease'[g]]
    /\ UNCHANGED now

WithinCeiling(l) == l.deadline \in l.created .. l.created + Ceiling

Grant(g) ==
    /\ lease[g] = NoLease
    /\ lease'[g].status = "active"
    /\ lease'[g].ip \in Pool \cup {NoIp}
    /\ lease'[g].ip # NoIp =>
          \A h \in Guid : Open(h) => lease[h].ip # lease'[g].ip
    /\ lease'[g].created <= now
    /\ WithinCeiling(lease'[g])
    /\ Only(g)

\* Of an open lease or a closed one.  The ceiling counts from the creation of a
\* lease with an address, and for any other from some time that is past.
Extend(g) ==
    /\ Open(g) \/ Closed(g)
    /\ \E deadline \in {lease'[g].deadline} :
          lease'[g] = [lease[g] EXCEPT !.deadline = deadline]
    /\ lease'[g].deadline \in 0 .. now + Ceiling
    /\ lease[g].ip # NoIp => WithinCeiling(lease'[g])
    /\ Only(g)

\* Also of a closed lease, which comes to be closed for another reason.
Close(g) ==
    /\ Open(g) \/ Closed(g)
    /\ \E status \in {"reaped", "vanished"} :
          lease'[g] = [lease[g] EXCEPT !.status = status]
    /\ Only(g)

Forget ==
    /\ \E old \in SUBSET {g \in Guid : Closed(g)} :
          lease' = [g \in Guid |-> IF g \in old THEN NoLease ELSE lease[g]]
    /\ UNCHANGED now

Tick ==
    /\ now' = now + 1
    /\ UNCHANGED lease

Next ==
    \/ \E g \in Guid : Grant(g) \/ Extend(g) \/ Close(g)
    \/ Forget
    \/ Tick

Spec == Init /\ [][Next]_<<lease, now>>

=============================================================================
