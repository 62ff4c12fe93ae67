-------------------------------- MODULE Alloc --------------------------------
(***************************************************************************)
(* How the allocator chooses an address (core/src/alloc.rs,                *)
(* lowest_free_ip): it reads the addresses of the Active rows in any       *)
(* order, keeps those of the pool, sorts them and walks up from the lower  *)
(* bound until it meets a gap.  Lifecycle takes the outcome, the lowest    *)
(* address that no Active row has, as one step of a transaction; here the  *)
(* loops are shown to compute it, at the boundaries of the pool too.       *)
(***************************************************************************)
EXTENDS Integers, Sequences, Functions

CONSTANTS
    Lo, Hi,         \* the inclusive pool, as unsigned integers
    Address,        \* the addresses that rows may hold, in the pool or not
    MaxRows         \* bound on the number of Active rows

NoAddress == -1     \* the text does not parse: a re-adopted row has none

ASSUME PoolAssumption ==
    Lo \in Nat /\ Hi \in Nat /\ Address \subseteq Nat /\ MaxRows \in Nat

Pool == Lo .. Hi

VARIABLES
    rows,       \* the ip column of the Active rows
    at,         \* "read", "scan" or "done"
    occupied,   \* the vector
    i,          \* the next row to read, then the next element to visit
    candidate,
    result      \* NoAddress for None

vars == <<rows, at, occupied, i, candidate, result>>

Init ==
    /\ rows \in UNION {[1 .. n -> Address \cup {NoAddress}] : n \in 0 .. MaxRows}
    /\ at = "read" /\ occupied = <<>> /\ i = 1
    /\ candidate = Lo /\ result = NoAddress

Read ==
    /\ at = "read" /\ i <= Len(rows)
    /\ occupied' = IF rows[i] \in Pool THEN Append(occupied, rows[i]) ELSE occupied
    /\ i' = i + 1
    /\ UNCHANGED <<rows, at, candidate, result>>

Sorted(s) == \A j, k \in 1 .. Len(s) : j <= k => s[j] <= s[k]

\* sort_unstable
Sort ==
    LET n == Len(occupied) IN
    /\ at = "read" /\ i > Len(rows)
    /\ \E p \in Bijection(1 .. n, 1 .. n) :
          /\ occupied' = [k \in 1 .. n |-> occupied[p[k]]]
          /\ Sorted(occupied')
    /\ at' = "scan" /\ i' = 1
    /\ UNCHANGED <<rows, candidate, result>>

\* A second row with an address that has been passed.
Skip ==
    /\ at = "scan" /\ i <= Len(occupied)
    /\ occupied[i] < candidate
    /\ i' = i + 1
    /\ UNCHANGED <<rows, at, occupied, candidate, result>>

\* Mutant: past the upper bound.
ClimbPast ==
    /\ at = "scan" /\ i <= Len(occupied)
    /\ occupied[i] = candidate
    /\ candidate' = candidate + 1
    /\ i' = i + 1
    /\ UNCHANGED <<rows, at, occupied, result>>

Climb ==
    /\ at = "scan" /\ i <= Len(occupied)
    /\ occupied[i] = candidate /\ candidate # Hi
    /\ candidate' = candidate + 1
    /\ i' = i + 1
    /\ UNCHANGED <<rows, at, occupied, result>>

Full ==
    /\ at = "scan" /\ i <= Len(occupied)
    /\ occupied[i] = candidate /\ candidate = Hi
    /\ at' = "done"
    /\ UNCHANGED <<rows, occupied, i, candidate, result>>

\* Mutant: any other address is a gap.
FinishEarly ==
    /\ at = "scan"
    /\ i <= Len(occupied) => occupied[i] # candidate
    /\ at' = "done"
    /\ result' = IF candidate <= Hi THEN candidate ELSE NoAddress
    /\ UNCHANGED <<rows, occupied, i, candidate>>

\* A gap below the next element, or the end of the vector.
Finish ==
    /\ at = "scan"
    /\ i <= Len(occupied) => occupied[i] > candidate
    /\ at' = "done"
    /\ result' = IF candidate <= Hi THEN candidate ELSE NoAddress
    /\ UNCHANGED <<rows, occupied, i, candidate>>

Next == Read \/ Sort \/ Skip \/ Climb \/ Full \/ Finish

Spec == Init /\ [][Next]_vars

(***************************************************************************)
(* Properties                                                              *)
(***************************************************************************)

\* The types of all variables.
TypeOK ==
    /\ rows \in Seq(Address \cup {NoAddress})
    /\ at \in {"read", "scan", "done"}
    /\ occupied \in Seq(Pool)
    /\ i \in Nat \ {0}
    /\ candidate \in Nat
    /\ result \in Pool \cup {NoAddress}

Free == Pool \ {rows[k] : k \in 1 .. Len(rows)}

\* What the loops return is the lowest free address, or none when there is none.
LowestFree ==
    at = "done" =>
        IF Free = {} THEN result = NoAddress
        ELSE result \in Free /\ \A ip \in Free : result <= ip

\* The candidate never passes the upper bound, so at 255.255.255.255 the sum does
\* not overflow an unsigned 32-bit integer.
NoOverflow == candidate = Lo \/ candidate \in Pool

=============================================================================
