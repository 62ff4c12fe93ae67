----------------------------- MODULE AllocProofs -----------------------------
(***************************************************************************)
(* The allocator's loops return the lowest free address, for every pool    *)
(* and every list of rows.  AllocInv says what each loop has established:  *)
(* the reading loop has collected the pool's addresses of the rows it has  *)
(* passed, and below the scan's candidate every address is taken.          *)
(***************************************************************************)
EXTENDS Alloc, TLAPS

Elements(s) == {s[k] : k \in 1 .. Len(s)}
Taken == Elements(rows) \cap Pool

Reading ==
    /\ i <= Len(rows) + 1
    /\ candidate = Lo
    /\ Elements(occupied) = {rows[k] : k \in 1 .. i - 1} \cap Pool

Scanning ==
    /\ i <= Len(occupied) + 1
    /\ Sorted(occupied)
    /\ Elements(occupied) = Taken
    /\ candidate = Lo \/ candidate \in Pool
    /\ \A ip \in Pool : ip < candidate => ip \in Taken
    /\ \A k \in 1 .. i - 1 : occupied[k] < candidate

AllocInv ==
    /\ TypeOK
    /\ at = "read" => Reading
    /\ at = "scan" => Scanning
    /\ at # "done" => result = NoAddress
    /\ NoOverflow
    /\ LowestFree

LEMMA AllocInit == Init => AllocInv
<1> SUFFICES ASSUME Init PROVE AllocInv
  OBVIOUS
<1>1. rows \in Seq(Address \cup {NoAddress})
  BY PoolAssumption DEF Init
<1>2. TypeOK
  BY <1>1, PoolAssumption DEF Init, TypeOK, NoAddress
<1>3. Reading
  BY <1>1, PoolAssumption DEF Init, Reading, Elements
<1> QED
  BY <1>2, <1>3 DEF Init, AllocInv, NoOverflow, LowestFree

\* The reading loop: one more row has been passed.
LEMMA ReadStep == ASSUME AllocInv, Read PROVE AllocInv'
<1> USE DEF AllocInv, TypeOK
<1>1. rows \in Seq(Address \cup {NoAddress}) /\ occupied \in Seq(Pool)
      /\ i \in Nat \ {0} /\ at = "read" /\ i <= Len(rows)
  BY DEF Read
<1>2. occupied' \in Seq(Pool)
  BY <1>1 DEF Read
<1>3. TypeOK'
  BY <1>1, <1>2 DEF Read
<1>4. Elements(occupied') = IF rows[i] \in Pool THEN Elements(occupied) \cup {rows[i]}
                                               ELSE Elements(occupied)
  <2>1. CASE rows[i] \in Pool
    <3>1. occupied' = Append(occupied, rows[i])
      BY <2>1 DEF Read
    <3>2. /\ Len(occupied') = Len(occupied) + 1
          /\ \A k \in 1 .. Len(occupied) : occupied'[k] = occupied[k]
          /\ occupied'[Len(occupied) + 1] = rows[i]
      BY <1>1, <2>1, <3>1
    <3> QED  BY <1>1, <2>1, <3>2 DEF Elements
  <2>2. CASE rows[i] \notin Pool
    BY <2>2 DEF Read
  <2> QED  BY <2>1, <2>2
<1>5. {rows[k] : k \in 1 .. i} = {rows[k] : k \in 1 .. i - 1} \cup {rows[i]}
  BY <1>1
<1>6. Elements(occupied') = {rows[k] : k \in 1 .. i} \cap Pool
  BY <1>1, <1>4, <1>5 DEF Reading
<1>7. i' = i + 1 /\ rows' = rows /\ candidate' = candidate /\ at' = at /\ result' = result
  BY DEF Read
<1>8. Reading'
  BY <1>1, <1>6, <1>7 DEF Reading, Elements
<1> QED  BY <1>1, <1>3, <1>7, <1>8 DEF NoOverflow, LowestFree

LEMMA IsASeq ==
    ASSUME NEW S, NEW n \in Nat, NEW f \in [1 .. n -> S]
    PROVE  f \in Seq(S) /\ Len(f) = n
OBVIOUS

\* The sort keeps the elements.
LEMMA SortStep == ASSUME AllocInv, Sort PROVE AllocInv'
<1> DEFINE n == Len(occupied)
<1> USE DEF AllocInv, TypeOK
<1>1. /\ rows \in Seq(Address \cup {NoAddress}) /\ occupied \in Seq(Pool)
      /\ i \in Nat \ {0} /\ at = "read" /\ i > Len(rows)
      /\ n \in Nat
  BY DEF Sort
<1>2. PICK p \in Bijection(1 .. n, 1 .. n) :
         occupied' = [k \in 1 .. n |-> occupied[p[k]]] /\ Sorted(occupied')
  BY DEF Sort
<1>3. /\ p \in [1 .. n -> 1 .. n]
      /\ \A k \in 1 .. n : \E j \in 1 .. n : p[j] = k
  BY <1>2 DEF Bijection, Injection, Surjection, IsInjective
<1>4. occupied' \in Seq(Pool) /\ Len(occupied') = n
  <2>1. \A k \in 1 .. n : occupied[p[k]] \in Pool
    <3>1. \A k \in 1 .. n : occupied[k] \in Pool
      BY <1>1
    <3>2. \A k \in 1 .. n : p[k] \in 1 .. n
      BY <1>3
    <3> QED  BY <3>1, <3>2
  <2>2. occupied' \in [1 .. n -> Pool]
    BY <1>2, <2>1
  <2> QED  BY <1>1, <2>2, IsASeq
<1>5. Elements(occupied') = Elements(occupied)
  BY <1>1, <1>2, <1>3, <1>4 DEF Elements
<1>6. Elements(occupied) = Taken
  BY <1>1 DEF Reading, Taken, Elements
<1>7. at' = "scan" /\ i' = 1 /\ rows' = rows /\ candidate' = candidate /\ result' = result
  BY DEF Sort
<1>8. TypeOK'
  BY <1>1, <1>4, <1>7
<1>9. Scanning'
  <2>1. Elements(occupied)' = Taken'
    BY <1>5, <1>6, <1>7 DEF Taken, Elements
  <2>2. candidate = Lo
    BY <1>1 DEF Reading
  <2>3. \A ip \in Pool : ~(ip < candidate')
    BY <1>7, <2>2, PoolAssumption DEF Pool
  <2> QED  BY <1>2, <1>4, <1>7, <2>1, <2>2, <2>3 DEF Scanning
<1>10. result = NoAddress
  BY <1>1
<1> QED  BY <1>1, <1>7, <1>8, <1>9, <1>10 DEF NoOverflow, LowestFree

\* Every element of the vector is on one side of the scan.
LEMMA ScanSides ==
    ASSUME AllocInv, at = "scan"
    PROVE  /\ rows \in Seq(Address \cup {NoAddress}) /\ occupied \in Seq(Pool)
           /\ i \in Nat \ {0} /\ candidate \in Nat /\ Lo \in Nat /\ Hi \in Nat
           /\ \A k \in 1 .. Len(occupied) : occupied[k] \in Taken /\ occupied[k] \in Lo .. Hi
           /\ \A ip \in Taken : \E k \in 1 .. Len(occupied) : ip = occupied[k]
           /\ \A k \in 1 .. i - 1 : occupied[k] < candidate
           /\ \A j, k \in 1 .. Len(occupied) : j <= k => occupied[j] <= occupied[k]
           /\ \A ip \in Pool : ip < candidate => ip \in Taken
           /\ candidate = Lo \/ candidate \in Pool
           /\ i <= Len(occupied) + 1
           /\ result = NoAddress
<1> USE DEF AllocInv, TypeOK, Scanning
<1>1. occupied \in Seq(Pool) /\ Elements(occupied) = Taken
  OBVIOUS
<1>2. \A k \in 1 .. Len(occupied) : occupied[k] \in Pool /\ occupied[k] \in Taken
  BY <1>1 DEF Elements
<1>3. \A ip \in Taken : \E k \in 1 .. Len(occupied) : ip = occupied[k]
  BY <1>1 DEF Elements
<1>4. \A j, k \in 1 .. Len(occupied) : j <= k => occupied[j] <= occupied[k]
  BY DEF Sorted
<1> QED  BY <1>2, <1>3, <1>4, PoolAssumption DEF Pool

\* The scan changes neither the rows nor the vector.
LEMMA ScanData ==
    ASSUME AllocInv, at = "scan", UNCHANGED <<rows, occupied>>
    PROVE  Sorted(occupied)' /\ Elements(occupied)' = Taken' /\ Taken' = Taken
BY DEF AllocInv, Scanning, Sorted, Elements, Taken

LEMMA SkipStep == ASSUME AllocInv, Skip PROVE AllocInv'
<1>1. /\ at = "scan" /\ i <= Len(occupied) /\ occupied[i] < candidate /\ i' = i + 1
      /\ UNCHANGED <<rows, at, occupied, candidate, result>>
  BY DEF Skip
<1>2. TypeOK'
  BY <1>1 DEF AllocInv, TypeOK
<1>3. \A k \in 1 .. i' - 1 : occupied'[k] < candidate'
  BY <1>1, ScanSides
<1>4. Scanning'
  BY <1>1, <1>3, ScanSides, ScanData DEF Scanning
<1> QED  BY <1>1, <1>2, <1>4, ScanSides DEF AllocInv, NoOverflow, LowestFree

LEMMA ClimbStep == ASSUME AllocInv, Climb PROVE AllocInv'
<1>1. /\ at = "scan" /\ i <= Len(occupied) /\ occupied[i] = candidate /\ candidate # Hi
      /\ candidate' = candidate + 1 /\ i' = i + 1
      /\ UNCHANGED <<rows, at, occupied, result>>
  BY DEF Climb
<1>2. candidate \in Taken /\ candidate \in Lo .. Hi /\ candidate' \in Pool
  BY <1>1, ScanSides, SMTT(20) DEF Pool
<1>3. TypeOK'
  BY <1>1, <1>2, ScanSides DEF AllocInv, TypeOK
<1>4. \A ip \in Pool : ip < candidate' => ip \in Taken
  BY <1>1, <1>2, ScanSides, SMTT(20) DEF Pool
<1>5. \A k \in 1 .. i' - 1 : occupied'[k] < candidate'
  <2>1. TAKE k \in 1 .. i' - 1
  <2>2. k = i \/ k \in 1 .. i - 1
    BY <1>1, ScanSides
  <2>3. occupied[k] \in Int /\ candidate \in Int
    BY <1>1, <2>2, ScanSides
  <2>4. CASE k = i
    BY <1>1, <2>3, <2>4
  <2>5. CASE k \in 1 .. i - 1
    <3>1. occupied[k] < candidate
      BY <1>1, <2>5, ScanSides
    <3> QED  BY <1>1, <2>3, <3>1
  <2> QED  BY <2>2, <2>4, <2>5
<1>6. Scanning'
  BY <1>1, <1>2, <1>4, <1>5, ScanSides, ScanData DEF Scanning
<1> QED  BY <1>1, <1>2, <1>3, <1>6, ScanSides DEF AllocInv, NoOverflow, LowestFree

LEMMA FreeIsUntaken == Free = Pool \ Taken
BY DEF Free, Taken, Elements

LEMMA FullStep == ASSUME AllocInv, Full PROVE AllocInv'
<1>1. /\ at = "scan" /\ i <= Len(occupied) /\ occupied[i] = candidate /\ candidate = Hi
      /\ at' = "done"
      /\ UNCHANGED <<rows, occupied, i, candidate, result>>
  BY DEF Full
<1>2. candidate \in Taken
  BY <1>1, ScanSides
<1>3. Free = {}
  BY <1>1, <1>2, ScanSides, FreeIsUntaken DEF Pool
<1>4. TypeOK' /\ NoOverflow'
  BY <1>1, ScanSides DEF AllocInv, TypeOK, NoOverflow
<1>5. LowestFree'
  BY <1>1, <1>3, ScanSides DEF LowestFree, Free
<1> QED  BY <1>1, <1>4, <1>5 DEF AllocInv

LEMMA FinishStep == ASSUME AllocInv, Finish PROVE AllocInv'
<1>1. /\ at = "scan" /\ (i <= Len(occupied) => occupied[i] > candidate)
      /\ at' = "done" /\ result' = IF candidate <= Hi THEN candidate ELSE NoAddress
      /\ UNCHANGED <<rows, occupied, i, candidate>>
  BY DEF Finish
<1>2. candidate \notin Taken
  <2>1. \A k \in 1 .. Len(occupied) : occupied[k] # candidate
    <3>1. TAKE k \in 1 .. Len(occupied)
    <3>2. CASE k < i
      BY <1>1, <3>2, ScanSides
    <3>3. CASE k >= i
      BY <1>1, <3>3, ScanSides
    <3> QED  BY <1>1, <3>2, <3>3, ScanSides
  <2> QED  BY <1>1, <2>1, ScanSides
<1>3. TypeOK' /\ NoOverflow'
  BY <1>1, ScanSides DEF AllocInv, TypeOK, NoOverflow, Pool
<1>4. CASE candidate <= Hi
  <2>1. candidate \in Pool /\ candidate \in Free
    BY <1>1, <1>2, <1>4, ScanSides, FreeIsUntaken DEF Pool
  <2>2. \A ip \in Free : candidate <= ip
    BY <1>1, ScanSides, FreeIsUntaken DEF Pool
  <2>3. LowestFree'
    BY <1>1, <1>4, <2>1, <2>2 DEF LowestFree, Free
  <2> QED  BY <1>1, <1>3, <2>3 DEF AllocInv
<1>5. CASE candidate > Hi
  <2>1. Free = {}
    BY <1>1, <1>5, ScanSides, FreeIsUntaken DEF Pool
  <2>2. LowestFree'
    BY <1>1, <1>5, <2>1, ScanSides DEF LowestFree, Free
  <2> QED  BY <1>1, <1>3, <2>2 DEF AllocInv
<1> QED  BY <1>1, <1>4, <1>5, ScanSides

\* The invariant holds of every behaviour.
THEOREM AllocInvariant == Spec => []AllocInv
<1>1. AllocInv /\ [Next]_vars => AllocInv'
  <2> SUFFICES ASSUME AllocInv, [Next]_vars PROVE AllocInv'
    OBVIOUS
  <2>1. CASE Next
    BY <2>1, ReadStep, SortStep, SkipStep, ClimbStep, FullStep, FinishStep DEF Next
  <2>2. CASE UNCHANGED vars
    BY <2>2 DEF vars, AllocInv, TypeOK, Reading, Scanning, NoOverflow, LowestFree,
                Elements, Taken, Sorted, Free
  <2> QED  BY <2>1, <2>2
<1> QED  BY <1>1, AllocInit, PTL DEF Spec

\* The allocator returns the lowest address of the pool that no Active row holds,
\* and fails only when every address is held.
THEOREM AllocatesLowestFree == Spec => []LowestFree
<1>1. AllocInv => LowestFree  BY DEF AllocInv
<1> QED  BY <1>1, AllocInvariant, PTL

\* Its candidate stays in the pool.
THEOREM CandidateInPool == Spec => []NoOverflow
<1>1. AllocInv => NoOverflow  BY DEF AllocInv
<1> QED  BY <1>1, AllocInvariant, PTL

\* The types of all variables.
THEOREM AllocTypes == Spec => []TypeOK
<1>1. AllocInv => TypeOK  BY DEF AllocInv
<1> QED  BY <1>1, AllocInvariant, PTL

=============================================================================
