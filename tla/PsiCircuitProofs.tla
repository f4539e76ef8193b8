-------------------------- MODULE PsiCircuitProofs --------------------------
(***************************************************************************)
(* Proofs about PsiCircuit, for every capacity up to 255, every set of     *)
(* hashes and every count: the loop invariant, from which the circuit      *)
(* returns exactly the intersection, counts it exactly, and does the same  *)
(* number of comparisons whatever the inputs are.                          *)
(***************************************************************************)
EXTENDS PsiCircuit, FiniteSetTheorems, TLAPS

-----------------------------------------------------------------------------
(* What the helpers of the circuit compute. *)

\* A slot number is not changed by the cast to a byte.
LEMMA SlotFitsU8 ==
  ASSUME NEW k \in Slots
  PROVE  /\ AsU8(k) = k
         /\ k \in 0..255
BY CircuitAssumption, SMT DEF AsU8, Slots

\* Comparing the halves is comparing the hashes, and the zero hash is the empty one.
LEMMA HashEquality ==
  ASSUME NEW a \in ContactHash, NEW b \in ContactHash
  PROVE  /\ hashes_equal(a, b) <=> a = b
         /\ is_empty_hash(a) <=> a = empty_hash
         /\ empty_hash \in ContactHash
BY CircuitAssumption DEF ContactHash, hashes_equal, is_empty_hash, empty_hash

\* A slot is valid when it is filled and lies below the count.
LEMMA ValidMeaning ==
  ASSUME NEW set \in ContactSet, NEW k \in Slots
  PROVE  /\ set.contacts[k] \in ContactHash
         /\ Valid(set, k) <=> set.contacts[k] # empty_hash /\ k < set.count
<1>1. set.contacts[k] \in ContactHash
  BY DEF ContactSet
<1>2. AsU8(k) = k
  BY SlotFitsU8
<1>3. is_empty_hash(set.contacts[k]) <=> set.contacts[k] = empty_hash
  BY <1>1, HashEquality
<1>4. QED
  BY <1>1, <1>2, <1>3 DEF Valid

\* Two slots match when they hold the same contact and both are valid.
LEMMA MatchMeaning ==
  ASSUME TypeOK, NEW k \in Slots, NEW m \in Slots
  PROVE  IsMatch(k, m) <=> /\ set_a.contacts[k] # empty_hash
                           /\ k < set_a.count
                           /\ m < set_b.count
                           /\ set_a.contacts[k] = set_b.contacts[m]
<1>1. set_a \in ContactSet /\ set_b \in ContactSet
  BY DEF TypeOK
<1>2. /\ set_a.contacts[k] \in ContactHash
      /\ Valid(set_a, k) <=> set_a.contacts[k] # empty_hash /\ k < set_a.count
  BY <1>1, ValidMeaning
<1>3. /\ set_b.contacts[m] \in ContactHash
      /\ Valid(set_b, m) <=> set_b.contacts[m] # empty_hash /\ m < set_b.count
  BY <1>1, ValidMeaning
<1>4. hashes_equal(set_a.contacts[k], set_b.contacts[m])
        <=> set_a.contacts[k] = set_b.contacts[m]
  BY <1>2, <1>3, HashEquality
<1>5. QED
  BY <1>2, <1>3, <1>4 DEF IsMatch

\* The slots are finitely many, and so are the marked ones.
LEMMA MarkedFinite ==
  ASSUME NEW r
  PROVE  /\ Marked(r) \subseteq Slots
         /\ IsFiniteSet(Marked(r))
         /\ Cardinality(Marked(r)) \in 0..MAX_CONTACTS
<1>1. IsFiniteSet(Slots) /\ Cardinality(Slots) = MAX_CONTACTS
  BY CircuitAssumption, FS_Interval, SMT DEF Slots
<1>2. Marked(r) \in SUBSET Slots
  BY DEF Marked
<1>3. IsFiniteSet(Marked(r)) /\ Cardinality(Marked(r)) <= MAX_CONTACTS
  BY <1>1, <1>2, FS_Subset
<1>4. Cardinality(Marked(r)) \in Nat
  BY <1>3, FS_CardinalityType
<1>5. QED
  BY <1>2, <1>3, <1>4, CircuitAssumption, SMT

-----------------------------------------------------------------------------
(* The inductive invariant. *)

\* The comparisons made so far, the place of the counters and what was returned.
ProgressInv ==
  /\ comparisons = i * MAX_CONTACTS + j
  /\ i = MAX_CONTACTS => j = 0
  /\ \A o \in output : /\ i = MAX_CONTACTS
                       /\ o.owner = set_a.owner
                       /\ o.result = result

\* The induction hypothesis: types, the loop invariant and the progress made.
IInv == TypeOK /\ LoopInv /\ ProgressInv

\* The initial state satisfies the invariant.
LEMMA InitIInv == Init => IInv
<1> SUFFICES ASSUME Init PROVE IInv
  OBVIOUS
<1>1. empty_hash \in ContactHash
  BY CircuitAssumption DEF ContactHash, empty_hash
<1>2. TypeOK
  <2>1. result \in PsiResult
    <3>1. [k \in Slots |-> FALSE] \in [Slots -> BOOLEAN]
      OBVIOUS
    <3>2. [k \in Slots |-> empty_hash] \in [Slots -> ContactHash]
      BY <1>1
    <3>3. QED
      BY <3>1, <3>2 DEF Init, PsiResult
  <2>2. output \in SUBSET [owner : Clients, result : PsiResult]
    BY DEF Init
  <2>3. i \in 0..MAX_CONTACTS /\ j \in 0..MAX_CONTACTS /\ comparisons \in Nat
    BY CircuitAssumption, SMT DEF Init
  <2>4. QED
    BY <2>1, <2>2, <2>3 DEF Init, TypeOK
<1>3. Marked(result) = {}
  BY DEF Init, Marked
<1>4. LoopInv
  <2>1. found <=> \E m \in Slots : m < j /\ IsMatch(i, m)
    BY SMT DEF Init, Slots
  <2>2. ASSUME NEW k \in Slots
        PROVE  /\ result.matches[k] <=> (k < i /\ \E m \in Slots : IsMatch(k, m))
               /\ result.matched_hashes[k] =
                    IF result.matches[k] THEN set_a.contacts[k] ELSE empty_hash
    BY SMT DEF Init, Slots
  <2>3. result.match_count = Cardinality(Marked(result))
    BY <1>3, FS_EmptySet DEF Init
  <2>4. QED
    BY <2>1, <2>2, <2>3 DEF LoopInv
<1>5. ProgressInv
  BY CircuitAssumption, SMT DEF Init, ProgressInv
<1>6. QED
  BY <1>2, <1>4, <1>5 DEF IInv

\* One comparison keeps the invariant: only found, j and the history move.
LEMMA CompareIInv ==
  ASSUME IInv, CompareSlots
  PROVE  IInv'
<1> USE DEF IInv
<1>1. /\ i \in Slots /\ j \in Slots
      /\ i' = i /\ result' = result /\ output' = output
      /\ set_a' = set_a /\ set_b' = set_b
      /\ j' = j + 1 /\ j' \in 1..MAX_CONTACTS
      /\ comparisons' = comparisons + 1
  BY CircuitAssumption, SMT DEF CompareSlots, TypeOK, Slots
<1>2. found' <=> found \/ IsMatch(i, j)
  BY DEF CompareSlots, TypeOK
<1>3. \A k, m \in Slots : IsMatch(k, m)' <=> IsMatch(k, m)
  BY <1>1 DEF IsMatch, Valid
<1>4. TypeOK'
  <2>1. found' \in BOOLEAN
    BY DEF CompareSlots, TypeOK
  <2>2. comparisons' \in Nat /\ j' \in 0..MAX_CONTACTS
    BY <1>1, CircuitAssumption, SMT DEF TypeOK
  <2>3. QED
    BY <1>1, <2>1, <2>2 DEF TypeOK
<1>5. LoopInv'
  <2>1. found' <=> \E m \in Slots : m < j' /\ IsMatch(i, m)
    <3>1. \A m \in Slots : m < j + 1 <=> m < j \/ m = j
      BY <1>1, SMT DEF Slots
    <3>2. QED
      BY <1>1, <1>2, <3>1 DEF LoopInv
  <2>2. found' <=> \E m \in Slots : m < j' /\ IsMatch(i, m)'
    BY <2>1, <1>1, <1>3
  <2>3. \A k \in Slots :
          /\ result.matches[k] <=> (k < i /\ \E m \in Slots : IsMatch(k, m)')
          /\ result.matched_hashes[k] =
               IF result.matches[k] THEN set_a.contacts[k] ELSE empty_hash
    BY <1>3 DEF LoopInv
  <2>4. result.match_count = Cardinality(Marked(result))
    BY DEF LoopInv
  <2>5. QED
    BY <1>1, <2>2, <2>3, <2>4 DEF LoopInv
<1>6. ProgressInv'
  <2>1. comparisons' = i' * MAX_CONTACTS + j'
    BY <1>1, CircuitAssumption, SMT DEF ProgressInv, TypeOK
  <2>2. i # MAX_CONTACTS
    BY <1>1, CircuitAssumption, SMT DEF Slots
  <2>3. QED
    BY <1>1, <2>1, <2>2 DEF ProgressInv
<1>7. QED
  BY <1>4, <1>5, <1>6

\* Recording slot i keeps the invariant: the marked slots grow by i exactly
\* when some slot of B matched it, and the byte that counts them cannot wrap.
LEMMA RecordIInv ==
  ASSUME IInv, RecordSlot
  PROVE  IInv'
<1> USE DEF IInv
<1>1. /\ i \in Slots /\ j = MAX_CONTACTS
      /\ i' = i + 1 /\ i' \in 1..MAX_CONTACTS
      /\ j' = 0 /\ found' = FALSE /\ found \in BOOLEAN
      /\ output' = output /\ comparisons' = comparisons
      /\ set_a' = set_a /\ set_b' = set_b
  BY CircuitAssumption, SMT DEF RecordSlot, TypeOK, Slots
<1>2. \A k, m \in Slots : IsMatch(k, m)' <=> IsMatch(k, m)
  BY <1>1 DEF IsMatch, Valid
<1>3. found <=> \E m \in Slots : IsMatch(i, m)
  <2>1. \A m \in Slots : m < j
    BY <1>1, CircuitAssumption, SMT DEF Slots
  <2>2. QED
    BY <2>1 DEF LoopInv
<1>4. /\ result.matches \in [Slots -> BOOLEAN]
      /\ result.matched_hashes \in [Slots -> ContactHash]
      /\ result.match_count \in 0..255
  BY DEF TypeOK, PsiResult
<1>5. /\ result'.matches = [result.matches EXCEPT ![i] = found]
      /\ result'.matched_hashes =
           IF found THEN [result.matched_hashes EXCEPT ![i] = set_a.contacts[i]]
           ELSE result.matched_hashes
      /\ result'.match_count =
           IF found THEN AsU8(result.match_count + 1) ELSE result.match_count
  BY DEF RecordSlot
<1>6. ~ result.matches[i]
  <2>1. ~ (i < i)
    BY <1>1, CircuitAssumption, SMT DEF Slots
  <2>2. QED
    BY <1>1, <2>1 DEF LoopInv
<1>7. Marked(result') = IF found THEN Marked(result) \cup {i} ELSE Marked(result)
  BY <1>1, <1>4, <1>5, <1>6 DEF Marked
<1>8. result'.match_count = Cardinality(Marked(result'))
  <2>1. /\ IsFiniteSet(Marked(result))
        /\ Cardinality(Marked(result')) \in 0..MAX_CONTACTS
        /\ i \notin Marked(result)
    BY <1>6, MarkedFinite DEF Marked
  <2>2. CASE ~found
    BY <2>2, <1>5, <1>7 DEF LoopInv
  <2>3. CASE found
    <3>1. Cardinality(Marked(result')) = Cardinality(Marked(result)) + 1
      BY <2>1, <2>3, <1>7, FS_AddElement
    <3>2. Cardinality(Marked(result')) = result.match_count + 1
      BY <3>1 DEF LoopInv
    <3>3. result.match_count + 1 \in 0..255
      BY <2>1, <3>2, CircuitAssumption, SMT
    <3>4. AsU8(result.match_count + 1) = result.match_count + 1
      BY <1>4, <3>3, SMT DEF AsU8
    <3>5. QED
      BY <2>3, <3>2, <3>4, <1>5
  <2>4. QED
    BY <1>1, <2>2, <2>3
<1>9. TypeOK'
  <2>1. result'.matches \in [Slots -> BOOLEAN]
    BY <1>1, <1>4, <1>5
  <2>2. result'.matched_hashes \in [Slots -> ContactHash]
    <3>1. set_a.contacts[i] \in ContactHash
      BY <1>1, ValidMeaning DEF TypeOK
    <3>2. QED
      BY <3>1, <1>1, <1>4, <1>5
  <2>3. result'.match_count \in 0..255
    <3>1. Cardinality(Marked(result')) \in 0..MAX_CONTACTS
      BY MarkedFinite
    <3>2. QED
      BY <3>1, <1>8, CircuitAssumption, SMT
  <2>4. result' \in PsiResult
    <3>1. result' = [matches        |-> result'.matches,
                     matched_hashes |-> result'.matched_hashes,
                     match_count    |-> result'.match_count]
      BY DEF RecordSlot
    <3>2. QED
      BY <3>1, <2>1, <2>2, <2>3 DEF PsiResult
  <2>5. i' \in 0..MAX_CONTACTS /\ j' \in 0..MAX_CONTACTS
    BY <1>1, CircuitAssumption, SMT
  <2>6. QED
    BY <1>1, <2>4, <2>5 DEF TypeOK
<1>10. LoopInv'
  <2>1. found' <=> (\E m \in Slots : m < j /\ IsMatch(i, m))'
    <3>1. \A m \in Slots : ~ (m < 0)
      BY CircuitAssumption, SMT DEF Slots
    <3>2. QED
      BY <1>1, <3>1
  <2>2. ASSUME NEW k \in Slots
        PROVE  /\ result'.matches[k] <=> (k < i' /\ \E m \in Slots : IsMatch(k, m)')
               /\ result'.matched_hashes[k] =
                    IF result'.matches[k] THEN set_a.contacts[k] ELSE empty_hash
    <3>1. CASE k = i
      <4>1. result'.matches[k] = found
        BY <3>1, <1>1, <1>4, <1>5
      <4>2. k < i'
        BY <3>1, <1>1, CircuitAssumption, SMT DEF Slots
      <4>3. result'.matched_hashes[k] = IF found THEN set_a.contacts[k] ELSE empty_hash
        <5>1. result.matched_hashes[i] = empty_hash
          BY <1>1, <1>6 DEF LoopInv
        <5>2. QED
          BY <5>1, <3>1, <1>1, <1>4, <1>5
      <4>4. QED
        BY <4>1, <4>2, <4>3, <3>1, <1>1, <1>2, <1>3
    <3>2. CASE k # i
      <4>1. /\ result'.matches[k] = result.matches[k]
            /\ result'.matched_hashes[k] = result.matched_hashes[k]
        BY <3>2, <1>1, <1>4, <1>5
      <4>2. k < i' <=> k < i
        BY <3>2, <1>1, CircuitAssumption, SMT DEF Slots
      <4>3. QED
        BY <4>1, <4>2, <1>2 DEF LoopInv
    <3>3. QED
      BY <3>1, <3>2
  <2>3. QED
    BY <1>1, <1>8, <2>1, <2>2 DEF LoopInv
<1>11. ProgressInv'
  <2>1. comparisons' = i' * MAX_CONTACTS + j'
    BY <1>1, CircuitAssumption, SMT DEF ProgressInv, TypeOK, Slots
  <2>2. i # MAX_CONTACTS
    BY <1>1, CircuitAssumption, SMT DEF Slots
  <2>3. QED
    BY <1>1, <2>1, <2>2 DEF ProgressInv
<1>12. QED
  BY <1>9, <1>10, <1>11

\* Returning keeps the invariant: the loops are over and what leaves is result.
LEMMA ReturnIInv ==
  ASSUME IInv, ReturnResult
  PROVE  IInv'
<1> USE DEF IInv
<1>1. /\ i = MAX_CONTACTS
      /\ output' = {[owner |-> set_a.owner, result |-> result]}
      /\ UNCHANGED <<set_a, set_b, i, j, found, result, comparisons>>
  BY DEF ReturnResult
<1>2. \A k, m \in Slots : IsMatch(k, m)' <=> IsMatch(k, m)
  BY <1>1 DEF IsMatch, Valid
<1>3. TypeOK'
  <2>1. set_a.owner \in Clients
    BY DEF TypeOK, ContactSet
  <2>2. output' \in SUBSET [owner : Clients, result : PsiResult]
    BY <1>1, <2>1 DEF TypeOK
  <2>3. QED
    BY <1>1, <2>2 DEF TypeOK
<1>4. LoopInv'
  <2>1. (\E m \in Slots : m < j /\ IsMatch(i, m))' <=> \E m \in Slots : m < j /\ IsMatch(i, m)
    BY <1>1 DEF IsMatch, Valid
  <2>2. QED
    BY <1>1, <1>2, <2>1 DEF LoopInv
<1>5. ProgressInv'
  BY <1>1 DEF ProgressInv
<1>6. QED
  BY <1>3, <1>4, <1>5

\* Every step of the circuit keeps the invariant.
LEMMA StepIInv == IInv /\ [Next]_vars => IInv'
<1> SUFFICES ASSUME IInv, [Next]_vars PROVE IInv'
  OBVIOUS
<1>1. CASE CompareSlots
  BY <1>1, CompareIInv
<1>2. CASE RecordSlot
  BY <1>2, RecordIInv
<1>3. CASE ReturnResult
  BY <1>3, ReturnIInv
<1>4. CASE UNCHANGED vars
  BY <1>4 DEF vars, IInv, TypeOK, LoopInv, ProgressInv, IsMatch, Valid
<1>5. QED
  BY <1>1, <1>2, <1>3, <1>4 DEF Next

-----------------------------------------------------------------------------
(* The theorems. *)

\* The circuit keeps its types, the loop invariant and its account of progress.
THEOREM InvariantHolds == Spec => []IInv
<1>1. Init => IInv
  BY InitIInv
<1>2. IInv /\ [Next]_vars => IInv'
  BY StepIInv
<1>3. QED
  BY <1>1, <1>2, PTL DEF Spec

\* Type correctness, for every capacity, hash width and count.
THEOREM TypeCorrect == Spec => []TypeOK
<1>1. IInv => TypeOK
  BY DEF IInv
<1>2. QED
  BY <1>1, InvariantHolds, PTL

\* The loop invariant, for every capacity, hash width and count.
THEOREM LoopCorrect == Spec => []LoopInv
<1>1. IInv => LoopInv
  BY DEF IInv
<1>2. QED
  BY <1>1, InvariantHolds, PTL

\* The number of comparisons depends on the loop counters alone.
THEOREM Oblivious == Spec => []ObliviousSchedule
<1>1. IInv => ObliviousSchedule
  <2> SUFFICES ASSUME IInv PROVE ObliviousSchedule
    OBVIOUS
  <2>1. comparisons = i * MAX_CONTACTS + j
    BY DEF IInv, ProgressInv
  <2>2. ASSUME output # {}
        PROVE  comparisons = MAX_CONTACTS * MAX_CONTACTS
    <3>1. i = MAX_CONTACTS /\ j = 0
      BY <2>2 DEF IInv, ProgressInv
    <3>2. QED
      BY <2>1, <3>1, CircuitAssumption, SMT
  <2>3. QED
    BY <2>1, <2>2 DEF ObliviousSchedule
<1>2. QED
  BY <1>1, InvariantHolds, PTL

\* Once all slots are recorded, a slot is marked exactly when its contact
\* belongs to the intersection.
LEMMA MarkedIsInIntersection ==
  ASSUME IInv, i = MAX_CONTACTS, NEW k \in Slots
  PROVE  result.matches[k] <=> /\ set_a.contacts[k] # empty_hash
                               /\ k < set_a.count
                               /\ set_a.contacts[k] \in Intersection
<1>1. result.matches[k] <=> \E m \in Slots : IsMatch(k, m)
  <2>1. k < i
    BY CircuitAssumption, SMT DEF Slots
  <2>2. QED
    BY <2>1 DEF IInv, LoopInv
<1>2. ASSUME NEW m \in Slots
      PROVE  IsMatch(k, m) <=> /\ set_a.contacts[k] # empty_hash
                               /\ k < set_a.count
                               /\ m < set_b.count
                               /\ set_a.contacts[k] = set_b.contacts[m]
  BY <1>2, MatchMeaning DEF IInv
<1>3. QED
  BY <1>1, <1>2 DEF Intersection, Contacts

\* The hashes of the finished result are the intersection.
LEMMA FinishedResult ==
  ASSUME IInv, i = MAX_CONTACTS
  PROVE  {result.matched_hashes[k] : k \in Slots} \ {empty_hash} = Intersection
<1>1. \A k \in Slots :
        result.matched_hashes[k] =
          IF result.matches[k] THEN set_a.contacts[k] ELSE empty_hash
  BY DEF IInv, LoopInv
<1>2. ASSUME NEW k \in Slots, result.matched_hashes[k] # empty_hash
      PROVE  result.matched_hashes[k] \in Intersection
  BY <1>1, <1>2, MarkedIsInIntersection
<1>3. ASSUME NEW h \in Intersection
      PROVE  \E k \in Slots : result.matched_hashes[k] = h /\ h # empty_hash
  <2>1. PICK k \in Slots : k < set_a.count /\ set_a.contacts[k] = h /\ h # empty_hash
    BY <1>3 DEF Intersection, Contacts
  <2>2. result.matches[k]
    BY <1>3, <2>1, MarkedIsInIntersection
  <2>3. QED
    BY <1>1, <2>1, <2>2
<1>4. QED
  BY <1>2, <1>3

\* What the circuit returns is exactly the intersection, for the owner of A.
THEOREM ResultCorrect == Spec => []ResultIsIntersection
<1>1. IInv => ResultIsIntersection
  BY FinishedResult DEF IInv, ProgressInv, ResultIsIntersection
<1>2. QED
  BY <1>1, InvariantHolds, PTL

\* When A repeats no contact, the marked slots and the intersection are
\* equally many: each common contact sits in exactly one marked slot.
LEMMA DistinctCount ==
  ASSUME IInv, i = MAX_CONTACTS, DistinctA
  PROVE  Cardinality(Marked(result)) = Cardinality(Intersection)
<1> DEFINE f == [k \in Marked(result) |-> set_a.contacts[k]]
<1>1. \A k \in Marked(result) :
        k \in Slots /\ Valid(set_a, k) /\ set_a.contacts[k] \in Intersection
  <2> SUFFICES ASSUME NEW k \in Marked(result)
               PROVE  k \in Slots /\ Valid(set_a, k) /\ set_a.contacts[k] \in Intersection
    OBVIOUS
  <2>1. k \in Slots /\ result.matches[k]
    BY DEF Marked
  <2>2. /\ set_a.contacts[k] # empty_hash
        /\ k < set_a.count
        /\ set_a.contacts[k] \in Intersection
    BY <2>1, MarkedIsInIntersection
  <2>3. QED
    BY <2>1, <2>2, ValidMeaning DEF IInv, TypeOK
<1>2. f \in [Marked(result) -> Intersection]
  BY <1>1
<1>3. \A k, m \in Marked(result) : f[k] = f[m] => k = m
  BY <1>1 DEF DistinctA
<1>4. \A h \in Intersection : \E k \in Marked(result) : f[k] = h
  <2> SUFFICES ASSUME NEW h \in Intersection
               PROVE  \E k \in Marked(result) : f[k] = h
    OBVIOUS
  <2>1. PICK k \in Slots : k < set_a.count /\ set_a.contacts[k] = h /\ h # empty_hash
    BY DEF Intersection, Contacts
  <2>2. result.matches[k]
    BY <2>1, MarkedIsInIntersection
  <2>3. k \in Marked(result) /\ f[k] = h
    BY <2>1, <2>2 DEF Marked
  <2>4. QED
    BY <2>3
<1>5. f \in Bijection(Marked(result), Intersection)
  BY <1>2, <1>3, <1>4 DEF Bijection, Injection, Surjection, IsInjective
<1>6. ExistsBijection(Marked(result), Intersection)
  BY <1>5 DEF ExistsBijection
<1>7. QED
  BY <1>6, MarkedFinite, FS_Bijection

\* match_count is exact, and the size of the intersection when A repeats nothing.
THEOREM CountCorrect == Spec => []CountIsExact
<1>1. IInv => CountIsExact
  <2> SUFFICES ASSUME IInv, NEW o \in output
               PROVE  /\ o.result.match_count = Cardinality(Marked(o.result))
                      /\ DistinctA => o.result.match_count = Cardinality(Intersection)
    BY DEF CountIsExact
  <2>1. i = MAX_CONTACTS /\ o.result = result
    BY DEF IInv, ProgressInv
  <2>2. result.match_count = Cardinality(Marked(result))
    BY DEF IInv, LoopInv
  <2>3. QED
    BY <2>1, <2>2, DistinctCount
<1>2. QED
  BY <1>1, InvariantHolds, PTL

=============================================================================
