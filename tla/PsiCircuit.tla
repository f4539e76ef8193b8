----------------------------- MODULE PsiCircuit -----------------------------
(***************************************************************************)
(* The confidential instruction compute_psi of encrypted-ixs/src/lib.rs.   *)
(* Two encrypted contact sets come in; two nested loops with fixed         *)
(* iteration counts mark the contacts of set A that also occur in set B.   *)
(*                                                                         *)
(* One step of this specification is one iteration of the inner loop, the  *)
(* tail of one iteration of the outer loop, or the final return.  A hash   *)
(* keeps its two halves, the halves themselves are abstract words, and a   *)
(* u8 keeps its width.  Slots are numbered from 0 as in the code.          *)
(***************************************************************************)
EXTENDS Integers, FiniteSets

CONSTANTS
  MAX_CONTACTS,  \* slots of a contact set
  Half,          \* the values a 128-bit half of a hash takes, 0 among them
  Counts,        \* the values the count field takes
  Clients        \* owners of the shared secrets the sets are encrypted with

\* count and match_count are bytes, and (i as u8) numbers every slot.
ASSUME CircuitAssumption ==
  /\ MAX_CONTACTS \in 1..255
  /\ 0 \in Half
  /\ Counts \subseteq 0..255

AsU8(n) == n % 256

Slots       == 0..(MAX_CONTACTS - 1)
ContactHash == [lo : Half, hi : Half]
ContactSet  == [owner : Clients, contacts : [Slots -> ContactHash], count : Counts]
PsiResult   == [matches        : [Slots -> BOOLEAN],
                matched_hashes : [Slots -> ContactHash],
                match_count    : 0..255]

VARIABLES
  set_a, set_b,  \* the two inputs, shared between the nodes
  i, j,          \* the loop counters
  found,         \* whether slot i of A has met an equal contact of B
  result,        \* the result under construction
  output,        \* the values returned: none, then exactly one
  comparisons    \* history: how often the body of the inner loop has run

inputs == <<set_a, set_b>>
vars   == <<set_a, set_b, i, j, found, result, output, comparisons>>

-----------------------------------------------------------------------------
empty_hash == [lo |-> 0, hi |-> 0]

hashes_equal(a, b) == a.lo = b.lo /\ a.hi = b.hi

is_empty_hash(h) == h.lo = 0 /\ h.hi = 0

\* Mutant of Valid: the count of the set is ignored.
ValidPastCount(set, k) == ~is_empty_hash(set.contacts[k])

\* a_valid and b_valid: slot k is filled and below the count of the set.
Valid(set, k) == ~is_empty_hash(set.contacts[k]) /\ AsU8(k) < set.count

\* is_match for slot k of A and slot m of B.
IsMatch(k, m) ==
  /\ Valid(set_a, k)
  /\ Valid(set_b, m)
  /\ hashes_equal(set_a.contacts[k], set_b.contacts[m])

Init ==
  /\ set_a \in ContactSet
  /\ set_b \in ContactSet
  /\ i = 0 /\ j = 0
  /\ found = FALSE
  /\ result = [matches        |-> [k \in Slots |-> FALSE],
               matched_hashes |-> [k \in Slots |-> empty_hash],
               match_count    |-> 0]
  /\ output = {}
  /\ comparisons = 0

\* Mutant of CompareSlots: a later mismatch forgets an earlier match.
CompareSlotsForgetting ==
  /\ i < MAX_CONTACTS
  /\ j < MAX_CONTACTS
  /\ found' = IsMatch(i, j)
  /\ j' = j + 1
  /\ comparisons' = comparisons + 1
  /\ UNCHANGED <<set_a, set_b, i, result, output>>

\* Mutant of CompareSlots: the inner loop is left at the first match.
CompareSlotsBreaking ==
  /\ i < MAX_CONTACTS
  /\ j < MAX_CONTACTS
  /\ found' = IsMatch(i, j)
  /\ j' = IF found' THEN MAX_CONTACTS ELSE j + 1
  /\ comparisons' = comparisons + 1
  /\ UNCHANGED <<set_a, set_b, i, result, output>>

\* One iteration of the inner loop.  Both branches of the conditional are
\* evaluated by the nodes; new_match only selects the value that is kept.
CompareSlots ==
  /\ i < MAX_CONTACTS
  /\ j < MAX_CONTACTS
  /\ LET new_match == IsMatch(i, j) /\ ~found
     IN  found' = IF new_match THEN TRUE ELSE found
  /\ j' = j + 1
  /\ comparisons' = comparisons + 1
  /\ UNCHANGED <<set_a, set_b, i, result, output>>

\* Mutant of RecordSlot: the count advances for every slot.
RecordSlotCountingAll ==
  /\ i < MAX_CONTACTS
  /\ j = MAX_CONTACTS
  /\ result' =
       [matches        |-> [result.matches EXCEPT ![i] = found],
        matched_hashes |-> IF found
                           THEN [result.matched_hashes EXCEPT ![i] = set_a.contacts[i]]
                           ELSE result.matched_hashes,
        match_count    |-> AsU8(result.match_count + 1)]
  /\ i' = i + 1
  /\ j' = 0
  /\ found' = FALSE
  /\ UNCHANGED <<set_a, set_b, output, comparisons>>

\* The tail of the outer loop: record what was found for slot i.
RecordSlot ==
  /\ i < MAX_CONTACTS
  /\ j = MAX_CONTACTS
  /\ result' =
       [matches        |-> [result.matches EXCEPT ![i] = found],
        matched_hashes |-> IF found
                           THEN [result.matched_hashes EXCEPT ![i] = set_a.contacts[i]]
                           ELSE result.matched_hashes,
        match_count    |-> IF found THEN AsU8(result.match_count + 1)
                           ELSE result.match_count]
  /\ i' = i + 1
  /\ j' = 0
  /\ found' = FALSE
  /\ UNCHANGED <<set_a, set_b, output, comparisons>>

\* Mutant of ReturnResult: only the flags are returned.
ReturnFlagsOnly ==
  /\ i = MAX_CONTACTS
  /\ output = {}
  /\ output' = {[owner |-> set_a.owner, result |-> [matches |-> result.matches]]}
  /\ UNCHANGED <<set_a, set_b, i, j, found, result, comparisons>>

\* Mutant of ReturnResult: an empty result is never returned.
ReturnNonEmpty ==
  /\ i = MAX_CONTACTS
  /\ output = {}
  /\ result.match_count > 0
  /\ output' = {[owner |-> set_a.owner, result |-> result]}
  /\ UNCHANGED <<set_a, set_b, i, j, found, result, comparisons>>

\* set_a.owner.from_arcis(result): the result leaves encrypted for A's owner.
ReturnResult ==
  /\ i = MAX_CONTACTS
  /\ output = {}
  /\ output' = {[owner |-> set_a.owner, result |-> result]}
  /\ UNCHANGED <<set_a, set_b, i, j, found, result, comparisons>>

Next == CompareSlots \/ RecordSlot \/ ReturnResult

Spec == Init /\ [][Next]_vars

\* The nodes of the cluster run the circuit to its end.
FairSpec == Spec /\ WF_vars(Next)

-----------------------------------------------------------------------------
(* What the circuit is for. *)

\* The contacts a set stands for: the filled slots below its count.
Contacts(set) ==
  {set.contacts[k] : k \in {m \in Slots : m < set.count}} \ {empty_hash}

Intersection == Contacts(set_a) \cap Contacts(set_b)

\* The slots of A the result marks.
Marked(r) == {k \in Slots : r.matches[k]}

\* No contact of set A is registered twice.
DistinctA ==
  \A k, m \in Slots :
    k # m /\ Valid(set_a, k) => set_a.contacts[k] # set_a.contacts[m]

-----------------------------------------------------------------------------
(* Properties. *)

\* Every variable has its type.
TypeOK ==
  /\ set_a \in ContactSet
  /\ set_b \in ContactSet
  /\ i \in 0..MAX_CONTACTS
  /\ j \in 0..MAX_CONTACTS
  /\ found \in BOOLEAN
  /\ result \in PsiResult
  /\ output \in SUBSET [owner : Clients, result : PsiResult]
  /\ comparisons \in Nat

\* The loop invariant of the two loops: found summarises the comparisons made
\* for slot i, and the recorded part of the result summarises the slots below i.
LoopInv ==
  /\ found <=> \E m \in Slots : m < j /\ IsMatch(i, m)
  /\ \A k \in Slots :
       /\ result.matches[k] <=> (k < i /\ \E m \in Slots : IsMatch(k, m))
       /\ result.matched_hashes[k] =
            IF result.matches[k] THEN set_a.contacts[k] ELSE empty_hash
  /\ result.match_count = Cardinality(Marked(result))

\* What is returned goes to the owner of set A, the requester, and the hashes it
\* carries are exactly the intersection of the two contact sets: no match is
\* missed, none is invented, and no other hash of either set leaves the cluster.
ResultIsIntersection ==
  \A o \in output :
    /\ o.owner = set_a.owner
    /\ {o.result.matched_hashes[k] : k \in Slots} \ {empty_hash} = Intersection

\* match_count counts the marked slots; when no contact of A is repeated it is
\* the size of the intersection, however often B repeats a contact.
CountIsExact ==
  \A o \in output :
    /\ o.result.match_count = Cardinality(Marked(o.result))
    /\ DistinctA => o.result.match_count = Cardinality(Intersection)

\* The work done is the same for every input: each slot of A is compared with
\* each slot of B, also after a match and past the counts.
ObliviousSchedule ==
  /\ comparisons = i * MAX_CONTACTS + j
  /\ output # {} => comparisons = MAX_CONTACTS * MAX_CONTACTS

\* The circuit returns.
Returns == <>(output # {})
=============================================================================
