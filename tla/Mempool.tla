------------------------------- MODULE Mempool --------------------------------
(***************************************************************************)
(* The queue of a cluster's computations and how arcium-client reads it    *)
(* (state.rs).  The mempool is a circular buffer with one heap of          *)
(* references per slot of time.  Its slots are numbered from the oldest,   *)
(* start_index is where the oldest is, length is how many there are, and   *)
(* valid_bits says, by number, which of them have been written since they  *)
(* were reused.  The executing pool has a fixed number of places.          *)
(*                                                                         *)
(* The Arcium program writes both.  How it does is taken from what the     *)
(* reader supposes: a slot that is reused keeps its old heap, with its     *)
(* valid bit cleared, until something is put in it.                        *)
(***************************************************************************)
EXTENDS Subsequences, SequencesExt

CONSTANTS BufferSize,   \* slots of the buffer
          HeapSize,     \* references per slot
          PoolSize      \* places of the executing pool

ASSUME SizesAssumption ==
  BufferSize \in Nat \ {0} /\ HeapSize \in Nat \ {0} /\ PoolSize \in Nat \ {0}

Slots == 0 .. BufferSize - 1

\* A ComputationReference; the accounts that the computation uses are left out.
Ref(offset, fee) == [computation_offset |-> offset, priority_fee |-> fee]
Zeroed == Ref(0, 0)

is_empty_computation_ref(c) == c = Zeroed

\* A buffer as the Arcium program leaves it: a bit is set only for a slot that is there.
IsPool(pool) ==
  /\ DOMAIN pool = {"elems", "start_index", "length", "valid_bits"}
  /\ pool.start_index \in Slots
  /\ pool.length \in 1 .. BufferSize
  /\ pool.valid_bits \subseteq 0 .. pool.length - 1

-----------------------------------------------------------------------------
(* Reading. *)

\* Mutant: off by one at the oldest slot.
NormalizedPastStart(pool, i) ==
  IF i > pool.start_index THEN i - pool.start_index
                          ELSE BufferSize - pool.start_index + i

\* The number of the slot that is at place i.
Normalized(pool, i) ==
  IF i >= pool.start_index THEN i - pool.start_index
                           ELSE BufferSize - pool.start_index + i

is_valid(valid_bits, idx) == idx \in valid_bits

\* Whether the heap at place i is to be read.
IsRead(pool, i) ==
  /\ is_valid(pool.valid_bits, Normalized(pool, i))
  /\ Normalized(pool, i) < pool.length

PlacesRead(pool) == Kept([k \in 1 .. BufferSize |-> k - 1], {i \in Slots : IsRead(pool, i)})

NotEmpty(refs) == Kept(refs, {c \in ToSet(refs) : ~ is_empty_computation_ref(c)})

\* MempoolWrapper::computations.
computations(pool) ==
  NotEmpty(FlattenSeq([k \in DOMAIN PlacesRead(pool) |-> pool.elems[PlacesRead(pool)[k]]]))

\* The places read that hold something.
PlacesWritten(pool) == Kept(PlacesRead(pool), {i \in Slots : pool.elems[i] # <<>>})

\* Mutant: the wrong end of each slot.
LowestPriority(pool) ==
  NotEmpty([k \in DOMAIN PlacesWritten(pool) |-> Last(pool.elems[PlacesWritten(pool)[k]])])

\* MempoolWrapper::computations_highest_prio.
computations_highest_prio(pool) ==
  NotEmpty([k \in DOMAIN PlacesWritten(pool) |-> Head(pool.elems[PlacesWritten(pool)[k]])])

\* ExecpoolWrapper::computations, without the indices.
executing(pool) == NotEmpty(pool)

-----------------------------------------------------------------------------
(* Writing (the Arcium program). *)

NewMempool ==
  [elems |-> [i \in Slots |-> <<>>], start_index |-> 0, length |-> 1, valid_bits |-> {}]

NewExecpool == [k \in 1 .. PoolSize |-> Zeroed]

\* The place of the slot with number n.
Place(pool, n) == (pool.start_index + n) % BufferSize

\* What the current slot holds.
Current(pool) ==
  IF pool.length - 1 \in pool.valid_bits THEN pool.elems[Place(pool, pool.length - 1)] ELSE <<>>

HasRoom(pool) == Len(Current(pool)) < HeapSize

\* Puts a reference in the current slot, the dearest first.
Push(pool, c) ==
  LET there == Current(pool)
      dear  == {d \in ToSet(there) : d.priority_fee >= c.priority_fee}
  IN  [pool EXCEPT !.elems[Place(pool, pool.length - 1)] =
                     Kept(there, dear) \o <<c>> \o Kept(there, ToSet(there) \ dear),
                   !.valid_bits = @ \union {pool.length - 1}]

\* What the oldest slot holds if it is dropped next.
Expiring(pool) ==
  IF pool.length = BufferSize /\ 0 \in pool.valid_bits THEN pool.elems[pool.start_index] ELSE <<>>

\* Time goes on by a slot.
Advance(pool) ==
  IF pool.length < BufferSize
    THEN [pool EXCEPT !.length = @ + 1]
    ELSE [pool EXCEPT !.start_index = (@ + 1) % BufferSize,
                      !.valid_bits = {n - 1 : n \in @ \ {0}}]

\* Takes a reference out; what is left in a slot that is not read stays as it is.
TakeOut(pool, c) ==
  [pool EXCEPT !.elems =
     [i \in Slots |-> IF IsRead(pool, i) THEN Kept(pool.elems[i], ToSet(pool.elems[i]) \ {c})
                                         ELSE pool.elems[i]]]
=============================================================================
