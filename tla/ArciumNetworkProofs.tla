-------------------------- MODULE ArciumNetworkProofs --------------------------
(***************************************************************************)
(* Proofs about arcium-client at work, for all nodes, clusters, programs   *)
(* and offsets.                                                            *)
(*                                                                         *)
(* First what the readers of the circular buffer see, and what becomes of  *)
(* a slot's heap (Holds, Runs): it keeps its order, and a reference it has *)
(* is read once.  Then the chain: an instruction that is accepted leads    *)
(* from a chain that is Sound to another, and so does a transaction,       *)
(* whichever of its instructions is refused (SafeTx).  Sound has a part    *)
(* for the programs (ChainInv), one for the queues (QueueInv) and one for  *)
(* the claims of a failure (ClaimsInv).  init_mxe and the claim of a       *)
(* failure are the transactions whose parts are not safe alone.  Each      *)
(* topic sends safe transactions only, and sets itself up with them.       *)
(* What stays as it is on the chain (Later) makes the answers of a         *)
(* discovery sound, although they are read at different times.             *)
(***************************************************************************)
EXTENDS ArciumNetwork, SubsequencesProofs, FiniteSetTheorems

-----------------------------------------------------------------------------
(* Lists of references. *)

\* The elements of what a filter keeps; what is before what else stays so.
LEMMA KeptElements ==
  ASSUME NEW X, NEW s \in Seq(X), NEW S
  PROVE  /\ Kept(s, S) \in Seq(X \cap S)
         /\ ToSet(Kept(s, S)) = ToSet(s) \cap S
         /\ IsInjective(s) => IsInjective(Kept(s, S))
<1>1. PICK f : Embedded(Kept(s, S), s, S, Len(s), f)
  BY KeptEmbeds
<1>2. Kept(s, S) \in Seq(X)
  BY KeptEmbeds
<1> DEFINE t == Kept(s, S)
<1>3. /\ f \in [DOMAIN t -> DOMAIN s]
      /\ \A k \in DOMAIN t : t[k] = s[f[k]] /\ t[k] \in S
      /\ \A k, l \in DOMAIN t : k < l => f[k] < f[l]
      /\ \A j \in DOMAIN s : s[j] \in S => \E k \in DOMAIN t : f[k] = j
  <2>1. DOMAIN s = 1 .. Len(s)
    OBVIOUS
  <2> QED BY <1>1, <2>1 DEF Embedded
<1>d. DOMAIN t = 1 .. Len(t) /\ Len(t) \in Nat /\ \A k \in DOMAIN t : t[k] \in X
  BY <1>2
<1> HIDE DEF t
<1>4. t \in Seq(X \cap S)
  <2>1. t \in Seq(X)
    BY <1>2 DEF t
  <2>2. \A k \in 1 .. Len(t) : t[k] \in X \cap S
    BY <1>3, <1>d
  <2> QED BY <2>1, <2>2
<1>5. ToSet(t) = ToSet(s) \cap S
  BY <1>3 DEF ToSet
<1>6. ASSUME IsInjective(s), NEW k \in DOMAIN t, NEW l \in DOMAIN t, t[k] = t[l] PROVE k = l
  <2>1. f[k] = f[l]
    BY <1>3, <1>6 DEF IsInjective
  <2>2. f[k] \in Int /\ f[l] \in Int
    <3>1. DOMAIN s \subseteq Int
      OBVIOUS
    <3> QED BY <3>1, <1>3
  <2> QED BY <1>3, <1>d, <2>1, <2>2
<1> QED BY <1>4, <1>5, <1>6 DEF t, IsInjective

\* Dearer references come first, each of them once.
IsHeap(h, W) ==
  /\ h \in Seq(W)
  /\ \A k, l \in DOMAIN h : k < l => h[k] # h[l] /\ h[k].priority_fee >= h[l].priority_fee

\* A heap from which some are taken is still one.
LEMMA KeptHeap ==
  ASSUME NEW W, NEW h, IsHeap(h, W), NEW S
  PROVE  IsHeap(Kept(h, S), W \cap S) /\ ToSet(Kept(h, S)) = ToSet(h) \cap S
<1> DEFINE t == Kept(h, S)
<1>0. h \in Seq(W)
  BY DEF IsHeap
<1>1. t \in Seq(W \cap S) /\ ToSet(t) = ToSet(h) \cap S
  BY <1>0, KeptElements
<1>2. PICK f : Embedded(t, h, S, Len(h), f)
  BY <1>0, KeptEmbeds
<1> HIDE DEF t
<1>3. ASSUME NEW k \in DOMAIN t, NEW l \in DOMAIN t, k < l
      PROVE  t[k] # t[l] /\ t[k].priority_fee >= t[l].priority_fee
  <2>1. f[k] < f[l] /\ f[k] \in DOMAIN h /\ f[l] \in DOMAIN h /\ t[k] = h[f[k]] /\ t[l] = h[f[l]]
    BY <1>0, <1>2, <1>3 DEF Embedded
  <2> QED BY <2>1 DEF IsHeap
<1>4. IsHeap(t, W \cap S)
  BY <1>1, <1>3 DEF IsHeap
<1> QED BY <1>1, <1>4 DEF t

\* A heap has no reference twice.
LEMMA HeapIsInjective == ASSUME NEW W, NEW h, IsHeap(h, W) PROVE IsInjective(h)
<1>1. DOMAIN h \subseteq Int
  BY DEF IsHeap
<1> QED BY <1>1 DEF IsHeap, IsInjective

\* The elements of a list put together of three.
LEMMA ThreeJoined ==
  ASSUME NEW X, NEW s \in Seq(X), NEW c \in X, NEW t \in Seq(X)
  PROVE  LET u == s \o <<c>> \o t
         IN  /\ u \in Seq(X)
             /\ DOMAIN u = 1 .. Len(s) + 1 + Len(t)
             /\ \A k \in DOMAIN u : u[k] = IF k <= Len(s) THEN s[k] ELSE IF k = Len(s) + 1 THEN c
                                           ELSE t[k - (Len(s) + 1)]
             /\ ToSet(u) = ToSet(s) \cup {c} \cup ToSet(t)
<1> DEFINE u == s \o <<c>> \o t
<1>1. u \in Seq(X) /\ DOMAIN u = 1 .. Len(s) + 1 + Len(t)
  OBVIOUS
<1>2. \A k \in DOMAIN u : u[k] = IF k <= Len(s) THEN s[k] ELSE IF k = Len(s) + 1 THEN c
                                 ELSE t[k - (Len(s) + 1)]
  OBVIOUS
<1>d. DOMAIN s = 1 .. Len(s) /\ DOMAIN t = 1 .. Len(t) /\ Len(s) \in Nat /\ Len(t) \in Nat
  OBVIOUS
<1> HIDE DEF u
<1>3. ASSUME NEW k \in DOMAIN u PROVE u[k] \in ToSet(s) \cup {c} \cup ToSet(t)
  <2>1. CASE k <= Len(s)
    BY <2>1, <1>1, <1>2, <1>d DEF ToSet
  <2>2. CASE k = Len(s) + 1
    BY <2>2, <1>1, <1>2, <1>d
  <2>3. CASE k > Len(s) + 1
    <3>1. k - (Len(s) + 1) \in DOMAIN t /\ u[k] = t[k - (Len(s) + 1)]
      BY <2>3, <1>1, <1>2, <1>d
    <3> QED BY <3>1 DEF ToSet
  <2> QED BY <2>1, <2>2, <2>3, <1>1, <1>d
<1>4. ASSUME NEW j \in DOMAIN s PROVE s[j] \in ToSet(u)
  <2>1. j \in DOMAIN u /\ u[j] = s[j]
    BY <1>1, <1>2, <1>d
  <2> QED BY <2>1 DEF ToSet
<1>5. c \in ToSet(u)
  <2>1. Len(s) + 1 \in DOMAIN u /\ u[Len(s) + 1] = c
    BY <1>1, <1>2, <1>d
  <2> QED BY <2>1 DEF ToSet
<1>6. ASSUME NEW j \in DOMAIN t PROVE t[j] \in ToSet(u)
  <2>1. Len(s) + 1 + j \in DOMAIN u /\ u[Len(s) + 1 + j] = t[j]
    BY <1>1, <1>2, <1>d
  <2> QED BY <2>1 DEF ToSet
<1>7. ToSet(u) = ToSet(s) \cup {c} \cup ToSet(t)
  BY <1>3, <1>4, <1>5, <1>6 DEF ToSet
<1> QED BY <1>1, <1>2, <1>7 DEF u

\* The fees are numbers.
Priced(W) == \A w \in W : w.priority_fee \in Int

\* A heap with one reference more, as Push puts it in.
WithOneMore(h, c) ==
  LET dear == {d \in ToSet(h) : d.priority_fee >= c.priority_fee}
  IN  Kept(h, dear) \o <<c>> \o Kept(h, ToSet(h) \ dear)

\* A reference is put in a heap before the cheaper ones.
LEMMA HeapWithOneMore ==
  ASSUME NEW W, NEW h, IsHeap(h, W), NEW c, c \notin ToSet(h), Priced(W \cup {c})
  PROVE  IsHeap(WithOneMore(h, c), W \cup {c}) /\ ToSet(WithOneMore(h, c)) = ToSet(h) \cup {c}
<1> DEFINE dear == {d \in ToSet(h) : d.priority_fee >= c.priority_fee}
           s == Kept(h, dear)
           t == Kept(h, ToSet(h) \ dear)
           u == s \o <<c>> \o t
<1>1. /\ IsHeap(s, W \cap dear) /\ IsHeap(t, W \cap (ToSet(h) \ dear))
      /\ ToSet(s) = ToSet(h) \cap dear /\ ToSet(t) = ToSet(h) \cap (ToSet(h) \ dear)
  BY KeptHeap
<1>2. s \in Seq(W \cup {c}) /\ t \in Seq(W \cup {c})
  BY <1>1 DEF IsHeap
<1>w. \A d \in ToSet(h) : d \in W /\ d # c
  BY DEF IsHeap, ToSet
<1> HIDE DEF s, t
<1>3. \A d \in ToSet(s) : d # c /\ d.priority_fee >= c.priority_fee /\ d \in W
  BY <1>1, <1>w
<1>4. \A d \in ToSet(t) : d # c /\ ~ (d.priority_fee >= c.priority_fee) /\ d \in W
  BY <1>1, <1>w
<1>5. ToSet(s) \cup {c} \cup ToSet(t) = ToSet(h) \cup {c}
  BY <1>1
<1> HIDE DEF dear
<1>6. /\ u \in Seq(W \cup {c})
      /\ DOMAIN u = 1 .. Len(s) + 1 + Len(t)
      /\ \A k \in DOMAIN u : u[k] = IF k <= Len(s) THEN s[k] ELSE IF k = Len(s) + 1 THEN c
                                    ELSE t[k - (Len(s) + 1)]
      /\ ToSet(u) = ToSet(s) \cup {c} \cup ToSet(t)
  BY <1>2, ThreeJoined
<1>d. DOMAIN s = 1 .. Len(s) /\ DOMAIN t = 1 .. Len(t) /\ Len(s) \in Nat /\ Len(t) \in Nat
  BY <1>2
<1> HIDE DEF u
<1> DEFINE n == Len(s) + 1
<1>7. ASSUME NEW k \in DOMAIN u, k < n PROVE k \in DOMAIN s /\ u[k] = s[k] /\ s[k] \in ToSet(s)
  BY <1>6, <1>7, <1>d DEF ToSet
<1>8. ASSUME NEW k \in DOMAIN u, k > n
      PROVE  k - n \in DOMAIN t /\ u[k] = t[k - n] /\ t[k - n] \in ToSet(t)
  <2>1. k - n \in DOMAIN t /\ u[k] = t[k - n]
    BY <1>6, <1>8, <1>d
  <2> QED BY <2>1 DEF ToSet
<1>9. u[n] = c /\ n \in DOMAIN u /\ n \in Nat /\ DOMAIN u \subseteq Int
  BY <1>6, <1>d
<1> HIDE DEF n
<1>10. ASSUME NEW k \in DOMAIN u, NEW l \in DOMAIN u, k < l
       PROVE  u[k] # u[l] /\ u[k].priority_fee >= u[l].priority_fee
  <2>1. CASE l < n
    <3>1. k < n
      BY <1>9, <1>10, <2>1
    <3> QED BY <3>1, <2>1, <1>1, <1>7, <1>10 DEF IsHeap
  <2>2. CASE k > n
    <3>1. l > n /\ k - n < l - n
      BY <1>9, <1>10, <2>2
    <3> QED BY <3>1, <2>2, <1>1, <1>8 DEF IsHeap
  <2>3. CASE k < n /\ l = n
    BY <2>3, <1>3, <1>7, <1>9
  <2>4. CASE k = n /\ l > n
    BY <2>4, <1>4, <1>8, <1>9 DEF Priced
  <2>5. CASE k < n /\ l > n
    <3>1. u[k] \in ToSet(s) /\ u[l] \in ToSet(t)
      BY <2>5, <1>7, <1>8
    <3> QED BY <3>1, <1>3, <1>4 DEF Priced
  <2> QED BY <2>1, <2>2, <2>3, <2>4, <2>5, <1>9, <1>10
<1>11. IsHeap(u, W \cup {c})
  BY <1>6, <1>10 DEF IsHeap
<1>12. WithOneMore(h, c) = u
  BY DEF WithOneMore, u, s, t, dear
<1> QED BY <1>5, <1>6, <1>11, <1>12

-----------------------------------------------------------------------------
(* The circular buffer. *)

\* Numbers and places correspond.
LEMMA NumberOfPlace ==
  ASSUME NEW pool, IsPool(pool), NEW n \in Slots
  PROVE  Place(pool, n) \in Slots /\ Normalized(pool, Place(pool, n)) = n
<1>1. Place(pool, n) = IF pool.start_index + n < BufferSize THEN pool.start_index + n
                                                           ELSE pool.start_index + n - BufferSize
  BY SizesAssumption DEF IsPool, Slots, Place
<1> QED
  BY <1>1, SizesAssumption DEF IsPool, Slots, Normalized

\* And places and numbers.
LEMMA PlaceOfNumber ==
  ASSUME NEW pool, IsPool(pool), NEW i \in Slots
  PROVE  Normalized(pool, i) \in Slots /\ Place(pool, Normalized(pool, i)) = i
<1> DEFINE n == Normalized(pool, i)
<1>1. n \in Slots
  BY SizesAssumption DEF IsPool, Slots, Normalized
<1> HIDE DEF n
<1>2. Place(pool, n) = IF pool.start_index + n < BufferSize THEN pool.start_index + n
                                                           ELSE pool.start_index + n - BufferSize
  BY <1>1, SizesAssumption DEF IsPool, Slots, Place
<1> QED
  BY <1>1, <1>2, SizesAssumption DEF IsPool, Slots, Normalized, n

\* Wherever the buffer starts, the places read are those of the slots that have been
\* written, each of them once. (extract_computations)
THEOREM EachSlotOnce ==
  ASSUME NEW pool, IsPool(pool)
  PROVE  /\ {i \in Slots : IsRead(pool, i)} = {Place(pool, n) : n \in pool.valid_bits}
         /\ \A m, n \in Slots : Place(pool, m) = Place(pool, n) => m = n
<1>1. pool.valid_bits \subseteq Slots
  BY SizesAssumption DEF IsPool, Slots
<1>2. \A i \in Slots : IsRead(pool, i) <=> Normalized(pool, i) \in pool.valid_bits
  BY SizesAssumption, PlaceOfNumber DEF IsPool, IsRead, is_valid, Slots
<1>3. ASSUME NEW i \in Slots, IsRead(pool, i)
      PROVE  \E n \in pool.valid_bits : i = Place(pool, n)
  BY <1>2, <1>3, PlaceOfNumber
<1>4. ASSUME NEW n \in pool.valid_bits
      PROVE  Place(pool, n) \in Slots /\ IsRead(pool, Place(pool, n))
  BY <1>1, <1>2, <1>4, NumberOfPlace
<1>5. \A m, n \in Slots : Place(pool, m) = Place(pool, n) => m = n
  BY NumberOfPlace
<1> QED
  BY <1>3, <1>4, <1>5

-----------------------------------------------------------------------------
\* When time goes on, no slot is lost, repeated or renewed but the oldest of a full
\* buffer, which is no longer read although its heap is still there.
THEOREM AdvanceDropsOldest ==
  ASSUME NEW pool, IsPool(pool), NEW i \in Slots
  PROVE  /\ IsPool(Advance(pool))
         /\ IsRead(Advance(pool), i) <=>
              /\ IsRead(pool, i)
              /\ pool.length = BufferSize => Normalized(pool, i) # 0
<1>1. Normalized(pool, i) \in Slots
  BY PlaceOfNumber
<1>2. CASE pool.length < BufferSize
  <2>1. Advance(pool) = [pool EXCEPT !.length = pool.length + 1]
    BY <1>2 DEF Advance
  <2>2. /\ DOMAIN Advance(pool) = DOMAIN pool
        /\ Advance(pool).length = pool.length + 1
        /\ Advance(pool).start_index = pool.start_index
        /\ Advance(pool).valid_bits = pool.valid_bits
    BY <2>1 DEF IsPool
  <2>3. IsPool(Advance(pool))
    BY <1>2, <2>2, SizesAssumption DEF IsPool
  <2>4. Normalized(Advance(pool), i) = Normalized(pool, i)
    BY <2>2 DEF Normalized
  <2> QED
    BY <1>1, <1>2, <2>2, <2>3, <2>4, SizesAssumption DEF IsRead, is_valid, IsPool, Slots
<1>3. CASE pool.length = BufferSize
  <2> DEFINE start == (pool.start_index + 1) % BufferSize
             bits == {n - 1 : n \in pool.valid_bits \ {0}}
  <2>1. Advance(pool) = [pool EXCEPT !.start_index = start, !.valid_bits = bits]
    BY <1>3, SizesAssumption DEF Advance
  <2>2. /\ DOMAIN Advance(pool) = DOMAIN pool
        /\ Advance(pool).length = BufferSize
        /\ Advance(pool).start_index = start
        /\ Advance(pool).valid_bits = bits
    BY <1>3, <2>1 DEF IsPool
  <2>3. start = IF pool.start_index + 1 < BufferSize THEN pool.start_index + 1 ELSE 0
    BY SizesAssumption DEF IsPool, Slots
  <2>4. bits \subseteq 0 .. BufferSize - 2
    BY <1>3, SizesAssumption DEF IsPool
  <2>5. IsPool(Advance(pool))
    BY <2>2, <2>3, <2>4, SizesAssumption DEF IsPool, Slots
  <2>6. Normalized(Advance(pool), i) =
          IF Normalized(pool, i) = 0 THEN BufferSize - 1 ELSE Normalized(pool, i) - 1
    <3>1. Normalized(Advance(pool), i) = IF i >= start THEN i - start
                                         ELSE BufferSize - start + i
      BY <2>2 DEF Normalized
    <3>2. pool.start_index \in 0 .. BufferSize - 1 /\ i \in 0 .. BufferSize - 1
      BY DEF IsPool, Slots
    <3>3. BufferSize \in Nat \ {0}
      BY SizesAssumption
    <3> HIDE DEF start
    <3> QED BY <2>3, <3>1, <3>2, <3>3 DEF Normalized
  <2>7. CASE Normalized(pool, i) = 0
    <3>1. Normalized(Advance(pool), i) \notin bits
      BY <2>4, <2>6, <2>7, SizesAssumption
    <3> QED BY <1>3, <2>2, <2>5, <2>7, <3>1 DEF IsRead, is_valid
  <2>8. CASE Normalized(pool, i) # 0
    <3>1. Normalized(pool, i) - 1 \in bits <=> Normalized(pool, i) \in pool.valid_bits
      BY <1>1, <1>3, <2>8, SizesAssumption DEF IsPool, Slots
    <3>2. /\ Normalized(pool, i) < pool.length
          /\ Normalized(pool, i) - 1 < BufferSize
      BY <1>1, <1>3, SizesAssumption DEF Slots
    <3> QED BY <2>2, <2>5, <2>6, <2>8, <3>1, <3>2 DEF IsRead, is_valid
  <2> QED BY <2>7, <2>8
<1>4. pool.length < BufferSize \/ pool.length = BufferSize
  BY SizesAssumption DEF IsPool
<1> QED
  BY <1>2, <1>3, <1>4

\* What is put in the current slot is read there, and no other slot is touched.
THEOREM PushIsRead ==
  ASSUME NEW pool, IsPool(pool), NEW c, NEW i \in Slots
  PROVE  /\ IsPool(Push(pool, c))
         /\ IsRead(Push(pool, c), i) <=>
              IsRead(pool, i) \/ i = Place(pool, pool.length - 1)
<1> DEFINE current == pool.length - 1
           after == Push(pool, c)
<1>1. current \in Slots
  BY SizesAssumption DEF IsPool, Slots
<1>2. /\ DOMAIN after = DOMAIN pool
      /\ after.start_index = pool.start_index
      /\ after.length = pool.length
      /\ after.valid_bits = pool.valid_bits \cup {current}
  BY DEF Push, IsPool
<1>3. IsPool(after)
  BY <1>2, SizesAssumption DEF IsPool
<1>4. Normalized(after, i) = Normalized(pool, i)
  BY <1>2 DEF Normalized
<1>5. Normalized(pool, i) = current <=> i = Place(pool, current)
  BY <1>1, NumberOfPlace, PlaceOfNumber
<1>6. current < pool.length /\ Normalized(pool, i) \in Slots
  BY PlaceOfNumber DEF IsPool
<1> HIDE DEF after, current
<1>7. IsRead(after, i) <=> IsRead(pool, i) \/ i = Place(pool, current)
  BY <1>2, <1>4, <1>5, <1>6 DEF IsRead, is_valid
<1> QED
  BY <1>3, <1>7 DEF after, current

-----------------------------------------------------------------------------
(* Lists put together. *)

\* The lists have no element twice, and share none.
Distinct(ss) ==
  /\ \A k \in DOMAIN ss : IsInjective(ss[k])
  /\ \A k, l \in DOMAIN ss : k # l => ToSet(ss[k]) \cap ToSet(ss[l]) = {}

\* The elements of two lists put together.
LEMMA TwoJoined ==
  ASSUME NEW X, NEW s \in Seq(X), NEW t \in Seq(X)
  PROVE  /\ s \o t \in Seq(X)
         /\ ToSet(s \o t) = ToSet(s) \cup ToSet(t)
         /\ IsInjective(s) /\ IsInjective(t) /\ ToSet(s) \cap ToSet(t) = {} => IsInjective(s \o t)
<1> DEFINE u == s \o t
<1>1. u \in Seq(X) /\ DOMAIN u = 1 .. Len(s) + Len(t)
  OBVIOUS
<1>2. \A k \in DOMAIN u : u[k] = IF k <= Len(s) THEN s[k] ELSE t[k - Len(s)]
  OBVIOUS
<1>d. DOMAIN s = 1 .. Len(s) /\ DOMAIN t = 1 .. Len(t) /\ Len(s) \in Nat /\ Len(t) \in Nat
  OBVIOUS
<1> HIDE DEF u
<1>3. ASSUME NEW k \in DOMAIN u
      PROVE  \/ k <= Len(s) /\ k \in DOMAIN s /\ u[k] = s[k] /\ s[k] \in ToSet(s)
             \/ k > Len(s) /\ k - Len(s) \in DOMAIN t /\ u[k] = t[k - Len(s)] /\ t[k - Len(s)] \in ToSet(t)
  <2>1. CASE k <= Len(s)
    BY <2>1, <1>1, <1>2, <1>d DEF ToSet
  <2>2. CASE k > Len(s)
    <3>1. k - Len(s) \in DOMAIN t /\ u[k] = t[k - Len(s)]
      BY <2>2, <1>1, <1>2, <1>d
    <3> QED BY <2>2, <3>1 DEF ToSet
  <2> QED BY <2>1, <2>2, <1>1, <1>d
<1>4. ASSUME NEW j \in DOMAIN s PROVE s[j] \in ToSet(u)
  <2>1. j \in DOMAIN u /\ u[j] = s[j]
    BY <1>1, <1>2, <1>d
  <2> QED BY <2>1 DEF ToSet
<1>5. ASSUME NEW j \in DOMAIN t PROVE t[j] \in ToSet(u)
  <2>1. Len(s) + j \in DOMAIN u /\ u[Len(s) + j] = t[j]
    BY <1>1, <1>2, <1>d
  <2> QED BY <2>1 DEF ToSet
<1>6. ToSet(u) = ToSet(s) \cup ToSet(t)
  BY <1>3, <1>4, <1>5 DEF ToSet
<1>7. ASSUME IsInjective(s), IsInjective(t), ToSet(s) \cap ToSet(t) = {},
             NEW k \in DOMAIN u, NEW l \in DOMAIN u, u[k] = u[l]
      PROVE  k = l
  <2>1. (k <= Len(s) <=> l <= Len(s))
    BY <1>3, <1>7
  <2>2. k \in Int /\ l \in Int
    BY <1>1
  <2>3. CASE k <= Len(s)
    BY <2>1, <2>3, <1>3, <1>7 DEF IsInjective
  <2>4. CASE ~ (k <= Len(s))
    <3>1. k - Len(s) = l - Len(s)
      BY <2>1, <2>4, <1>3, <1>7 DEF IsInjective
    <3> QED BY <3>1, <2>2, <1>d
  <2> QED BY <2>3, <2>4
<1> QED BY <1>1, <1>6, <1>7 DEF u, IsInjective

\* FlattenSeq goes on list by list.
LEMMA FlattenSteps ==
  ASSUME NEW X, NEW ss \in Seq(Seq(X)), Len(ss) # 0
  PROVE  \E f : /\ f[1] = ss[1]
                /\ \A i \in 2 .. Len(ss) : f[i] = f[i - 1] \o ss[i]
                /\ FlattenSeq(ss) = f[Len(ss)]
<1> DEFINE N == Len(ss)
           U == Seq(X)
           step == [p \in (1 .. N) \X U |-> p[2] \o ss[p[1]]]
           IsFlat(f) == f = [i \in 1 .. N |-> IF i = 1 THEN ss[i] ELSE f[i - 1] \o ss[i]]
<1>1. N \in Nat /\ <<>> \in U /\ (\A i \in 1 .. N : ss[i] \in U) /\ 1 \in 1 .. N
  OBVIOUS
<1>2. FlattenSeq(ss) = (CHOOSE f : IsFlat(f))[N]
  BY DEF FlattenSeq
<1> HIDE DEF N
<1>3. \A i \in 1 .. N : \A t \in U : t \o ss[i] \in U /\ step[<<i, t>>] = t \o ss[i]
  <2>1. \A i \in 1 .. N : \A t \in U : t \o ss[i] \in U
    BY <1>1
  <2> QED BY <2>1
<1>4. step \in Steps(N, U)
  BY <1>3 DEF Steps
<1> HIDE DEF step
<1>5. PICK g \in [0 .. N -> U] : Follows(g, N, <<>>, step)
  <2> HIDE DEF U
  <2> QED BY <1>1, <1>4, Recursion
<1>6. g[0] = <<>> /\ \A i \in 1 .. N : g[i] = g[i - 1] \o ss[i]
  <2>1. \A i \in 1 .. N : g[i - 1] \in U
    BY <1>1
  <2> HIDE DEF U
  <2> QED BY <2>1, <1>3, <1>5 DEF Follows
<1>7. IsFlat([i \in 1 .. N |-> g[i]])
  <2> DEFINE f == [i \in 1 .. N |-> g[i]]
  <2>1. ASSUME NEW i \in 1 .. N PROVE f[i] = IF i = 1 THEN ss[i] ELSE f[i - 1] \o ss[i]
    <3>1. CASE i = 1
      <4>1. g[1] = <<>> \o ss[1] /\ ss[1] \in Seq(X)
        <5>1. 1 \in 1 .. N /\ 1 - 1 = 0 /\ ss[1] \in Seq(X)
          BY <1>1
        <5> QED BY <5>1, <1>6
      <4>2. <<>> \o ss[1] = ss[1]
        BY <4>1
      <4> QED BY <3>1, <4>1, <4>2
    <3>2. CASE i # 1
      <4>1. i - 1 \in 1 .. N
        BY <3>2, <1>1
      <4> QED BY <4>1, <3>2, <1>6
    <3> QED BY <3>1, <3>2
  <2> QED BY <2>1
<1> DEFINE h == CHOOSE f : IsFlat(f)
<1>8. IsFlat(h)
  BY <1>7
<1> HIDE DEF h
<1>9. h[1] = ss[1] /\ \A i \in 2 .. N : h[i] = h[i - 1] \o ss[i]
  <2>1. \A i \in 2 .. N : i \in 1 .. N /\ i # 1
    BY <1>1
  <2> QED BY <2>1, <1>1, <1>8
<1>10. FlattenSeq(ss) = h[N]
  BY <1>2 DEF h
<1> QED BY <1>9, <1>10 DEF N

\* What lists put together hold.
LEMMA Flattened ==
  ASSUME NEW X, NEW ss \in Seq(Seq(X))
  PROVE  /\ FlattenSeq(ss) \in Seq(X)
         /\ ToSet(FlattenSeq(ss)) = UNION {ToSet(ss[k]) : k \in DOMAIN ss}
         /\ Distinct(ss) => IsInjective(FlattenSeq(ss))
<1>1. CASE Len(ss) = 0
  <2>1. FlattenSeq(ss) = ss /\ ss = <<>>
    BY <1>1 DEF FlattenSeq
  <2>2. ss \in Seq(X) /\ DOMAIN ss = {}
    BY <2>1
  <2> QED BY <2>1, <2>2 DEF ToSet, IsInjective
<1>2. CASE Len(ss) # 0
  <2> DEFINE N == Len(ss)
             Joined(t, n) == /\ ToSet(t) = UNION {ToSet(ss[k]) : k \in 1 .. n}
                             /\ Distinct(ss) => IsInjective(t)
  <2>1. PICK f : /\ f[1] = ss[1]
                 /\ \A i \in 2 .. N : f[i] = f[i - 1] \o ss[i]
                 /\ FlattenSeq(ss) = f[N]
    BY <1>2, FlattenSteps
  <2>2. N \in Nat \ {0} /\ DOMAIN ss = 1 .. N /\ \A i \in 1 .. N : ss[i] \in Seq(X)
    BY <1>2
  <2> HIDE DEF N
  <2>3. Joined(ss[1], 1)
    <3>1. 1 \in 1 .. N /\ 1 .. 1 = {1}
      BY <2>2
    <3> QED BY <3>1, <2>2 DEF Distinct
  <2>4. ASSUME NEW i \in 2 .. N, NEW t \in Seq(X), Joined(t, i - 1)
        PROVE  Joined(t \o ss[i], i) /\ t \o ss[i] \in Seq(X)
    <3>1. i \in 1 .. N /\ ss[i] \in Seq(X) /\ 1 .. i = (1 .. i - 1) \cup {i}
      BY <2>2
    <3>2. /\ t \o ss[i] \in Seq(X)
          /\ ToSet(t \o ss[i]) = ToSet(t) \cup ToSet(ss[i])
          /\ IsInjective(t) /\ IsInjective(ss[i]) /\ ToSet(t) \cap ToSet(ss[i]) = {}
               => IsInjective(t \o ss[i])
      BY <3>1, TwoJoined
    <3>3. UNION {ToSet(ss[k]) : k \in 1 .. i}
            = (UNION {ToSet(ss[k]) : k \in 1 .. i - 1}) \cup ToSet(ss[i])
      BY <3>1
    <3>4. Distinct(ss) => ToSet(t) \cap ToSet(ss[i]) = {}
      <4>1. \A k \in 1 .. i - 1 : k \in DOMAIN ss /\ i \in DOMAIN ss /\ k # i
        BY <2>2, <3>1
      <4> QED BY <4>1, <2>4 DEF Distinct
    <3>5. Distinct(ss) => IsInjective(ss[i])
      BY <2>2, <3>1 DEF Distinct
    <3> QED BY <3>2, <3>3, <3>4, <3>5, <2>4
  <2> DEFINE g == [n \in 0 .. N - 1 |-> f[n + 1]]
             V == [n \in 0 .. N - 1 |-> {t \in Seq(X) : Joined(t, n + 1)}]
  <2> HIDE DEF Joined
  <2>5. g[0] \in V[0]
    <3>1. 0 \in 0 .. N - 1 /\ 0 + 1 = 1 /\ ss[1] \in Seq(X)
      BY <2>2
    <3> QED BY <3>1, <2>1, <2>3
  <2>6. ASSUME NEW n \in 1 .. N - 1, g[n - 1] \in V[n - 1] PROVE g[n] \in V[n]
    <3>1. n \in 0 .. N - 1 /\ n - 1 \in 0 .. N - 1 /\ n + 1 \in 2 .. N /\ (n - 1) + 1 = n /\ (n + 1) - 1 = n
      BY <2>2
    <3>2. f[n] \in Seq(X) /\ Joined(f[n], n)
      BY <3>1, <2>6
    <3>3. f[n + 1] = f[n] \o ss[n + 1]
      BY <3>1, <2>1
    <3>4. Joined(f[n + 1], n + 1) /\ f[n + 1] \in Seq(X)
      BY <3>1, <3>2, <3>3, <2>4
    <3> QED BY <3>1, <3>4
  <2>7. f[N] \in Seq(X) /\ Joined(f[N], N)
    <3>0. N - 1 \in Nat /\ N - 1 \in 0 .. N - 1 /\ (N - 1) + 1 = N
      BY <2>2
    <3>1. g[N - 1] \in V[N - 1]
      <4> HIDE DEF g, V
      <4>1. \A n \in 0 .. N - 1 : g[n] \in V[n]
        BY <3>0, <2>5, <2>6, UpTo
      <4> QED BY <4>1, <3>0
    <3> QED BY <3>0, <3>1
  <2> QED BY <2>1, <2>2, <2>7 DEF Joined
<1> QED BY <1>1, <1>2

-----------------------------------------------------------------------------
(* What a buffer holds. *)

\* The buffer holds the references W: in each slot that is read a heap of them, each of
\* them in one slot.
Holds(m, W) ==
  /\ IsPool(m) /\ DOMAIN m.elems = Slots /\ Priced(W)
  /\ \A i \in Slots : IsRead(m, i) => IsHeap(m.elems[i], W)
  /\ \A i, j \in Slots : IsRead(m, i) /\ IsRead(m, j) /\ i # j =>
       ToSet(m.elems[i]) \cap ToSet(m.elems[j]) = {}
  /\ \A w \in W : \E i \in Slots : IsRead(m, i) /\ w \in ToSet(m.elems[i])

\* The places a reader goes through.
LEMMA ReadersGoThrough ==
  ASSUME NEW m
  PROVE  /\ PlacesRead(m) \in Seq(Slots) /\ IsInjective(PlacesRead(m))
         /\ ToSet(PlacesRead(m)) = {i \in Slots : IsRead(m, i)}
         /\ PlacesWritten(m) \in Seq(Slots)
         /\ ToSet(PlacesWritten(m)) = {i \in Slots : IsRead(m, i) /\ m.elems[i] # <<>>}
<1> DEFINE s == [k \in 1 .. BufferSize |-> k - 1]
           R == {i \in Slots : IsRead(m, i)}
           Wr == {i \in Slots : m.elems[i] # <<>>}
<1>1. s \in Seq(Slots) /\ IsInjective(s)
  BY SizesAssumption DEF Slots, IsInjective
<1>2. ToSet(s) = Slots
  <2>1. \A i \in Slots : i + 1 \in DOMAIN s /\ s[i + 1] = i
    BY SizesAssumption DEF Slots
  <2>2. \A k \in DOMAIN s : s[k] \in Slots
    BY SizesAssumption DEF Slots
  <2> HIDE DEF s
  <2> QED BY <2>1, <2>2 DEF ToSet
<1>3. PlacesRead(m) = Kept(s, R) /\ PlacesWritten(m) = Kept(PlacesRead(m), Wr)
  BY DEF PlacesRead, PlacesWritten
<1> HIDE DEF s, R, Wr
<1>4. PlacesRead(m) \in Seq(Slots \cap R) /\ IsInjective(PlacesRead(m)) /\ ToSet(PlacesRead(m)) = Slots \cap R
  <2>1. /\ Kept(s, R) \in Seq(Slots \cap R) /\ ToSet(Kept(s, R)) = ToSet(s) \cap R
        /\ IsInjective(s) => IsInjective(Kept(s, R))
    BY <1>1, KeptElements
  <2> QED BY <2>1, <1>1, <1>2, <1>3
<1>5. PlacesRead(m) \in Seq(Slots)
  BY <1>4
<1>6. PlacesWritten(m) \in Seq(Slots \cap Wr) /\ ToSet(PlacesWritten(m)) = (Slots \cap R) \cap Wr
  BY <1>3, <1>4, <1>5, KeptElements
<1>7. PlacesWritten(m) \in Seq(Slots)
  BY <1>6
<1> QED BY <1>4, <1>5, <1>6, <1>7 DEF R, Wr

\* References that are not all zero.
LEMMA NotEmptyKeeps ==
  ASSUME NEW X, NEW s \in Seq(X)
  PROVE  /\ NotEmpty(s) \in Seq(X)
         /\ ToSet(NotEmpty(s)) = ToSet(s) \ {Zeroed}
         /\ IsInjective(s) => IsInjective(NotEmpty(s))
<1> DEFINE S == {c \in ToSet(s) : ~ is_empty_computation_ref(c)}
<1>1. NotEmpty(s) = Kept(s, S)
  BY DEF NotEmpty
<1>2. S = ToSet(s) \ {Zeroed}
  BY DEF is_empty_computation_ref
<1> HIDE DEF S
<1>3. /\ Kept(s, S) \in Seq(X \cap S) /\ ToSet(Kept(s, S)) = ToSet(s) \cap S
      /\ IsInjective(s) => IsInjective(Kept(s, S))
  BY KeptElements
<1>4. Kept(s, S) \in Seq(X)
  BY <1>3
<1> QED BY <1>1, <1>2, <1>3, <1>4

\* The readers see each reference that the buffer holds exactly once, and no other.
\* (MempoolWrapper::computations)
THEOREM AllAreRead ==
  ASSUME NEW m, NEW W, Holds(m, W)
  PROVE  IsInjective(computations(m)) /\ ToSet(computations(m)) = W \ {Zeroed}
<1> DEFINE places == PlacesRead(m)
           ss == [k \in DOMAIN places |-> m.elems[places[k]]]
<1>1. /\ places \in Seq(Slots) /\ IsInjective(places) /\ ToSet(places) = {i \in Slots : IsRead(m, i)}
  BY ReadersGoThrough
<1>2. computations(m) = NotEmpty(FlattenSeq(ss))
  BY DEF computations
<1> HIDE DEF places
<1>3. \A k \in DOMAIN places : places[k] \in Slots /\ IsRead(m, places[k])
  BY <1>1 DEF ToSet
<1>4. \A k \in DOMAIN places : IsHeap(ss[k], W)
  BY <1>3 DEF Holds
<1>5. DOMAIN ss = 1 .. Len(places) /\ Len(places) \in Nat /\ DOMAIN ss = DOMAIN places
  BY <1>1
<1>s. \A k \in DOMAIN places : ss[k] = m.elems[places[k]]
  OBVIOUS
<1>f. ss = [k \in DOMAIN ss |-> ss[k]]
  OBVIOUS
<1> HIDE DEF ss
<1>6. ss \in Seq(Seq(W))
  <2>1. \A k \in DOMAIN ss : ss[k] \in Seq(W)
    BY <1>4, <1>5 DEF IsHeap
  <2>2. ss \in [1 .. Len(places) -> Seq(W)]
    BY <1>5, <1>f, <2>1
  <2> QED BY <2>2, <1>5
<1>7. Distinct(ss)
  <2>1. \A k \in DOMAIN ss : IsInjective(ss[k])
    BY <1>4, <1>5, HeapIsInjective
  <2>2. ASSUME NEW k \in DOMAIN ss, NEW l \in DOMAIN ss, k # l
        PROVE  ToSet(ss[k]) \cap ToSet(ss[l]) = {}
    <3>1. places[k] # places[l]
      BY <1>1, <1>5, <2>2 DEF IsInjective
    <3> QED BY <3>1, <1>3, <1>5, <1>s DEF Holds
  <2> QED BY <2>1, <2>2 DEF Distinct
<1>8. UNION {ToSet(ss[k]) : k \in DOMAIN ss} = W
  <2>1. ASSUME NEW w \in W PROVE \E k \in DOMAIN ss : w \in ToSet(ss[k])
    <3>1. PICK i \in Slots : IsRead(m, i) /\ w \in ToSet(m.elems[i])
      BY DEF Holds
    <3>2. PICK k \in DOMAIN places : places[k] = i
      BY <1>1, <3>1 DEF ToSet
    <3> QED BY <3>1, <3>2, <1>5, <1>s
  <2>2. ASSUME NEW k \in DOMAIN ss PROVE ToSet(ss[k]) \subseteq W
    <3>1. ss[k] \in Seq(W)
      BY <1>4, <1>5 DEF IsHeap
    <3> QED BY <3>1 DEF ToSet
  <2> QED BY <2>1, <2>2
<1>9. /\ FlattenSeq(ss) \in Seq(W) /\ ToSet(FlattenSeq(ss)) = W /\ IsInjective(FlattenSeq(ss))
  BY <1>6, <1>7, <1>8, Flattened
<1> QED BY <1>2, <1>9, NotEmptyKeeps

\* Of each slot the readers see the dearest reference first.  (computations_highest_prio)
THEOREM FirstAreDearest ==
  ASSUME NEW m, NEW W, Holds(m, W)
  PROVE  LET firsts == ToSet(computations_highest_prio(m))
         IN  /\ firsts \subseteq W \ {Zeroed}
             /\ Zeroed \notin W =>
                  \A w \in W : \E first \in firsts : first.priority_fee >= w.priority_fee
<1> DEFINE places == PlacesWritten(m)
           s == [k \in DOMAIN places |-> Head(m.elems[places[k]])]
<1>1. places \in Seq(Slots) /\ ToSet(places) = {i \in Slots : IsRead(m, i) /\ m.elems[i] # <<>>}
  BY ReadersGoThrough
<1>2. computations_highest_prio(m) = NotEmpty(s)
  BY DEF computations_highest_prio
<1> HIDE DEF places
<1>3. \A k \in DOMAIN places : places[k] \in Slots /\ IsRead(m, places[k]) /\ m.elems[places[k]] # <<>>
  BY <1>1 DEF ToSet
<1>4. ASSUME NEW h, IsHeap(h, W), h # <<>>
      PROVE  /\ Head(h) \in W
             /\ \A w \in ToSet(h) : Head(h) = w \/ Head(h).priority_fee >= w.priority_fee
  <2>1. h \in Seq(W) /\ DOMAIN h = 1 .. Len(h) /\ Len(h) \in Nat \ {0} /\ Head(h) = h[1]
    BY <1>4 DEF IsHeap
  <2>2. 1 \in DOMAIN h /\ \A k \in DOMAIN h : k = 1 \/ 1 < k
    BY <2>1
  <2> QED BY <2>1, <2>2, <1>4 DEF IsHeap, ToSet
<1>5. s \in Seq(W)
  <2>1. \A k \in DOMAIN places : s[k] \in W
    BY <1>3, <1>4 DEF Holds
  <2>2. s \in [1 .. Len(places) -> W]
    BY <2>1, <1>1
  <2>3. Len(places) \in Nat
    BY <1>1
  <2> QED BY <2>2, <2>3
<1>d. DOMAIN s = DOMAIN places /\ \A k \in DOMAIN places : s[k] = Head(m.elems[places[k]])
  OBVIOUS
<1> HIDE DEF s
<1>6. ToSet(NotEmpty(s)) = ToSet(s) \ {Zeroed} /\ ToSet(s) \subseteq W
  <2>1. ToSet(NotEmpty(s)) = ToSet(s) \ {Zeroed}
    BY <1>5, NotEmptyKeeps
  <2>2. ToSet(s) \subseteq W
    BY <1>5 DEF ToSet
  <2> QED BY <2>1, <2>2
<1>7. ASSUME Zeroed \notin W, NEW w \in W
      PROVE  \E first \in ToSet(s) : first.priority_fee >= w.priority_fee
  <2>1. PICK i \in Slots : IsRead(m, i) /\ w \in ToSet(m.elems[i])
    BY DEF Holds
  <2>2. IsHeap(m.elems[i], W) /\ m.elems[i] # <<>>
    BY <2>1 DEF Holds, ToSet
  <2>3. PICK k \in DOMAIN places : places[k] = i
    BY <1>1, <2>1, <2>2 DEF ToSet
  <2>4. Head(m.elems[i]) \in ToSet(s)
    BY <2>3, <1>d DEF ToSet
  <2>5. Head(m.elems[i]).priority_fee >= w.priority_fee
    <3>1. Head(m.elems[i]) = w \/ Head(m.elems[i]).priority_fee >= w.priority_fee
      BY <1>4, <2>1, <2>2
    <3>2. w.priority_fee \in Int
      BY DEF Holds, Priced
    <3> QED BY <3>1, <3>2
  <2> QED BY <2>4, <2>5
<1> QED BY <1>2, <1>6, <1>7

\* A heap of more references.
LEMMA HeapOfMore ==
  ASSUME NEW W, NEW V, W \subseteq V, NEW h, IsHeap(h, W) PROVE IsHeap(h, V)
BY DEF IsHeap

\* A heap of those it has.
LEMMA HeapOfLess ==
  ASSUME NEW W, NEW V, NEW h, IsHeap(h, W), ToSet(h) \subseteq V PROVE IsHeap(h, V)
<1>1. h \in Seq(W) /\ \A k \in DOMAIN h : h[k] \in V
  BY DEF IsHeap, ToSet
<1>2. h \in Seq(V)
  <2>1. h \in [1 .. Len(h) -> V] /\ Len(h) \in Nat
    BY <1>1
  <2> QED BY <2>1
<1> QED BY <1>2 DEF IsHeap

\* A new buffer holds nothing.
LEMMA NewHolds == Holds(NewMempool, {})
<1>1. /\ DOMAIN NewMempool = {"elems", "start_index", "length", "valid_bits"}
      /\ NewMempool.start_index = 0 /\ NewMempool.length = 1 /\ NewMempool.valid_bits = {}
      /\ DOMAIN NewMempool.elems = Slots
  BY DEF NewMempool
<1>2. IsPool(NewMempool)
  BY <1>1, SizesAssumption DEF IsPool, Slots
<1>3. \A i \in Slots : ~ IsRead(NewMempool, i)
  BY <1>1 DEF IsRead, is_valid
<1> QED BY <1>1, <1>2, <1>3 DEF Holds, Priced

\* A reference that is put in the buffer is held too.
LEMMA PushHolds ==
  ASSUME NEW m, NEW W, Holds(m, W), NEW c, c \notin W, c.priority_fee \in Int
  PROVE  Holds(Push(m, c), W \cup {c})
<1> DEFINE at == Place(m, m.length - 1)
           next == Push(m, c)
           u == WithOneMore(Current(m), c)
<1>1. IsPool(m) /\ DOMAIN m.elems = Slots /\ Priced(W \cup {c})
  BY DEF Holds, Priced
<1>2. m.length - 1 \in Slots
  BY <1>1, SizesAssumption DEF IsPool, Slots
<1>3. at \in Slots /\ Normalized(m, at) = m.length - 1
  BY <1>1, <1>2, NumberOfPlace
<1>4. IsRead(m, at) <=> m.length - 1 \in m.valid_bits
  BY <1>1, <1>3 DEF IsRead, is_valid, IsPool
<1>5. next.elems = [m.elems EXCEPT ![at] = u]
  BY <1>1 DEF Push, IsPool, WithOneMore
<1>e. DOMAIN next.elems = Slots
  BY <1>1, <1>5
<1> HIDE DEF u
<1>6. IsPool(next) /\ \A i \in Slots : IsRead(next, i) <=> IsRead(m, i) \/ i = at
  <2>1. \A i \in Slots : /\ IsPool(Push(m, c))
                         /\ IsRead(Push(m, c), i) <=> IsRead(m, i) \/ i = Place(m, m.length - 1)
    BY <1>1, PushIsRead
  <2> QED BY <2>1, <1>3
<1>7. Current(m) = IF IsRead(m, at) THEN m.elems[at] ELSE <<>>
  BY <1>4 DEF Current
<1>8. IsHeap(Current(m), W) /\ ToSet(Current(m)) \subseteq W
  <2>1. IsHeap(<<>>, W)
    BY DEF IsHeap
  <2>2. IsHeap(Current(m), W)
    BY <2>1, <1>3, <1>7 DEF Holds
  <2> QED BY <2>2 DEF IsHeap, ToSet
<1>9. IsHeap(u, W \cup {c}) /\ ToSet(u) = ToSet(Current(m)) \cup {c}
  <2>1. IsHeap(Current(m), W) /\ c \notin ToSet(Current(m)) /\ Priced(W \cup {c})
    BY <1>1, <1>8
  <2> QED BY <2>1, HeapWithOneMore DEF u
<1> HIDE DEF at, next
<1>10. next.elems[at] = u /\ \A i \in Slots : i # at => next.elems[i] = m.elems[i]
  BY <1>1, <1>3, <1>5
<1>h. \A i \in Slots : IsRead(m, i) => IsHeap(m.elems[i], W) /\ ToSet(m.elems[i]) \subseteq W
  <2>1. \A i \in Slots : IsRead(m, i) => IsHeap(m.elems[i], W)
    BY DEF Holds
  <2> QED BY <2>1 DEF IsHeap, ToSet
<1>11. ASSUME NEW i \in Slots, IsRead(next, i) PROVE IsHeap(next.elems[i], W \cup {c})
  <2>1. CASE i = at
    BY <2>1, <1>9, <1>10
  <2>2. CASE i # at
    BY <2>2, <1>6, <1>10, <1>11, <1>h, HeapOfMore
  <2> QED BY <2>1, <2>2
<1>d. ASSUME NEW i \in Slots, IsRead(m, i), i # at PROVE ToSet(m.elems[i]) \cap ToSet(u) = {}
  <2>1. ToSet(m.elems[i]) \cap ToSet(Current(m)) = {}
    <3>1. CASE IsRead(m, at)
      BY <3>1, <1>3, <1>7, <1>d DEF Holds
    <3>2. CASE ~ IsRead(m, at)
      BY <3>2, <1>7 DEF ToSet
    <3> QED BY <3>1, <3>2
  <2> QED BY <2>1, <1>9, <1>d, <1>h
<1>12. ASSUME NEW i \in Slots, NEW j \in Slots, IsRead(next, i), IsRead(next, j), i # j
       PROVE  ToSet(next.elems[i]) \cap ToSet(next.elems[j]) = {}
  <2>1. CASE i = at
    BY <2>1, <1>6, <1>10, <1>12, <1>d
  <2>2. CASE j = at
    BY <2>2, <1>6, <1>10, <1>12, <1>d
  <2>3. CASE i # at /\ j # at
    BY <2>3, <1>6, <1>10, <1>12 DEF Holds
  <2> QED BY <2>1, <2>2, <2>3
<1>13. ASSUME NEW w \in W \cup {c} PROVE \E i \in Slots : IsRead(next, i) /\ w \in ToSet(next.elems[i])
  <2>1. CASE w = c
    BY <2>1, <1>3, <1>6, <1>9, <1>10
  <2>2. CASE w \in W
    <3>1. PICK i \in Slots : IsRead(m, i) /\ w \in ToSet(m.elems[i])
      BY <2>2 DEF Holds
    <3>2. CASE i = at
      BY <3>1, <3>2, <1>3, <1>6, <1>7, <1>9, <1>10
    <3>3. CASE i # at
      BY <3>1, <3>3, <1>6, <1>10
    <3> QED BY <3>2, <3>3
  <2> QED BY <2>1, <2>2
<1>14. Holds(next, W \cup {c})
  BY <1>1, <1>e, <1>6, <1>11, <1>12, <1>13 DEF Holds
<1> QED BY <1>14 DEF next

\* When time goes on the buffer holds what it has held but for what has expired.
LEMMA AdvanceHolds ==
  ASSUME NEW m, NEW W, Holds(m, W)
  PROVE  /\ ToSet(Expiring(m)) \subseteq W
         /\ Holds(Advance(m), W \ ToSet(Expiring(m)))
<1> DEFINE next == Advance(m)
           full == m.length = BufferSize
           E == ToSet(Expiring(m))
<1>1. IsPool(m) /\ DOMAIN m.elems = Slots /\ m.start_index \in Slots
  BY DEF Holds, IsPool
<1>2. \A i \in Slots : Normalized(m, i) = 0 <=> i = m.start_index
  BY <1>1, SizesAssumption DEF Normalized, Slots
<1>3. IsRead(m, m.start_index) <=> 0 \in m.valid_bits
  BY <1>1, <1>2, SizesAssumption DEF IsRead, is_valid, IsPool
<1>4. Expiring(m) = IF full /\ IsRead(m, m.start_index) THEN m.elems[m.start_index] ELSE <<>>
  BY <1>3 DEF Expiring
<1>5. next.elems = m.elems
  BY <1>1 DEF Advance, IsPool
<1>6. 0 \in Slots
  BY SizesAssumption DEF Slots
<1>7. IsPool(next) /\ \A i \in Slots : IsRead(next, i) <=> IsRead(m, i) /\ (full => i # m.start_index)
  BY <1>1, <1>2, <1>6, AdvanceDropsOldest
<1>8. E \subseteq W
  <2>1. IsRead(m, m.start_index) => m.elems[m.start_index] \in Seq(W)
    BY <1>1 DEF Holds, IsHeap
  <2> QED BY <2>1, <1>4 DEF ToSet
<1>e. (full /\ IsRead(m, m.start_index) => E = ToSet(m.elems[m.start_index]))
      /\ (~ (full /\ IsRead(m, m.start_index)) => E = {})
  <2>1. ToSet(<<>>) = {}
    BY DEF ToSet
  <2> QED BY <2>1, <1>4
<1> HIDE DEF next, E, full
<1>9. ASSUME NEW i \in Slots, IsRead(next, i) PROVE IsHeap(next.elems[i], W \ E)
  <2>1. IsRead(m, i) /\ IsHeap(m.elems[i], W)
    BY <1>7, <1>9 DEF Holds
  <2>2. ToSet(m.elems[i]) \subseteq W
    BY <2>1 DEF IsHeap, ToSet
  <2>3. ToSet(m.elems[i]) \cap E = {}
    BY <2>1, <1>1, <1>7, <1>9, <1>e DEF Holds
  <2> QED BY <2>1, <2>2, <2>3, <1>5, HeapOfLess
<1>10. ASSUME NEW w \in W \ E PROVE \E i \in Slots : IsRead(next, i) /\ w \in ToSet(next.elems[i])
  <2>1. PICK i \in Slots : IsRead(m, i) /\ w \in ToSet(m.elems[i])
    BY DEF Holds
  <2> QED BY <2>1, <1>5, <1>7, <1>e
<1>11. \A i, j \in Slots : IsRead(next, i) /\ IsRead(next, j) /\ i # j =>
         ToSet(next.elems[i]) \cap ToSet(next.elems[j]) = {}
  BY <1>5, <1>7 DEF Holds
<1>12. Holds(next, W \ E)
  <2>1. Priced(W \ E)
    BY DEF Holds, Priced
  <2> QED BY <2>1, <1>1, <1>5, <1>7, <1>9, <1>10, <1>11 DEF Holds
<1> QED BY <1>8, <1>12 DEF next, E

\* What is taken out of the buffer is held no longer.
LEMMA TakeOutHolds ==
  ASSUME NEW m, NEW W, Holds(m, W), NEW c
  PROVE  Holds(TakeOut(m, c), W \ {c})
<1> DEFINE next == TakeOut(m, c)
<1>1. IsPool(m) /\ DOMAIN m.elems = Slots
  BY DEF Holds
<1>2. next.elems = [i \in Slots |-> IF IsRead(m, i) THEN Kept(m.elems[i], ToSet(m.elems[i]) \ {c})
                                                   ELSE m.elems[i]]
  BY <1>1 DEF TakeOut, IsPool
<1>3. /\ DOMAIN next = DOMAIN m /\ next.start_index = m.start_index /\ next.length = m.length
      /\ next.valid_bits = m.valid_bits
  BY <1>1 DEF TakeOut, IsPool
<1>4. IsPool(next)
  BY <1>1, <1>3 DEF IsPool
<1>5. \A i \in Slots : IsRead(next, i) <=> IsRead(m, i)
  BY <1>3 DEF IsRead, Normalized
<1> HIDE DEF next
<1>6. ASSUME NEW i \in Slots, IsRead(m, i)
      PROVE  IsHeap(next.elems[i], W \ {c}) /\ ToSet(next.elems[i]) = ToSet(m.elems[i]) \ {c}
  <2> DEFINE S == ToSet(m.elems[i]) \ {c}
             t == Kept(m.elems[i], S)
  <2>1. IsHeap(m.elems[i], W)
    BY <1>6 DEF Holds
  <2>2. IsHeap(t, W \cap S) /\ ToSet(t) = ToSet(m.elems[i]) \cap S
    BY <2>1, KeptHeap
  <2>3. next.elems[i] = t
    BY <1>2, <1>6
  <2> HIDE DEF t
  <2>4. W \cap S \subseteq W \ {c} /\ ToSet(m.elems[i]) \cap S = ToSet(m.elems[i]) \ {c}
    OBVIOUS
  <2> HIDE DEF S
  <2>5. IsHeap(t, W \ {c})
    BY <2>2, <2>4, HeapOfMore
  <2> QED BY <2>2, <2>3, <2>4, <2>5
<1>7. \A i, j \in Slots : IsRead(next, i) /\ IsRead(next, j) /\ i # j =>
        ToSet(next.elems[i]) \cap ToSet(next.elems[j]) = {}
  <2> SUFFICES ASSUME NEW i \in Slots, NEW j \in Slots, IsRead(next, i), IsRead(next, j), i # j
               PROVE  ToSet(next.elems[i]) \cap ToSet(next.elems[j]) = {}
    OBVIOUS
  <2>1. ToSet(m.elems[i]) \cap ToSet(m.elems[j]) = {}
    BY <1>5 DEF Holds
  <2> QED BY <2>1, <1>5, <1>6
<1>8. ASSUME NEW w \in W \ {c} PROVE \E i \in Slots : IsRead(next, i) /\ w \in ToSet(next.elems[i])
  <2>1. PICK i \in Slots : IsRead(m, i) /\ w \in ToSet(m.elems[i])
    BY DEF Holds
  <2> QED BY <2>1, <1>5, <1>6
<1>9. Holds(next, W \ {c})
  <2>1. Priced(W \ {c})
    BY DEF Holds, Priced
  <2>2. DOMAIN next.elems = Slots
    BY <1>2
  <2> QED BY <2>1, <2>2, <1>4, <1>5, <1>6, <1>7, <1>8 DEF Holds
<1> QED BY <1>9 DEF next

-----------------------------------------------------------------------------
(* What the executing pool holds. *)

\* Each of the references W has a place of its own; one that is all zero looks like an
\* empty place.
Runs(x, W) ==
  /\ Len(x) = PoolSize /\ x \in Seq(W \cup {Zeroed})
  /\ \A i, j \in DOMAIN x : x[i] = x[j] /\ x[i] # Zeroed => i = j
  /\ \A w \in W \ {Zeroed} : \E i \in DOMAIN x : x[i] = w

\* The readers see each reference that runs exactly once, and no other.
\* (ExecpoolWrapper::computations)
THEOREM AllThatRunsIsRead ==
  ASSUME NEW x, NEW W, Runs(x, W)
  PROVE  IsInjective(executing(x)) /\ ToSet(executing(x)) = W \ {Zeroed}
<1> DEFINE t == executing(x)
           S == {c \in ToSet(x) : ~ is_empty_computation_ref(c)}
<1>0. x \in Seq(W \cup {Zeroed})
  BY DEF Runs
<1>1. t = Kept(x, S) /\ S = ToSet(x) \ {Zeroed}
  BY DEF executing, NotEmpty, is_empty_computation_ref
<1> HIDE DEF t, S
<1>2. ToSet(t) = ToSet(x) \cap S
  BY <1>0, <1>1, KeptElements
<1>3. ToSet(t) = W \ {Zeroed}
  <2>1. ToSet(x) \ {Zeroed} \subseteq W
    BY <1>0 DEF ToSet
  <2>2. W \ {Zeroed} \subseteq ToSet(x)
    BY DEF Runs, ToSet
  <2> QED BY <2>1, <2>2, <1>1, <1>2
<1>4. PICK f : Embedded(t, x, S, Len(x), f)
  BY <1>0, <1>1, KeptEmbeds
<1>5. t \in Seq(W \cup {Zeroed})
  BY <1>0, <1>1, KeptEmbeds
<1>6. ASSUME NEW k \in DOMAIN t, NEW l \in DOMAIN t, t[k] = t[l] PROVE k = l
  <2>1. /\ f[k] \in DOMAIN x /\ f[l] \in DOMAIN x /\ t[k] = x[f[k]] /\ t[l] = x[f[l]]
        /\ t[k] # Zeroed /\ f[k] \in Int /\ f[l] \in Int
    <3>1. DOMAIN x = 1 .. Len(x)
      BY <1>0
    <3>2. /\ f \in [DOMAIN t -> 1 .. Len(x)]
          /\ t[k] = x[f[k]] /\ t[k] \in S /\ t[l] = x[f[l]]
      BY <1>4 DEF Embedded
    <3>3. f[k] \in 1 .. Len(x) /\ f[l] \in 1 .. Len(x)
      BY <3>2
    <3> QED BY <3>1, <3>2, <3>3, <1>1
  <2>2. f[k] = f[l]
    BY <2>1, <1>6 DEF Runs
  <2>3. k \in Int /\ l \in Int
    BY <1>5
  <2> QED BY <2>1, <2>2, <2>3, <1>4 DEF Embedded
<1> QED BY <1>3, <1>6 DEF IsInjective, t

\* Nothing runs in a new pool.
LEMMA NewRuns == Runs(NewExecpool, {})
<1>1. \A k \in 1 .. PoolSize : NewExecpool[k] = Zeroed
  BY DEF NewExecpool
<1>2. Len(NewExecpool) = PoolSize /\ DOMAIN NewExecpool = 1 .. PoolSize /\ NewExecpool \in Seq({Zeroed})
  BY SizesAssumption DEF NewExecpool
<1> QED BY <1>1, <1>2 DEF Runs

\* One more runs.
LEMMA StartRuns ==
  ASSUME NEW x, NEW W, Runs(x, W), NEW c, c \notin W, c # Zeroed, NEW k \in DOMAIN x, x[k] = Zeroed
  PROVE  Runs([x EXCEPT ![k] = c], W \cup {c})
<1> DEFINE y == [x EXCEPT ![k] = c]
<1>1. DOMAIN x = 1 .. Len(x) /\ Len(x) = PoolSize /\ PoolSize \in Nat
  BY SizesAssumption DEF Runs
<1>2. DOMAIN y = DOMAIN x /\ y[k] = c /\ \A i \in DOMAIN x : i # k => y[i] = x[i]
  OBVIOUS
<1>3. \A i \in DOMAIN x : x[i] \in W \cup {Zeroed}
  BY DEF Runs
<1>4. y \in Seq((W \cup {c}) \cup {Zeroed}) /\ Len(y) = PoolSize
  <2> HIDE DEF y
  <2>1. \A i \in 1 .. PoolSize : y[i] \in (W \cup {c}) \cup {Zeroed}
    BY <1>1, <1>2, <1>3
  <2>2. y = [i \in 1 .. PoolSize |-> y[i]]
    BY <1>1, <1>2 DEF y
  <2>3. y \in [1 .. PoolSize -> (W \cup {c}) \cup {Zeroed}]
    BY <2>1, <2>2
  <2> QED BY <2>3, <1>1
<1> HIDE DEF y
<1>5. \A i, j \in DOMAIN y : y[i] = y[j] /\ y[i] # Zeroed => i = j
  BY <1>2, <1>3 DEF Runs
<1>6. ASSUME NEW w \in (W \cup {c}) \ {Zeroed} PROVE \E i \in DOMAIN y : y[i] = w
  <2>1. CASE w = c
    BY <2>1, <1>2
  <2>2. CASE w # c
    <3>1. PICK i \in DOMAIN x : x[i] = w
      BY <2>2 DEF Runs
    <3> QED BY <3>1, <1>2
  <2> QED BY <2>1, <2>2
<1>7. Runs(y, W \cup {c})
  BY <1>4, <1>5, <1>6 DEF Runs
<1> QED BY <1>7 DEF y

\* One comes to its end.
LEMMA EndRuns ==
  ASSUME NEW x, NEW W, Runs(x, W), NEW c
  PROVE  Runs([k \in 1 .. PoolSize |-> IF x[k] = c THEN Zeroed ELSE x[k]], W \ {c})
<1> DEFINE y == [k \in 1 .. PoolSize |-> IF x[k] = c THEN Zeroed ELSE x[k]]
<1>1. DOMAIN x = 1 .. PoolSize /\ PoolSize \in Nat
  <2>1. x \in Seq(W \cup {Zeroed}) /\ Len(x) = PoolSize
    BY DEF Runs
  <2> QED BY <2>1, SizesAssumption
<1>2. DOMAIN y = 1 .. PoolSize /\ \A i \in 1 .. PoolSize : y[i] = IF x[i] = c THEN Zeroed ELSE x[i]
  OBVIOUS
<1>3. \A i \in DOMAIN x : x[i] \in W \cup {Zeroed}
  BY DEF Runs
<1>4. y \in Seq((W \ {c}) \cup {Zeroed}) /\ Len(y) = PoolSize
  BY <1>1, <1>2, <1>3
<1> HIDE DEF y
<1>5. \A i, j \in DOMAIN y : y[i] = y[j] /\ y[i] # Zeroed => i = j
  BY <1>1, <1>2 DEF Runs
<1>6. ASSUME NEW w \in (W \ {c}) \ {Zeroed} PROVE \E i \in DOMAIN y : y[i] = w
  <2>1. PICK i \in DOMAIN x : x[i] = w
    BY DEF Runs
  <2> QED BY <2>1, <1>1, <1>2
<1>7. Runs(y, W \ {c})
  BY <1>4, <1>5, <1>6 DEF Runs
<1> QED BY <1>7 DEF y

-----------------------------------------------------------------------------
(* The discovery of clusters, whatever the chain. *)

\* Only a cluster that has not been answered for is counted.
CountsOne ==
  /\ discovery.pc = "count" => discovery.at \notin DOMAIN discovery.infos
  /\ DOMAIN discovery = {"pc", "clusters", "infos", "at", "offset"}

\* Every step either leaves the discovery alone or is one of its own.
LEMMA StepsOfDiscovery ==
  ASSUME [Next]_vars
  PROVE  \/ UNCHANGED discovery
         \/ DiscoverClusters \/ LookUpCluster \/ CountMxes \/ CountFails \/ ReturnInfos
BY DEF Next, vars, NodeCall, ClusterCall, DiscoveryCall, ProgramCall, ComputationCall, claim_failure,
       KeyCall, RecoveryCall, StakingCall, NodesTakeOne, TimePasses, Send

\* Every step keeps it.
LEMMA CountsOneStep == CountsOne /\ [Next]_vars => CountsOne'
<1> SUFFICES ASSUME CountsOne, [Next]_vars PROVE CountsOne'
  OBVIOUS
<1>1. CASE UNCHANGED discovery
  BY <1>1 DEF CountsOne
<1>2. CASE DiscoverClusters
  BY <1>2 DEF CountsOne, DiscoverClusters, Idle
<1>3. CASE LookUpCluster
  <2>a. PICK c \in DOMAIN discovery.clusters \ DOMAIN discovery.infos :
          \E offset \in find_cluster_offset_via_node(discovery.clusters[c]) :
            discovery' = IF offset = None
                           THEN [discovery EXCEPT !.infos = Entry(c, Info(None, 0)) ++ @]
                           ELSE [discovery EXCEPT !.pc = "count", !.at = c, !.offset = offset]
    BY <1>3 DEF LookUpCluster
  <2>1. PICK offset \in find_cluster_offset_via_node(discovery.clusters[c]) :
          discovery' = IF offset = None
                         THEN [discovery EXCEPT !.infos = Entry(c, Info(None, 0)) ++ @]
                         ELSE [discovery EXCEPT !.pc = "count", !.at = c, !.offset = offset]
    BY <2>a
  <2>2. discovery.pc = "look"
    BY <1>3 DEF LookUpCluster
  <2> QED BY <2>1, <2>2 DEF CountsOne
<1>4. CASE CountMxes
  BY <1>4 DEF CountsOne, CountMxes
<1>5. CASE CountFails
  BY <1>5 DEF CountsOne, CountFails, Idle
<1>6. CASE ReturnInfos
  BY <1>6 DEF CountsOne, ReturnInfos
<1> QED BY <1>1, <1>2, <1>3, <1>4, <1>5, <1>6, StepsOfDiscovery

\* It holds always.
LEMMA CountsOneHolds == Spec => []CountsOne
<1>1. Init => CountsOne
  BY DEF Init, CountsOne, Idle
<1> QED BY <1>1, CountsOneStep, PTL DEF Spec

\* What AvailableIsHealthy says of a step.
HealthyStep ==
  /\ \A c \in DOMAIN discovery.infos \intersect DOMAIN discovery'.infos :
       discovery'.infos[c] = discovery.infos[c]
  /\ discovery'.at # discovery.at /\ discovery'.at # None =>
       /\ discovery.clusters[discovery'.at] # {}
       /\ \A n \in discovery.clusters[discovery'.at] : accounts[arx_acc(n)].is_active

\* Every step of the discovery is as AvailableIsHealthy has it.
LEMMA HealthySteps == ASSUME CountsOne, [Next]_vars PROVE HealthyStep
<1>1. CASE UNCHANGED discovery
  BY <1>1 DEF HealthyStep
<1>2. CASE DiscoverClusters
  BY <1>2 DEF HealthyStep, DiscoverClusters, Idle
<1>3. CASE LookUpCluster
  <2>a. PICK c \in DOMAIN discovery.clusters \ DOMAIN discovery.infos :
          \E offset \in find_cluster_offset_via_node(discovery.clusters[c]) :
            discovery' = IF offset = None
                           THEN [discovery EXCEPT !.infos = Entry(c, Info(None, 0)) ++ @]
                           ELSE [discovery EXCEPT !.pc = "count", !.at = c, !.offset = offset]
    BY <1>3 DEF LookUpCluster
  <2>1. PICK offset \in find_cluster_offset_via_node(discovery.clusters[c]) :
          discovery' = IF offset = None
                         THEN [discovery EXCEPT !.infos = Entry(c, Info(None, 0)) ++ @]
                         ELSE [discovery EXCEPT !.pc = "count", !.at = c, !.offset = offset]
    BY <2>a
  <2>2. CASE offset = None
    BY <2>1, <2>2 DEF HealthyStep, CountsOne, Entry, ++
  <2>3. CASE offset # None
    <3>1. /\ discovery.clusters[c] # {}
          /\ \A n \in discovery.clusters[c] : accounts[arx_acc(n)].is_active
      BY <2>3 DEF find_cluster_offset_via_node
    <3>2. discovery'.at = c /\ discovery'.infos = discovery.infos
      BY <2>1, <2>3 DEF CountsOne
    <3> QED BY <3>1, <3>2 DEF HealthyStep
  <2> QED BY <2>2, <2>3
<1>4. CASE CountMxes
  BY <1>4 DEF HealthyStep, CountsOne, CountMxes, Entry, ++
<1>5. CASE CountFails
  BY <1>5 DEF HealthyStep, CountFails, Idle
<1>6. CASE ReturnInfos
  BY <1>6 DEF HealthyStep, ReturnInfos, CountsOne
<1> QED BY <1>1, <1>2, <1>3, <1>4, <1>5, <1>6, StepsOfDiscovery

\* A cluster becomes available only while all the nodes it listed are active, and the
\* answer for one cluster leaves the others alone, whatever else happens on the chain.
THEOREM HealthyWhenFound == Spec => AvailableIsHealthy
<1>1. CountsOne /\ [Next]_vars => [HealthyStep]_vars
  BY HealthySteps
<1>2. Spec => [][HealthyStep]_vars
  BY <1>1, CountsOneHolds, PTL DEF Spec
<1> QED BY <1>2 DEF AvailableIsHealthy, HealthyStep

-----------------------------------------------------------------------------
(* The chain.  Its accounts that others depend on. *)

Watched == {"ArxNode", "Cluster", "MXEAccount", "RecoveryClusterAccount", "ComputationAccount"}

\* They have their fields.
FieldsKept(acc) ==
  \A a \in DOMAIN acc :
    /\ a[1] = "ArxNode" => DOMAIN acc[a] = {"is_active", "cluster_membership"}
    /\ a[1] = "Cluster" => DOMAIN acc[a] = {"nodes", "pending_nodes", "active"}
    /\ a[1] = "MXEAccount" =>
         DOMAIN acc[a] = {"cluster", "keygen_offset", "key_recovery_init_offset", "keys_set", "status"}
    /\ a[1] = "ComputationAccount" => DOMAIN acc[a] = {"mxe", "def", "stage"}

\* A node that a cluster lists is there, and is not asked to join it again.
MembersKept(acc) ==
  \A c \in Clusters : cluster_acc(c) \in DOMAIN acc =>
    \A n \in acc[cluster_acc(c)].nodes :
      arx_acc(n) \in DOMAIN acc /\ acc[arx_acc(n)].cluster_membership # Proposed(c)

\* What MxeIsWhole says of a chain.
Whole(acc, p) ==
  /\ recovery_cluster_acc(p) \in DOMAIN acc <=> mxe_acc(p) \in DOMAIN acc
  /\ mxe_acc(p) \in DOMAIN acc =>
       LET mxe == acc[mxe_acc(p)]
           keygen == computation_acc(mxe.cluster, mxe.keygen_offset)
           recovery_init == computation_acc(mxe.cluster, mxe.key_recovery_init_offset)
       IN  /\ keygen \in DOMAIN acc
           /\ acc[keygen].mxe = p /\ acc[keygen].def = MXE_KEYGEN_OFFSET
           /\ recovery_init \in DOMAIN acc
           /\ acc[recovery_init].mxe = p

ChainInv(acc) ==
  FieldsKept(acc) /\ MembersKept(acc) /\ \A p \in Programs : Whole(acc, p)

\* What is so for ever after: a cluster keeps its nodes, a node of it that has left does
\* not come back, and a program keeps its cluster.
NodesStay(acc, next) ==
  \A c \in Clusters : cluster_acc(c) \in DOMAIN acc =>
    /\ cluster_acc(c) \in DOMAIN next
    /\ acc[cluster_acc(c)].nodes \subseteq next[cluster_acc(c)].nodes
    /\ \A n \in acc[cluster_acc(c)].nodes :
         acc[arx_acc(n)].cluster_membership # Active(c)
           => next[arx_acc(n)].cluster_membership # Active(c)

Later(acc, next) ==
  /\ NodesStay(acc, next)
  /\ \A p \in Programs : mxe_acc(p) \in DOMAIN acc =>
       mxe_acc(p) \in DOMAIN next /\ next[mxe_acc(p)].cluster = acc[mxe_acc(p)].cluster

\* Most steps: nodes and clusters stay, programs keep what they were made with, and a
\* computation stays that of its program.
Keeps(acc, next) ==
  /\ \A a \in DOMAIN acc \cup DOMAIN next :
       /\ a[1] \in {"ArxNode", "Cluster"} => a \in DOMAIN acc /\ a \in DOMAIN next /\ next[a] = acc[a]
       /\ a[1] \in {"RecoveryClusterAccount", "MXEAccount"} => a \in DOMAIN acc /\ a \in DOMAIN next
       /\ a[1] = "MXEAccount" =>
            /\ DOMAIN next[a] = DOMAIN acc[a]
            /\ next[a].cluster = acc[a].cluster
            /\ next[a].keygen_offset = acc[a].keygen_offset
            /\ next[a].key_recovery_init_offset = acc[a].key_recovery_init_offset
       /\ a[1] = "ComputationAccount" =>
            /\ a \in DOMAIN next
            /\ a \in DOMAIN acc => /\ DOMAIN next[a] = DOMAIN acc[a]
                                   /\ next[a].mxe = acc[a].mxe /\ next[a].def = acc[a].def
            /\ a \notin DOMAIN acc => DOMAIN next[a] = {"mxe", "def", "stage"}

Fact(acc, next) == ChainInv(next) /\ Later(acc, next)

\* The kinds of addresses.
LEMMA AddressKinds ==
  ASSUME NEW x, NEW y
  PROVE  /\ arx_acc(x)[1] = "ArxNode" /\ cluster_acc(x)[1] = "Cluster"
         /\ mxe_acc(x)[1] = "MXEAccount" /\ recovery_cluster_acc(x)[1] = "RecoveryClusterAccount"
         /\ computation_acc(x, y)[1] = "ComputationAccount"
         /\ arx_acc(x) = arx_acc(y) => x = y
         /\ cluster_acc(x) = cluster_acc(y) => x = y
         /\ mxe_acc(x) = mxe_acc(y) => x = y
         /\ recovery_cluster_acc(x) = recovery_cluster_acc(y) => x = y
BY DEF arx_acc, cluster_acc, mxe_acc, recovery_cluster_acc, computation_acc

\* Such a step leads to a chain as it should be.
LEMMA KeepsIsSafe == ASSUME NEW acc, NEW next, ChainInv(acc), Keeps(acc, next) PROVE Fact(acc, next)
<1>1. FieldsKept(next)
  BY DEF ChainInv, FieldsKept, Keeps
<1>2. \A c : cluster_acc(c) \in DOMAIN acc <=> cluster_acc(c) \in DOMAIN next
  BY AddressKinds DEF Keeps
<1>3. \A c : cluster_acc(c) \in DOMAIN acc => next[cluster_acc(c)] = acc[cluster_acc(c)]
  BY AddressKinds DEF Keeps
<1>4. \A n : arx_acc(n) \in DOMAIN acc =>
               arx_acc(n) \in DOMAIN next /\ next[arx_acc(n)] = acc[arx_acc(n)]
  BY AddressKinds DEF Keeps
<1>5. MembersKept(next)
  BY <1>2, <1>3, <1>4 DEF ChainInv, MembersKept
<1>6. ASSUME NEW p \in Programs PROVE Whole(next, p)
  <2>1. /\ mxe_acc(p) \in DOMAIN acc <=> mxe_acc(p) \in DOMAIN next
        /\ recovery_cluster_acc(p) \in DOMAIN acc <=> recovery_cluster_acc(p) \in DOMAIN next
    BY AddressKinds DEF Keeps
  <2>2. CASE mxe_acc(p) \in DOMAIN acc
    <3> DEFINE mxe == acc[mxe_acc(p)]
               keygen == computation_acc(mxe.cluster, mxe.keygen_offset)
               recovery_init == computation_acc(mxe.cluster, mxe.key_recovery_init_offset)
    <3>1. /\ next[mxe_acc(p)].cluster = mxe.cluster
          /\ next[mxe_acc(p)].keygen_offset = mxe.keygen_offset
          /\ next[mxe_acc(p)].key_recovery_init_offset = mxe.key_recovery_init_offset
      BY <2>2, AddressKinds DEF Keeps
    <3>2. /\ keygen \in DOMAIN acc
          /\ acc[keygen].mxe = p /\ acc[keygen].def = MXE_KEYGEN_OFFSET
          /\ recovery_init \in DOMAIN acc
          /\ acc[recovery_init].mxe = p
      BY <2>2 DEF ChainInv, Whole
    <3>3. keygen[1] = "ComputationAccount" /\ recovery_init[1] = "ComputationAccount"
      BY AddressKinds
    <3> HIDE DEF keygen, recovery_init
    <3>4. /\ keygen \in DOMAIN next /\ recovery_init \in DOMAIN next
          /\ next[keygen].mxe = acc[keygen].mxe /\ next[keygen].def = acc[keygen].def
          /\ next[recovery_init].mxe = acc[recovery_init].mxe
      BY <3>2, <3>3 DEF Keeps
    <3> QED BY <2>1, <2>2, <3>1, <3>2, <3>4 DEF ChainInv, Whole, keygen, recovery_init
  <2>3. CASE mxe_acc(p) \notin DOMAIN acc
    BY <2>1, <2>3 DEF ChainInv, Whole
  <2> QED BY <2>2, <2>3
<1>7. Later(acc, next)
  <2>1. \A p \in Programs : mxe_acc(p) \in DOMAIN acc =>
           mxe_acc(p) \in DOMAIN next /\ next[mxe_acc(p)].cluster = acc[mxe_acc(p)].cluster
    BY AddressKinds DEF Keeps
  <2>2. \A c \in Clusters : \A n : cluster_acc(c) \in DOMAIN acc /\ n \in acc[cluster_acc(c)].nodes
           => next[arx_acc(n)] = acc[arx_acc(n)]
    BY <1>4 DEF ChainInv, MembersKept
  <2> QED BY <1>2, <1>3, <2>1, <2>2 DEF Later, NodesStay
<1> QED BY <1>1, <1>5, <1>6, <1>7 DEF Fact, ChainInv

\* What is so for ever after is so after two steps,
LEMMA LaterOfLater ==
  ASSUME NEW acc, NEW mid, NEW next, ChainInv(acc), Later(acc, mid), Later(mid, next)
  PROVE  Later(acc, next)
BY DEF Later, NodesStay

\* and after none.
LEMMA LaterItself == ASSUME NEW acc PROVE Later(acc, acc)
BY DEF Later, NodesStay

-----------------------------------------------------------------------------
(* What an instruction does. *)

MadeRoles(name) == (CreatedRoles(name) \cup OptionalRoles(name)) \ ClosedRoles(name)
Made(ix) == {ix.accs[role] : role \in MadeRoles(ix.ix)}

\* The chain after an instruction: its accounts, and which content each of them has.
LEMMA Effects ==
  ASSUME NEW acc, NEW ix
  PROVE  LET next == Executed(acc, ix)
         IN  /\ DOMAIN next = (DOMAIN acc \cup Made(ix)) \ Closed(ix)
             /\ \A a \in DOMAIN next \cap DOMAIN Changed(acc, ix) : next[a] = Changed(acc, ix)[a]
             /\ \A a \in DOMAIN next \ DOMAIN Changed(acc, ix) : a \in DOMAIN acc => next[a] = acc[a]
             /\ \A a \in DOMAIN next \ DOMAIN Changed(acc, ix) :
                  a \notin DOMAIN acc =>
                    \E role \in MadeRoles(ix.ix) :
                      a = ix.accs[role] /\ next[a] = NewContent(acc, ix, role)
<1> DEFINE changed == Changed(acc, ix)
           all == Created(acc, ix)
           created == [a \in DOMAIN all \ DOMAIN acc |-> all[a]]
           next == Executed(acc, ix)
<1>1. next = [a \in (DOMAIN acc \union DOMAIN created) \ Closed(ix) |->
                IF a \in DOMAIN changed THEN changed[a]
                ELSE IF a \in DOMAIN created THEN created[a] ELSE acc[a]]
  BY DEF Executed
<1>2. DOMAIN all = Made(ix)
  BY DEF Created, Made, MadeRoles
<1>3. \A a \in DOMAIN all : \E role \in MadeRoles(ix.ix) :
        a = ix.accs[role] /\ all[a] = NewContent(acc, ix, role)
  <2> SUFFICES ASSUME NEW a \in Made(ix)
               PROVE  \E role \in MadeRoles(ix.ix) :
                        a = ix.accs[role] /\ all[a] = NewContent(acc, ix, role)
    BY <1>2
  <2> DEFINE role == CHOOSE r \in MadeRoles(ix.ix) : ix.accs[r] = a
  <2>1. role \in MadeRoles(ix.ix) /\ ix.accs[role] = a
    BY DEF Made
  <2>2. all[a] = NewContent(acc, ix, role)
    BY DEF Created, MadeRoles, Made
  <2> QED BY <2>1, <2>2
<1> HIDE DEF changed, all, next
<1> QED BY <1>1, <1>2, <1>3 DEF next, changed

-----------------------------------------------------------------------------
(* The queues of the chain. *)

\* The references of a cluster's computations in a stage.
RefsAt(acc, c, stage) ==
  {RefTo(a) : a \in {b \in DOMAIN acc : /\ b[1] = "ComputationAccount" /\ b[2] = c
                                        /\ acc[b].stage = stage}}

\* A cluster has both pools, a computation belongs to a cluster that has them, and they
\* hold what its computations' stages say.
QueueInv(acc) ==
  /\ \A c : /\ cluster_acc(c) \in DOMAIN acc => mempool_acc(c) \in DOMAIN acc
            /\ mempool_acc(c) \in DOMAIN acc <=> execpool_acc(c) \in DOMAIN acc
  /\ \A a \in DOMAIN acc : a[1] = "ComputationAccount" =>
       /\ a = computation_acc(a[2], a[3]) /\ "stage" \in DOMAIN acc[a]
       /\ mempool_acc(a[2]) \in DOMAIN acc
  /\ \A c : mempool_acc(c) \in DOMAIN acc =>
       /\ Holds(acc[mempool_acc(c)], RefsAt(acc, c, "queued"))
       /\ Runs(acc[execpool_acc(c)], RefsAt(acc, c, "executing"))

\* A computation that has ended is there, and does not begin again.
EndedStay(acc, next) ==
  \A a \in DOMAIN acc : a[1] = "ComputationAccount" =>
    a \in DOMAIN next /\ (acc[a].stage = "final" => next[a].stage = "final")

QueueFact(acc, next) == QueueInv(next) /\ EndedStay(acc, next)

\* The addresses of the queue.
LEMMA QueueAddresses ==
  ASSUME NEW c, NEW d, NEW o, NEW q
  PROVE  /\ mempool_acc(c)[1] = "Mempool" /\ execpool_acc(c)[1] = "Execpool"
         /\ cluster_acc(c)[1] = "Cluster"
         /\ computation_acc(c, o)[1] = "ComputationAccount"
         /\ computation_acc(c, o)[2] = c /\ computation_acc(c, o)[3] = o
         /\ mempool_acc(c) = mempool_acc(d) => c = d
         /\ execpool_acc(c) = execpool_acc(d) => c = d
         /\ cluster_acc(c) = cluster_acc(d) => c = d
         /\ computation_acc(c, o) = computation_acc(d, q) => c = d /\ o = q
BY DEF mempool_acc, execpool_acc, cluster_acc, computation_acc

\* References are to computations by their offset, and a fee is a number.
LEMMA References ==
  ASSUME NEW c, NEW o, NEW q
  PROVE  /\ RefTo(computation_acc(c, o)) = RefTo(computation_acc(c, q)) => o = q
         /\ RefTo(computation_acc(c, o)).computation_offset = o
         /\ RefTo(computation_acc(c, o)).priority_fee \in Int
<1>1. FeeOf(o) \in Int
  BY FeesAssumption DEF FeeOf
<1> QED BY <1>1, QueueAddresses DEF RefTo, Ref

\* Nothing of the queues changes.
SameQueues(acc, next) ==
  /\ \A a \in DOMAIN acc \cup DOMAIN next :
       a[1] \in {"ComputationAccount", "Mempool", "Execpool"} =>
         a \in DOMAIN acc /\ a \in DOMAIN next /\ next[a] = acc[a]
  /\ \A c : cluster_acc(c) \in DOMAIN next => cluster_acc(c) \in DOMAIN acc

\* Then they are as they should be.
LEMMA QueuesStay ==
  ASSUME NEW acc, NEW next, QueueInv(acc), SameQueues(acc, next) PROVE QueueFact(acc, next)
<1>1. ASSUME NEW c, NEW stage PROVE RefsAt(next, c, stage) = RefsAt(acc, c, stage)
  BY DEF RefsAt, SameQueues
<1>2. ASSUME NEW c
      PROVE  /\ mempool_acc(c) \in DOMAIN next <=> mempool_acc(c) \in DOMAIN acc
             /\ execpool_acc(c) \in DOMAIN next <=> execpool_acc(c) \in DOMAIN acc
             /\ mempool_acc(c) \in DOMAIN acc => next[mempool_acc(c)] = acc[mempool_acc(c)]
             /\ execpool_acc(c) \in DOMAIN acc => next[execpool_acc(c)] = acc[execpool_acc(c)]
  BY QueueAddresses DEF SameQueues
<1>3. EndedStay(acc, next)
  BY DEF EndedStay, SameQueues
<1>4. \A c : cluster_acc(c) \in DOMAIN next => mempool_acc(c) \in DOMAIN next
  BY <1>2 DEF QueueInv, SameQueues
<1>5. ASSUME NEW a \in DOMAIN next, a[1] = "ComputationAccount"
      PROVE  /\ a = computation_acc(a[2], a[3]) /\ "stage" \in DOMAIN next[a]
             /\ mempool_acc(a[2]) \in DOMAIN next
  <2>1. a \in DOMAIN acc /\ next[a] = acc[a]
    BY <1>5 DEF SameQueues
  <2> QED BY <2>1, <1>2, <1>5 DEF QueueInv
<1>6. ASSUME NEW c, mempool_acc(c) \in DOMAIN next
      PROVE  /\ Holds(next[mempool_acc(c)], RefsAt(next, c, "queued"))
             /\ Runs(next[execpool_acc(c)], RefsAt(next, c, "executing"))
  <2>1. mempool_acc(c) \in DOMAIN acc /\ execpool_acc(c) \in DOMAIN acc
    BY <1>2, <1>6 DEF QueueInv
  <2> QED BY <2>1, <1>1, <1>2 DEF QueueInv
<1>7. QueueInv(next)
  BY <1>2, <1>4, <1>5, <1>6 DEF QueueInv
<1> QED BY <1>3, <1>7 DEF QueueFact

\* Of the queues only those of a cluster change, and of its computations some.
Within(acc, next, c, comps) ==
  /\ \A d : /\ cluster_acc(d) \in DOMAIN next => cluster_acc(d) \in DOMAIN acc
            /\ mempool_acc(d) \in DOMAIN next <=> mempool_acc(d) \in DOMAIN acc
            /\ execpool_acc(d) \in DOMAIN next <=> execpool_acc(d) \in DOMAIN acc
            /\ d # c /\ mempool_acc(d) \in DOMAIN acc => next[mempool_acc(d)] = acc[mempool_acc(d)]
            /\ d # c /\ execpool_acc(d) \in DOMAIN acc => next[execpool_acc(d)] = acc[execpool_acc(d)]
  /\ \A a \in DOMAIN acc \cup DOMAIN next : a[1] = "ComputationAccount" /\ a \notin comps =>
       a \in DOMAIN acc /\ a \in DOMAIN next /\ next[a] = acc[a]
  /\ \A a \in comps : /\ a = computation_acc(c, a[3])
                      /\ a \in DOMAIN next /\ "stage" \in DOMAIN next[a]
                      /\ a \in DOMAIN acc /\ acc[a].stage = "final" => next[a].stage = "final"

\* The references then.
LEMMA RefsThen ==
  ASSUME NEW acc, NEW next, NEW c, NEW comps, QueueInv(acc), Within(acc, next, c, comps), NEW stage
  PROVE  /\ RefsAt(next, c, stage) = (RefsAt(acc, c, stage) \ {RefTo(a) : a \in comps})
                                       \cup {RefTo(a) : a \in {b \in comps : next[b].stage = stage}}
         /\ \A a \in comps : RefTo(a) \in RefsAt(acc, c, stage) =>
                               a \in DOMAIN acc /\ acc[a].stage = stage
<1>1. \A a, b : a = computation_acc(c, a[3]) /\ b = computation_acc(c, b[3]) /\ RefTo(a) = RefTo(b)
                  => a = b
  BY References
<1>2. \A a \in comps : a = computation_acc(c, a[3]) /\ a[1] = "ComputationAccount" /\ a[2] = c
  BY QueueAddresses DEF Within
<1>3. \A a \in DOMAIN acc : a[1] = "ComputationAccount" /\ a[2] = c => a = computation_acc(c, a[3])
  BY DEF QueueInv
<1>4. ASSUME NEW a \in comps, RefTo(a) \in RefsAt(acc, c, stage)
      PROVE  a \in DOMAIN acc /\ acc[a].stage = stage
  <2>1. PICK b \in DOMAIN acc : /\ b[1] = "ComputationAccount" /\ b[2] = c /\ acc[b].stage = stage
                                /\ RefTo(a) = RefTo(b)
    BY <1>4 DEF RefsAt
  <2>2. a = b
    BY <2>1, <1>1, <1>2, <1>3
  <2> QED BY <2>1, <2>2
<1> DEFINE now == RefsAt(acc, c, stage)
           then == RefsAt(next, c, stage)
           gone == {RefTo(a) : a \in comps}
           come == {RefTo(a) : a \in {b \in comps : next[b].stage = stage}}
<1>5. ASSUME NEW r \in then PROVE r \in (now \ gone) \cup come
  <2>1. PICK b \in DOMAIN next : /\ b[1] = "ComputationAccount" /\ b[2] = c /\ next[b].stage = stage
                                 /\ r = RefTo(b)
    BY <1>5 DEF RefsAt
  <2>2. CASE b \in comps
    BY <2>1, <2>2
  <2>3. CASE b \notin comps
    <3>1. b \in DOMAIN acc /\ next[b] = acc[b]
      BY <2>1, <2>3 DEF Within
    <3>2. r \in now
      BY <2>1, <3>1 DEF RefsAt
    <3>3. r \notin gone
      BY <2>1, <2>3, <3>1, <1>1, <1>2, <1>3
    <3> QED BY <3>2, <3>3
  <2> QED BY <2>2, <2>3
<1>6. ASSUME NEW r \in now \ gone PROVE r \in then
  <2>1. PICK b \in DOMAIN acc : /\ b[1] = "ComputationAccount" /\ b[2] = c /\ acc[b].stage = stage
                                /\ r = RefTo(b)
    BY <1>6 DEF RefsAt
  <2>2. b \notin comps
    BY <2>1, <1>6
  <2>3. b \in DOMAIN next /\ next[b] = acc[b]
    BY <2>1, <2>2 DEF Within
  <2> QED BY <2>1, <2>3 DEF RefsAt
<1>7. ASSUME NEW r \in come PROVE r \in then
  <2>1. PICK b \in comps : next[b].stage = stage /\ r = RefTo(b)
    BY <1>7
  <2>2. b \in DOMAIN next
    BY DEF Within
  <2> QED BY <2>1, <2>2, <1>2 DEF RefsAt
<1>8. then = (now \ gone) \cup come
  BY <1>5, <1>6, <1>7
<1> QED BY <1>4, <1>8

\* If the pools of that cluster are as they should be, all are.
LEMMA QueueChanges ==
  ASSUME NEW acc, NEW next, NEW c, NEW comps, QueueInv(acc), Within(acc, next, c, comps),
         mempool_acc(c) \in DOMAIN acc,
         Holds(next[mempool_acc(c)], RefsAt(next, c, "queued")),
         Runs(next[execpool_acc(c)], RefsAt(next, c, "executing"))
  PROVE  QueueFact(acc, next)
<1>1. \A a \in comps : a = computation_acc(c, a[3]) /\ a[1] = "ComputationAccount" /\ a[2] = c
  BY QueueAddresses DEF Within
<1>2. ASSUME NEW d, d # c, NEW stage PROVE RefsAt(next, d, stage) = RefsAt(acc, d, stage)
  <2>1. ASSUME NEW a, a[1] = "ComputationAccount", a[2] = d
        PROVE  (a \in DOMAIN acc <=> a \in DOMAIN next) /\ (a \in DOMAIN acc => next[a] = acc[a])
    <3>1. a \notin comps
      BY <2>1, <1>1, <1>2
    <3> QED BY <3>1, <2>1 DEF Within
  <2> QED BY <2>1 DEF RefsAt
<1>3. EndedStay(acc, next)
  BY DEF EndedStay, Within
<1>4. \A d : /\ cluster_acc(d) \in DOMAIN next => mempool_acc(d) \in DOMAIN next
             /\ mempool_acc(d) \in DOMAIN next <=> execpool_acc(d) \in DOMAIN next
  BY DEF QueueInv, Within
<1>5. ASSUME NEW a \in DOMAIN next, a[1] = "ComputationAccount"
      PROVE  /\ a = computation_acc(a[2], a[3]) /\ "stage" \in DOMAIN next[a]
             /\ mempool_acc(a[2]) \in DOMAIN next
  <2>1. CASE a \in comps
    BY <2>1, <1>1 DEF Within
  <2>2. CASE a \notin comps
    <3>1. a \in DOMAIN acc /\ next[a] = acc[a]
      BY <2>2, <1>5 DEF Within
    <3> QED BY <3>1, <1>5 DEF QueueInv, Within
  <2> QED BY <2>1, <2>2
<1>6. ASSUME NEW d, mempool_acc(d) \in DOMAIN next
      PROVE  /\ Holds(next[mempool_acc(d)], RefsAt(next, d, "queued"))
             /\ Runs(next[execpool_acc(d)], RefsAt(next, d, "executing"))
  <2>1. mempool_acc(d) \in DOMAIN acc /\ execpool_acc(d) \in DOMAIN acc
    BY <1>6 DEF QueueInv, Within
  <2>2. CASE d # c
    <3>1. next[mempool_acc(d)] = acc[mempool_acc(d)] /\ next[execpool_acc(d)] = acc[execpool_acc(d)]
      BY <2>1, <2>2 DEF Within
    <3> QED BY <2>1, <2>2, <3>1, <1>2 DEF QueueInv
  <2> QED BY <2>2
<1>7. QueueInv(next)
  BY <1>4, <1>5, <1>6 DEF QueueInv
<1> QED BY <1>3, <1>7 DEF QueueFact

-----------------------------------------------------------------------------
(* How the queues change. *)

\* A computation that does not wait or run is queued; others may be made that wait for it.
IsQueued(acc, next, c, o, others) ==
  LET a0 == computation_acc(c, o)
  IN  /\ Within(acc, next, c, {a0} \cup others)
      /\ mempool_acc(c) \in DOMAIN acc
      /\ next[mempool_acc(c)] = Push(acc[mempool_acc(c)], RefTo(a0))
      /\ next[execpool_acc(c)] = acc[execpool_acc(c)]
      /\ next[a0].stage = "queued"
      /\ a0 \in DOMAIN acc => acc[a0].stage \notin {"queued", "executing"}
      /\ \A b \in others : b \notin DOMAIN acc /\ next[b].stage = "waiting"

\* Its reference is new to the mempool.
LEMMA QueueGrows ==
  ASSUME NEW acc, NEW next, NEW c, NEW o, NEW others,
         QueueInv(acc), IsQueued(acc, next, c, o, others)
  PROVE  QueueFact(acc, next)
<1> DEFINE a0 == computation_acc(c, o)
           comps == {a0} \cup others
           m == acc[mempool_acc(c)]
           now(stage) == RefsAt(acc, c, stage)
           then(stage) == RefsAt(next, c, stage)
<1>1. /\ Within(acc, next, c, comps)
      /\ mempool_acc(c) \in DOMAIN acc
      /\ next[mempool_acc(c)] = Push(m, RefTo(a0))
      /\ next[execpool_acc(c)] = acc[execpool_acc(c)]
      /\ next[a0].stage = "queued"
      /\ a0 \in DOMAIN acc => acc[a0].stage \notin {"queued", "executing"}
      /\ \A b \in others : b \notin DOMAIN acc /\ next[b].stage = "waiting"
  BY DEF IsQueued
<1>2. ASSUME NEW stage
      PROVE  /\ then(stage) = (now(stage) \ {RefTo(a) : a \in comps})
                                \cup {RefTo(a) : a \in {b \in comps : next[b].stage = stage}}
             /\ \A a \in comps : RefTo(a) \in now(stage) => a \in DOMAIN acc /\ acc[a].stage = stage
  <2> HIDE DEF comps
  <2> QED BY <1>1, RefsThen
<1>3. RefTo(a0).priority_fee \in Int
  BY References
<1>4. Holds(m, now("queued")) /\ Runs(acc[execpool_acc(c)], now("executing"))
  BY <1>1 DEF QueueInv
<1> HIDE DEF a0, now, then
<1>5. ASSUME NEW stage \in {"queued", "executing"}, NEW a \in comps PROVE RefTo(a) \notin now(stage)
  BY <1>1, <1>2, <1>5
<1>6. /\ {b \in comps : next[b].stage = "queued"} = {a0}
      /\ {b \in comps : next[b].stage = "executing"} = {}
  BY <1>1
<1>7. then("queued") = now("queued") \cup {RefTo(a0)}
  BY <1>2, <1>5, <1>6
<1>8. then("executing") = now("executing")
  <2>1. {RefTo(a) : a \in {b \in comps : next[b].stage = "executing"}} = {}
    BY <1>6
  <2>2. \A r \in {RefTo(a) : a \in comps} : r \notin now("executing")
    BY <1>5
  <2>3. then("executing") = (now("executing") \ {RefTo(a) : a \in comps})
                              \cup {RefTo(a) : a \in {b \in comps : next[b].stage = "executing"}}
    BY <1>2
  <2> QED BY <2>1, <2>2, <2>3
<1>9. RefTo(a0) \notin now("queued")
  BY <1>5
<1>10. Holds(next[mempool_acc(c)], then("queued"))
  BY <1>1, <1>3, <1>4, <1>7, <1>9, PushHolds
<1>11. Runs(next[execpool_acc(c)], then("executing"))
  BY <1>1, <1>4, <1>8
<1> HIDE DEF comps
<1> QED BY <1>1, <1>10, <1>11, QueueChanges DEF now, then

\* A computation that runs comes to its end, and its place becomes empty.
HasEnded(acc, next, c, o) ==
  LET a0 == computation_acc(c, o)
      x  == acc[execpool_acc(c)]
  IN  /\ Within(acc, next, c, {a0})
      /\ mempool_acc(c) \in DOMAIN acc
      /\ next[mempool_acc(c)] = acc[mempool_acc(c)]
      /\ next[execpool_acc(c)] = [k \in 1 .. PoolSize |-> IF x[k] = RefTo(a0) THEN Zeroed ELSE x[k]]
      /\ a0 \in DOMAIN acc /\ acc[a0].stage = "executing" /\ next[a0].stage = "final"

\* Its reference leaves the executing pool.
LEMMA QueueEnds ==
  ASSUME NEW acc, NEW next, NEW c, NEW o, QueueInv(acc), HasEnded(acc, next, c, o)
  PROVE  QueueFact(acc, next)
<1> DEFINE a0 == computation_acc(c, o)
           comps == {a0}
           x == acc[execpool_acc(c)]
           now(stage) == RefsAt(acc, c, stage)
           then(stage) == RefsAt(next, c, stage)
<1>1. /\ Within(acc, next, c, comps)
      /\ mempool_acc(c) \in DOMAIN acc
      /\ next[mempool_acc(c)] = acc[mempool_acc(c)]
      /\ next[execpool_acc(c)] = [k \in 1 .. PoolSize |-> IF x[k] = RefTo(a0) THEN Zeroed ELSE x[k]]
      /\ a0 \in DOMAIN acc /\ acc[a0].stage = "executing" /\ next[a0].stage = "final"
  BY DEF HasEnded
<1>2. ASSUME NEW stage
      PROVE  /\ then(stage) = (now(stage) \ {RefTo(a) : a \in comps})
                                \cup {RefTo(a) : a \in {b \in comps : next[b].stage = stage}}
             /\ \A a \in comps : RefTo(a) \in now(stage) => a \in DOMAIN acc /\ acc[a].stage = stage
  <2> HIDE DEF comps
  <2> QED BY <1>1, RefsThen
<1>4. Holds(acc[mempool_acc(c)], now("queued")) /\ Runs(x, now("executing"))
  BY <1>1 DEF QueueInv
<1> HIDE DEF a0, now, then, x
<1>5. /\ {b \in comps : next[b].stage = "queued"} = {}
      /\ {b \in comps : next[b].stage = "executing"} = {}
      /\ {RefTo(a) : a \in comps} = {RefTo(a0)}
  BY <1>1
<1>6. RefTo(a0) \notin now("queued")
  BY <1>1, <1>2
<1>7. then("queued") = now("queued")
  BY <1>2, <1>5, <1>6
<1>8. then("executing") = now("executing") \ {RefTo(a0)}
  BY <1>2, <1>5
<1>9. Holds(next[mempool_acc(c)], then("queued"))
  BY <1>1, <1>4, <1>7
<1>10. Runs(next[execpool_acc(c)], then("executing"))
  <2>1. Runs([k \in 1 .. PoolSize |-> IF x[k] = RefTo(a0) THEN Zeroed ELSE x[k]],
             now("executing") \ {RefTo(a0)})
    BY <1>4, EndRuns
  <2> QED BY <1>1, <1>8, <2>1
<1> HIDE DEF comps
<1> QED BY <1>1, <1>9, <1>10, QueueChanges DEF now, then

\* Computations that wait take another stage, and the mempool holds the others.
HaveLeft(acc, next, c, comps) ==
  /\ Within(acc, next, c, comps)
  /\ mempool_acc(c) \in DOMAIN acc
  /\ next[execpool_acc(c)] = acc[execpool_acc(c)]
  /\ \A a \in comps : /\ a \in DOMAIN acc /\ acc[a].stage = "queued"
                      /\ next[a].stage \notin {"queued", "executing"}
  /\ Holds(next[mempool_acc(c)], RefsAt(acc, c, "queued") \ {RefTo(a) : a \in comps})

\* Their references are no longer in the mempool.
LEMMA QueueShrinks ==
  ASSUME NEW acc, NEW next, NEW c, NEW comps, QueueInv(acc), HaveLeft(acc, next, c, comps)
  PROVE  QueueFact(acc, next)
<1> DEFINE now(stage) == RefsAt(acc, c, stage)
           then(stage) == RefsAt(next, c, stage)
           gone == {RefTo(a) : a \in comps}
<1>1. /\ Within(acc, next, c, comps) /\ mempool_acc(c) \in DOMAIN acc
      /\ next[execpool_acc(c)] = acc[execpool_acc(c)]
      /\ \A a \in comps : /\ a \in DOMAIN acc /\ acc[a].stage = "queued"
                          /\ next[a].stage \notin {"queued", "executing"}
      /\ Holds(next[mempool_acc(c)], now("queued") \ gone)
  BY DEF HaveLeft
<1>2. ASSUME NEW stage
      PROVE  /\ then(stage) = (now(stage) \ gone)
                                \cup {RefTo(a) : a \in {b \in comps : next[b].stage = stage}}
             /\ \A a \in comps : RefTo(a) \in now(stage) => a \in DOMAIN acc /\ acc[a].stage = stage
  BY <1>1, RefsThen
<1>3. Runs(acc[execpool_acc(c)], now("executing"))
  BY <1>1 DEF QueueInv
<1> HIDE DEF now, then
<1>4. /\ {b \in comps : next[b].stage = "queued"} = {}
      /\ {b \in comps : next[b].stage = "executing"} = {}
  BY <1>1
<1>5. \A r \in gone : r \notin now("executing")
  BY <1>1, <1>2
<1>6. then("queued") = now("queued") \ gone
  BY <1>2, <1>4
<1>7. then("executing") = now("executing")
  BY <1>2, <1>4, <1>5
<1>8. Holds(next[mempool_acc(c)], then("queued")) /\ Runs(next[execpool_acc(c)], then("executing"))
  BY <1>1, <1>3, <1>6, <1>7
<1> QED BY <1>1, <1>8, QueueChanges DEF now, then

-----------------------------------------------------------------------------
(* What an instruction does to the queues. *)

KeepsQueues(ix) ==
  \A acc : QueueInv(acc) /\ Refusal(acc, ix) = "none" => QueueFact(acc, Executed(acc, ix))

\* Most instructions leave them alone.
LEMMA LeavesQueues ==
  ASSUME NEW ix,
         \A a \in Made(ix) \cup Closed(ix) :
           a[1] \notin {"Cluster", "ComputationAccount", "Mempool", "Execpool"},
         \A acc : \A a \in DOMAIN Changed(acc, ix) :
           a[1] \notin {"ComputationAccount", "Mempool", "Execpool"}
  PROVE  KeepsQueues(ix)
<1> SUFFICES ASSUME NEW acc, QueueInv(acc) PROVE QueueFact(acc, Executed(acc, ix))
  BY DEF KeepsQueues
<1> DEFINE next == Executed(acc, ix)
<1>e. /\ DOMAIN next = (DOMAIN acc \cup Made(ix)) \ Closed(ix)
      /\ \A a \in DOMAIN next \ DOMAIN Changed(acc, ix) : a \in DOMAIN acc => next[a] = acc[a]
  BY Effects
<1> HIDE DEF next
<1>1. ASSUME NEW a \in DOMAIN acc \cup DOMAIN next, a[1] \in {"ComputationAccount", "Mempool", "Execpool"}
      PROVE  a \in DOMAIN acc /\ a \in DOMAIN next /\ next[a] = acc[a]
  <2>1. a \notin Made(ix) /\ a \notin Closed(ix) /\ a \notin DOMAIN Changed(acc, ix)
    BY <1>1
  <2> QED BY <2>1, <1>e
<1>2. \A c : cluster_acc(c) \in DOMAIN next => cluster_acc(c) \in DOMAIN acc
  BY <1>e, QueueAddresses
<1>3. SameQueues(acc, next)
  BY <1>1, <1>2 DEF SameQueues
<1> QED BY <1>3, QueuesStay DEF next

\* A new cluster has pools in which nothing is.
LEMMA NewClusterKeepsQueues == ASSUME NEW s, NEW w, NEW c PROVE KeepsQueues(init_cluster_ix(s, w, c))
<1> DEFINE ix == init_cluster_ix(s, w, c)
<1> SUFFICES ASSUME NEW acc, QueueInv(acc), Refusal(acc, ix) = "none"
             PROVE  QueueFact(acc, Executed(acc, ix))
  BY DEF KeepsQueues
<1> DEFINE next == Executed(acc, ix)
           m0 == mempool_acc(c)
           x0 == execpool_acc(c)
<1>e. /\ DOMAIN next = (DOMAIN acc \cup Made(ix)) \ Closed(ix)
      /\ \A a \in DOMAIN next \ DOMAIN Changed(acc, ix) : a \in DOMAIN acc => next[a] = acc[a]
      /\ \A a \in DOMAIN next \ DOMAIN Changed(acc, ix) :
           a \notin DOMAIN acc =>
             \E role \in MadeRoles(ix.ix) : a = ix.accs[role] /\ next[a] = NewContent(acc, ix, role)
  BY Effects
<1>1. /\ MadeRoles(ix.ix) = {"cluster_acc", "mempool", "execpool"} /\ Closed(ix) = {}
      /\ ix.accs.cluster_acc = cluster_acc(c) /\ ix.accs.mempool = m0 /\ ix.accs.execpool = x0
  BY DEF init_cluster_ix, Ix, MadeRoles, CreatedRoles, OptionalRoles, ClosedRoles, Closed
<1>2. DOMAIN Changed(acc, ix) = {}
  BY DEF init_cluster_ix, Ix, Changed, QueuedRole, None, ++
<1>3. m0 \notin DOMAIN acc /\ x0 \notin DOMAIN acc
  BY DEF init_cluster_ix, Ix, Refusal, AccountsMatch, CreatedRoles, OptionalRoles
<1>4. /\ NewContent(acc, ix, "mempool") = NewMempool
      /\ NewContent(acc, ix, "execpool") = NewExecpool
  BY DEF NewContent
<1>5. m0[1] = "Mempool" /\ x0[1] = "Execpool" /\ cluster_acc(c)[1] = "Cluster"
  BY QueueAddresses
<1>6. Made(ix) = {cluster_acc(c), m0, x0}
  BY <1>1 DEF Made
<1> HIDE DEF next, ix, m0, x0
<1>7. /\ DOMAIN next = DOMAIN acc \cup {cluster_acc(c), m0, x0}
      /\ \A a \in DOMAIN acc : next[a] = acc[a]
      /\ next[m0] = NewMempool /\ next[x0] = NewExecpool
  BY <1>1, <1>2, <1>3, <1>4, <1>5, <1>6, <1>e
<1>8. ASSUME NEW a, a[1] = "ComputationAccount"
      PROVE  (a \in DOMAIN next <=> a \in DOMAIN acc) /\ (a \in DOMAIN acc => next[a] = acc[a])
  BY <1>5, <1>7, <1>8
<1>9. \A d, stage : RefsAt(next, d, stage) = RefsAt(acc, d, stage)
  BY <1>8 DEF RefsAt
<1>10. \A stage : RefsAt(acc, c, stage) = {}
  BY <1>3 DEF RefsAt, QueueInv, m0
<1>11. EndedStay(acc, next)
  BY <1>8 DEF EndedStay
<1>12. ASSUME NEW d, d # c
       PROVE  /\ cluster_acc(d) \in DOMAIN next <=> cluster_acc(d) \in DOMAIN acc
              /\ mempool_acc(d) \in DOMAIN next <=> mempool_acc(d) \in DOMAIN acc
              /\ execpool_acc(d) \in DOMAIN next <=> execpool_acc(d) \in DOMAIN acc
              /\ mempool_acc(d) \in DOMAIN acc => next[mempool_acc(d)] = acc[mempool_acc(d)]
              /\ execpool_acc(d) \in DOMAIN acc => next[execpool_acc(d)] = acc[execpool_acc(d)]
  BY <1>7, <1>12, QueueAddresses DEF m0, x0
<1>13. mempool_acc(c) \in DOMAIN next /\ execpool_acc(c) \in DOMAIN next
  BY <1>7 DEF m0, x0
<1>14. \A d : /\ cluster_acc(d) \in DOMAIN next => mempool_acc(d) \in DOMAIN next
              /\ mempool_acc(d) \in DOMAIN next <=> execpool_acc(d) \in DOMAIN next
  BY <1>12, <1>13 DEF QueueInv
<1>15. ASSUME NEW a \in DOMAIN next, a[1] = "ComputationAccount"
       PROVE  /\ a = computation_acc(a[2], a[3]) /\ "stage" \in DOMAIN next[a]
              /\ mempool_acc(a[2]) \in DOMAIN next
  BY <1>7, <1>8, <1>15 DEF QueueInv
<1>16. ASSUME NEW d, mempool_acc(d) \in DOMAIN next
       PROVE  /\ Holds(next[mempool_acc(d)], RefsAt(next, d, "queued"))
              /\ Runs(next[execpool_acc(d)], RefsAt(next, d, "executing"))
  <2>1. CASE d = c
    BY <2>1, <1>7, <1>9, <1>10, NewHolds, NewRuns DEF m0, x0
  <2>2. CASE d # c
    <3>1. mempool_acc(d) \in DOMAIN acc /\ execpool_acc(d) \in DOMAIN acc
      BY <2>2, <1>12, <1>16 DEF QueueInv
    <3> QED BY <3>1, <2>2, <1>9, <1>12 DEF QueueInv
  <2> QED BY <2>1, <2>2
<1>17. QueueInv(next)
  BY <1>14, <1>15, <1>16 DEF QueueInv
<1> QED BY <1>11, <1>17 DEF QueueFact, next

\* An instruction that puts a computation in the mempool: what it writes and makes.
Queuing(acc, ix, c, o, others) ==
  LET a0 == computation_acc(c, o)
      changed == Changed(acc, ix)
  IN  /\ Closed(ix) = {} /\ mempool_acc(c) \in DOMAIN acc
      /\ mempool_acc(c) \in DOMAIN changed
      /\ changed[mempool_acc(c)] = Push(acc[mempool_acc(c)], RefTo(a0))
      /\ \A a \in DOMAIN changed \ {mempool_acc(c), a0} :
           a[1] \notin {"ComputationAccount", "Mempool", "Execpool"}
      /\ a0 \in DOMAIN changed =>
           /\ a0 \in DOMAIN acc /\ changed[a0] = [acc[a0] EXCEPT !.stage = "queued"]
           /\ acc[a0].stage \notin {"queued", "executing", "final"}
      /\ a0 \notin DOMAIN changed => a0 \in Made(ix) /\ a0 \notin DOMAIN acc
      /\ \A role \in MadeRoles(ix.ix) :
           \/ /\ ix.accs[role] = a0 /\ NewContent(acc, ix, role).stage = "queued"
              /\ "stage" \in DOMAIN NewContent(acc, ix, role)
           \/ /\ ix.accs[role] \in others /\ NewContent(acc, ix, role).stage = "waiting"
              /\ "stage" \in DOMAIN NewContent(acc, ix, role)
           \/ ix.accs[role][1] \notin {"Cluster", "ComputationAccount", "Mempool", "Execpool"}
      /\ \A b \in others :
           b # a0 /\ b = computation_acc(c, b[3]) /\ b \in Made(ix) /\ b \notin DOMAIN acc

\* The queues are then as they should be.
LEMMA QueuingKeepsQueues ==
  ASSUME NEW acc, NEW ix, NEW c, NEW o, NEW others,
         QueueInv(acc), Queuing(acc, ix, c, o, others)
  PROVE  QueueFact(acc, Executed(acc, ix))
<1> DEFINE next == Executed(acc, ix)
           a0 == computation_acc(c, o)
           m0 == mempool_acc(c)
           changed == Changed(acc, ix)
           comps == {a0} \cup others
<1>e. /\ DOMAIN next = (DOMAIN acc \cup Made(ix)) \ Closed(ix)
      /\ \A a \in DOMAIN next \cap DOMAIN changed : next[a] = changed[a]
      /\ \A a \in DOMAIN next \ DOMAIN changed : a \in DOMAIN acc => next[a] = acc[a]
      /\ \A a \in DOMAIN next \ DOMAIN changed :
           a \notin DOMAIN acc =>
             \E role \in MadeRoles(ix.ix) : a = ix.accs[role] /\ next[a] = NewContent(acc, ix, role)
  BY Effects
<1>q. /\ Closed(ix) = {} /\ m0 \in DOMAIN acc /\ m0 \in DOMAIN changed
      /\ changed[m0] = Push(acc[m0], RefTo(a0))
      /\ \A a \in DOMAIN changed \ {m0, a0} : a[1] \notin {"ComputationAccount", "Mempool", "Execpool"}
      /\ a0 \in DOMAIN changed =>
           /\ a0 \in DOMAIN acc /\ changed[a0] = [acc[a0] EXCEPT !.stage = "queued"]
           /\ acc[a0].stage \notin {"queued", "executing", "final"}
      /\ a0 \notin DOMAIN changed => a0 \in Made(ix) /\ a0 \notin DOMAIN acc
      /\ \A role \in MadeRoles(ix.ix) :
           \/ /\ ix.accs[role] = a0 /\ NewContent(acc, ix, role).stage = "queued"
              /\ "stage" \in DOMAIN NewContent(acc, ix, role)
           \/ /\ ix.accs[role] \in others /\ NewContent(acc, ix, role).stage = "waiting"
              /\ "stage" \in DOMAIN NewContent(acc, ix, role)
           \/ ix.accs[role][1] \notin {"Cluster", "ComputationAccount", "Mempool", "Execpool"}
      /\ \A b \in others :
           b # a0 /\ b = computation_acc(c, b[3]) /\ b \in Made(ix) /\ b \notin DOMAIN acc
  BY DEF Queuing
<1>k. /\ a0[1] = "ComputationAccount" /\ m0[1] = "Mempool" /\ a0 = computation_acc(c, a0[3])
      /\ \A b \in others : b[1] = "ComputationAccount"
  BY <1>q, QueueAddresses
<1> HIDE DEF next, a0, m0, changed
<1>d. DOMAIN next = DOMAIN acc \cup Made(ix)
  BY <1>e, <1>q
<1>m. \A a \in Made(ix) : \E role \in MadeRoles(ix.ix) : a = ix.accs[role]
  BY DEF Made
<1>1. next[m0] = Push(acc[m0], RefTo(a0))
  BY <1>d, <1>e, <1>q
<1>2. ASSUME NEW a \in DOMAIN acc, a[1] \in {"ComputationAccount", "Mempool", "Execpool"}, a \notin {m0, a0}
      PROVE  next[a] = acc[a]
  <2>1. a \notin DOMAIN changed
    BY <1>2, <1>q
  <2> QED BY <2>1, <1>d, <1>e
<1>3. a0 \in DOMAIN next /\ "stage" \in DOMAIN next[a0] /\ next[a0].stage = "queued"
  <2>1. CASE a0 \in DOMAIN changed
    <3>1. "stage" \in DOMAIN acc[a0]
      BY <2>1, <1>q, <1>k DEF QueueInv
    <3>2. next[a0] = [acc[a0] EXCEPT !.stage = "queued"] /\ a0 \in DOMAIN next
      BY <2>1, <1>d, <1>e, <1>q
    <3> QED BY <3>1, <3>2
  <2>2. CASE a0 \notin DOMAIN changed
    <3>1. a0 \in DOMAIN next \ DOMAIN changed /\ a0 \notin DOMAIN acc
      BY <2>2, <1>d, <1>q
    <3>2. PICK role \in MadeRoles(ix.ix) : a0 = ix.accs[role] /\ next[a0] = NewContent(acc, ix, role)
      BY <3>1, <1>e
    <3> QED BY <3>1, <3>2, <1>q, <1>k
  <2> QED BY <2>1, <2>2
<1>4. ASSUME NEW b \in others
      PROVE  /\ b \in DOMAIN next /\ "stage" \in DOMAIN next[b] /\ next[b].stage = "waiting"
             /\ b = computation_acc(c, b[3]) /\ b \notin DOMAIN acc
  <2>1. b \in DOMAIN next /\ b \notin DOMAIN acc /\ b = computation_acc(c, b[3])
    BY <1>d, <1>q
  <2>2. b # a0
    BY <1>q
  <2>3. b \notin DOMAIN changed
    BY <2>2, <1>q, <1>k
  <2>4. PICK role \in MadeRoles(ix.ix) : b = ix.accs[role] /\ next[b] = NewContent(acc, ix, role)
    BY <2>1, <2>3, <1>e
  <2> QED BY <2>1, <2>2, <2>4, <1>q, <1>k
<1>5. ASSUME NEW a \in DOMAIN next, a[1] \in {"Cluster", "ComputationAccount", "Mempool", "Execpool"},
             a \notin comps
      PROVE  a \in DOMAIN acc
  BY <1>5, <1>d, <1>m, <1>q
<1>6. Within(acc, next, c, comps)
  <2>1. ASSUME NEW d
        PROVE  /\ cluster_acc(d) \in DOMAIN next => cluster_acc(d) \in DOMAIN acc
               /\ mempool_acc(d) \in DOMAIN next <=> mempool_acc(d) \in DOMAIN acc
               /\ execpool_acc(d) \in DOMAIN next <=> execpool_acc(d) \in DOMAIN acc
    <3>1. /\ cluster_acc(d)[1] = "Cluster" /\ mempool_acc(d)[1] = "Mempool"
          /\ execpool_acc(d)[1] = "Execpool"
      BY QueueAddresses
    <3>2. cluster_acc(d) \notin comps /\ mempool_acc(d) \notin comps /\ execpool_acc(d) \notin comps
      BY <3>1, <1>k
    <3> HIDE DEF comps
    <3> QED BY <3>1, <3>2, <1>5, <1>d
  <2>2. ASSUME NEW d, d # c
        PROVE  /\ mempool_acc(d) \in DOMAIN acc => next[mempool_acc(d)] = acc[mempool_acc(d)]
               /\ execpool_acc(d) \in DOMAIN acc => next[execpool_acc(d)] = acc[execpool_acc(d)]
    <3>1. /\ mempool_acc(d)[1] = "Mempool" /\ execpool_acc(d)[1] = "Execpool"
          /\ mempool_acc(d) # m0
      BY <2>2, QueueAddresses DEF m0
    <3> QED BY <3>1, <1>2, <1>k
  <2>3. ASSUME NEW a \in DOMAIN acc \cup DOMAIN next, a[1] = "ComputationAccount", a \notin comps
        PROVE  a \in DOMAIN acc /\ a \in DOMAIN next /\ next[a] = acc[a]
    <3>1. a \in DOMAIN acc
      BY <2>3, <1>5
    <3>2. a \notin {m0, a0}
      BY <2>3, <1>k
    <3> QED BY <3>1, <3>2, <2>3, <1>2, <1>d
  <2>4. ASSUME NEW a \in comps
        PROVE  /\ a = computation_acc(c, a[3])
               /\ a \in DOMAIN next /\ "stage" \in DOMAIN next[a]
               /\ a \in DOMAIN acc /\ acc[a].stage = "final" => next[a].stage = "final"
    BY <1>3, <1>4, <1>k, <1>q
  <2> HIDE DEF comps
  <2> QED BY <2>1, <2>2, <2>3, <2>4 DEF Within
<1>7. next[execpool_acc(c)] = acc[execpool_acc(c)]
  <2>1. execpool_acc(c) \in DOMAIN acc /\ execpool_acc(c)[1] = "Execpool"
    BY <1>q, QueueAddresses DEF QueueInv, m0
  <2> QED BY <2>1, <1>2, <1>k
<1>8. IsQueued(acc, next, c, o, others)
  BY <1>1, <1>3, <1>4, <1>6, <1>7, <1>q DEF IsQueued, a0, m0
<1> QED BY <1>8, QueueGrows DEF next

\* The instructions that end a computation that runs.
LEMMA EndingKeepsQueues ==
  ASSUME NEW ix, NEW c, NEW o,
         \/ ix.ix = "callback_computation" /\ ix.accs.comp = computation_acc(c, o)
         \/ ix.ix = "finalize_key_recovery_callback" /\ ix.accs.computation = computation_acc(c, o)
         \/ /\ ix.ix = "claim_failure_finalize" /\ ix.accs.comp = computation_acc(c, o)
            /\ ix.accs.failure_acc[1] = "FailureClaimAccountHeader",
         ix.accs.executing_pool = execpool_acc(c)
  PROVE  KeepsQueues(ix)
<1> SUFFICES ASSUME NEW acc, QueueInv(acc), Refusal(acc, ix) = "none"
             PROVE  QueueFact(acc, Executed(acc, ix))
  BY DEF KeepsQueues
<1> DEFINE next == Executed(acc, ix)
           a0 == computation_acc(c, o)
           x0 == execpool_acc(c)
           changed == Changed(acc, ix)
           v == [acc[a0] EXCEPT !.stage = "final"]
           w == [k \in 1 .. PoolSize |-> IF acc[x0][k] = RefTo(a0) THEN Zeroed ELSE acc[x0][k]]
           more == Entry(ix.accs.failure_acc, [state |-> "final"])
<1>e. /\ DOMAIN next = (DOMAIN acc \cup Made(ix)) \ Closed(ix)
      /\ \A a \in DOMAIN next \cap DOMAIN changed : next[a] = changed[a]
      /\ \A a \in DOMAIN next \ DOMAIN changed : a \in DOMAIN acc => next[a] = acc[a]
      /\ \A a \in DOMAIN next \ DOMAIN changed :
           a \notin DOMAIN acc =>
             \E role \in MadeRoles(ix.ix) : a = ix.accs[role] /\ next[a] = NewContent(acc, ix, role)
  BY Effects
<1>1. Made(ix) = {} /\ Closed(ix) = {}
  BY DEF Made, MadeRoles, CreatedRoles, OptionalRoles, ClosedRoles, Closed
<1>2. Ended(acc, a0, x0) = Entry(a0, v) ++ Entry(x0, w)
  BY DEF Ended
<1>3. \/ changed = <<>> ++ Ended(acc, a0, x0)
      \/ /\ changed = <<>> ++ (more ++ Ended(acc, a0, x0))
         /\ ix.accs.failure_acc[1] = "FailureClaimAccountHeader"
  <2> HIDE DEF a0, x0
  <2> QED BY DEF Changed, QueuedRole, None, a0, x0
<1>4. a0 \in DOMAIN acc /\ acc[a0].stage = "executing"
  <2>1. Allowed(acc, ix)
    BY DEF Refusal
  <2> QED BY <2>1 DEF Allowed, QueuedRole, None
<1>5. /\ a0[1] = "ComputationAccount" /\ x0[1] = "Execpool" /\ mempool_acc(c)[1] = "Mempool"
      /\ a0 = computation_acc(c, a0[3]) /\ a0[2] = c
  BY QueueAddresses
<1>6. "stage" \in DOMAIN acc[a0] /\ mempool_acc(c) \in DOMAIN acc /\ x0 \in DOMAIN acc
  BY <1>4, <1>5 DEF QueueInv
<1> HIDE DEF next, a0, x0, changed, w
<1>7. /\ a0 \in DOMAIN changed /\ x0 \in DOMAIN changed /\ changed[a0] = v /\ changed[x0] = w
      /\ \A a \in DOMAIN changed \ {a0, x0} : a[1] = "FailureClaimAccountHeader"
  <2> HIDE DEF v
  <2> QED BY <1>2, <1>3, <1>5 DEF ++, Entry
<1>8. DOMAIN next = DOMAIN acc
  BY <1>1, <1>e
<1>9. next[a0] = v /\ next[x0] = w
  BY <1>4, <1>6, <1>7, <1>8, <1>e
<1>10. ASSUME NEW a \in DOMAIN acc, a[1] \in {"ComputationAccount", "Mempool", "Execpool"}, a \notin {a0, x0}
       PROVE  next[a] = acc[a]
  <2>1. a \notin DOMAIN changed
    BY <1>10, <1>7
  <2> QED BY <2>1, <1>8, <1>e
<1>11. DOMAIN v = DOMAIN acc[a0] /\ v.stage = "final"
  BY <1>6
<1>12. Within(acc, next, c, {a0})
  <2>1. ASSUME NEW d, d # c
        PROVE  /\ mempool_acc(d) \in DOMAIN acc => next[mempool_acc(d)] = acc[mempool_acc(d)]
               /\ execpool_acc(d) \in DOMAIN acc => next[execpool_acc(d)] = acc[execpool_acc(d)]
    <3>1. /\ mempool_acc(d)[1] = "Mempool" /\ execpool_acc(d)[1] = "Execpool" /\ execpool_acc(d) # x0
      BY <2>1, QueueAddresses DEF x0
    <3> QED BY <3>1, <1>5, <1>10
  <2>2. ASSUME NEW a \in DOMAIN acc \cup DOMAIN next, a[1] = "ComputationAccount", a \notin {a0}
        PROVE  a \in DOMAIN acc /\ a \in DOMAIN next /\ next[a] = acc[a]
    BY <2>2, <1>5, <1>8, <1>10
  <2>3. ASSUME NEW a \in {a0}
        PROVE  /\ a = computation_acc(c, a[3])
               /\ a \in DOMAIN next /\ "stage" \in DOMAIN next[a]
               /\ a \in DOMAIN acc /\ acc[a].stage = "final" => next[a].stage = "final"
    BY <1>4, <1>5, <1>6, <1>8, <1>9, <1>11
  <2> QED BY <2>1, <2>2, <2>3, <1>8 DEF Within
<1>13. next[mempool_acc(c)] = acc[mempool_acc(c)]
  BY <1>5, <1>6, <1>10
<1>14. next[a0].stage = "final"
  BY <1>9, <1>11
<1>15. HasEnded(acc, next, c, o)
  BY <1>4, <1>6, <1>9, <1>12, <1>13, <1>14 DEF HasEnded, a0, x0, w
<1> QED BY <1>15, QueueEnds DEF next

\* The instructions that make a computation and queue it.
LEMMA MakingKeepsQueues ==
  ASSUME NEW ix, NEW c, NEW o,
         \/ ix.ix = "queue_computation"
         \/ /\ ix.ix \in {"finalize_key_recovery_execution", "requeue_key_recovery_finalize"}
            /\ ix.accs.mxe_recovery_account[1] = "MxeRecoveryAccount",
         QueuedRole(ix.ix) \in DOMAIN ix.accs, ix.accs[QueuedRole(ix.ix)] = computation_acc(c, o),
         ix.accs.mempool = mempool_acc(c)
  PROVE  KeepsQueues(ix)
<1> SUFFICES ASSUME NEW acc, QueueInv(acc), Refusal(acc, ix) = "none"
             PROVE  QueueFact(acc, Executed(acc, ix))
  BY DEF KeepsQueues
<1> DEFINE a0 == computation_acc(c, o)
           m0 == mempool_acc(c)
           role0 == QueuedRole(ix.ix)
           changed == Changed(acc, ix)
           v == Push(acc[m0], RefTo(a0))
<1>1. /\ MadeRoles(ix.ix) = {role0} /\ CreatedRoles(ix.ix) = {role0} /\ Closed(ix) = {}
      /\ OptionalRoles(ix.ix) = {} /\ role0 # "callback_accs" /\ role0 # None
  BY DEF MadeRoles, CreatedRoles, OptionalRoles, ClosedRoles, Closed, QueuedRole, None
<1>2. /\ NewContent(acc, ix, role0).stage = "queued"
      /\ "stage" \in DOMAIN NewContent(acc, ix, role0)
  BY DEF NewContent, Computation, QueuedRole
<1>3. \/ changed = Entry(m0, v) ++ <<>>
      \/ /\ ix.accs.mxe_recovery_account[1] = "MxeRecoveryAccount"
         /\ \E u : changed = Entry(m0, v) ++ Entry(ix.accs.mxe_recovery_account, u)
  <2> HIDE DEF a0, m0
  <2> QED BY DEF Changed, QueuedRole, None, a0, m0
<1>4. m0 \in DOMAIN acc
  <2>1. Allowed(acc, ix)
    BY DEF Refusal
  <2> QED BY <2>1, <1>1 DEF Allowed
<1>5. a0 \notin DOMAIN acc
  <2>1. AccountsMatch(acc, ix)
    BY DEF Refusal
  <2> HIDE DEF role0, a0
  <2>2. ix.accs[role0] \notin DOMAIN acc
    BY <2>1, <1>1 DEF AccountsMatch, role0
  <2> QED BY <2>2 DEF role0, a0
<1>6. a0[1] = "ComputationAccount" /\ m0[1] = "Mempool"
  BY QueueAddresses
<1>7. ix.accs[role0] = a0 /\ Made(ix) = {a0}
  BY <1>1 DEF Made
<1> HIDE DEF changed, a0, m0, role0, v
<1>8. /\ m0 \in DOMAIN changed /\ changed[m0] = v /\ a0 \notin DOMAIN changed
      /\ \A a \in DOMAIN changed \ {m0} : a[1] = "MxeRecoveryAccount"
  BY <1>3, <1>6 DEF ++, Entry
<1>9. Queuing(acc, ix, c, o, {})
  BY <1>1, <1>2, <1>4, <1>5, <1>7, <1>8 DEF Queuing, changed, a0, m0, v
<1> QED BY <1>9, QueuingKeepsQueues

\* Those that queue a program's own computation, again or for the first time.
LEMMA OwnKeepsQueues ==
  ASSUME NEW ix, NEW c, NEW o, ix.accs.mempool = mempool_acc(c),
         \/ /\ ix.ix = "requeue_mxe_keygen"
            /\ ix.accs.mxe_keygen_computation = computation_acc(c, o)
         \/ /\ ix.ix = "queue_key_recovery_init"
            /\ ix.accs.key_recovery_init_computation = computation_acc(c, o)
            /\ ix.accs.key_recovery_init_computation_definition[1] = "ComputationDefinitionAccount"
  PROVE  KeepsQueues(ix)
<1> SUFFICES ASSUME NEW acc, QueueInv(acc), Refusal(acc, ix) = "none"
             PROVE  QueueFact(acc, Executed(acc, ix))
  BY DEF KeepsQueues
<1> DEFINE a0 == computation_acc(c, o)
           m0 == mempool_acc(c)
           changed == Changed(acc, ix)
           v == Push(acc[m0], RefTo(a0))
           x == [acc[a0] EXCEPT !.stage = "queued"]
<1>1. /\ Closed(ix) = {}
      /\ \A role \in MadeRoles(ix.ix) : ix.accs[role][1] = "ComputationDefinitionAccount"
  BY DEF MadeRoles, CreatedRoles, OptionalRoles, ClosedRoles, Closed
<1>2. changed = Entry(m0, v) ++ Entry(a0, x)
  <2> HIDE DEF a0, m0
  <2> QED BY DEF Changed, QueuedRole, None, a0, m0
<1>3. m0 \in DOMAIN acc /\ a0 \in DOMAIN acc /\ acc[a0].stage \in {"expired", "waiting"}
  <2>1. Allowed(acc, ix)
    BY DEF Refusal
  <2> QED BY <2>1 DEF Allowed, QueuedRole, None
<1>4. a0[1] = "ComputationAccount" /\ m0[1] = "Mempool"
  BY QueueAddresses
<1> HIDE DEF changed, a0, m0, v
<1>5. DOMAIN changed = {m0, a0} /\ changed[m0] = v /\ changed[a0] = x
  <2> HIDE DEF x
  <2> QED BY <1>2, <1>4 DEF ++, Entry
<1>6. Queuing(acc, ix, c, o, {})
  BY <1>1, <1>3, <1>5 DEF Queuing, changed, a0, m0, v
<1> QED BY <1>6, QueuingKeepsQueues

\* The first part of a program's initialization leaves the queues alone.
LEMMA FirstPartKeepsQueues == ASSUME NEW s, NEW p PROVE KeepsQueues(init_mxe_part1_ix(s, p))
<1> DEFINE ix == init_mxe_part1_ix(s, p)
<1>1. ix.ix = "init_mxe_part1" /\ ix.accs.recovery_cluster_acc = recovery_cluster_acc(p)
  BY DEF init_mxe_part1_ix, Ix
<1> HIDE DEF ix
<1>2. Made(ix) = {recovery_cluster_acc(p)} /\ Closed(ix) = {}
  BY <1>1 DEF Made, Closed, MadeRoles, CreatedRoles, OptionalRoles, ClosedRoles
<1>3. \A acc : DOMAIN Changed(acc, ix) = {}
  BY <1>1 DEF Changed, QueuedRole, None, ++
<1>4. recovery_cluster_acc(p)[1] = "RecoveryClusterAccount"
  BY DEF recovery_cluster_acc
<1>5. KeepsQueues(ix)
  BY <1>2, <1>3, <1>4, LeavesQueues
<1> QED BY <1>5 DEF ix

\* The second queues the generation of its keys; its recovery waits.
LEMMA SecondPartKeepsQueues ==
  ASSUME NEW s, NEW p, NEW c, NEW k, NEW r, NEW slot
  PROVE  KeepsQueues(init_mxe_part2_ix(s, p, c, k, r, slot))
<1> DEFINE ix == init_mxe_part2_ix(s, p, c, k, r, slot)
           roles == {"mxe", "address_lookup_table", "mxe_keygen_computation_definition",
                     "mxe_keygen_computation", "key_recovery_init_computation"}
           a0 == computation_acc(c, k)
           b0 == computation_acc(c, r)
           m0 == mempool_acc(c)
<1>1. /\ ix.ix = "init_mxe_part2" /\ roles \subseteq DOMAIN ix.accs
      /\ ix.accs.mxe = mxe_acc(p)
      /\ ix.accs.address_lookup_table = mxe_lut_acc(p, slot)
      /\ ix.accs.mxe_keygen_computation_definition = computation_definition_acc(p, MXE_KEYGEN_OFFSET)
      /\ ix.accs.mxe_keygen_computation = a0 /\ ix.accs.key_recovery_init_computation = b0
      /\ ix.accs.mempool = m0
  BY DEF init_mxe_part2_ix, Ix
<1> HIDE DEF ix
<1> SUFFICES ASSUME NEW acc, QueueInv(acc), Refusal(acc, ix) = "none"
             PROVE  QueueFact(acc, Executed(acc, ix))
  BY DEF KeepsQueues, ix
<1> DEFINE changed == Changed(acc, ix)
           v == Push(acc[m0], RefTo(a0))
<1>2. /\ Closed(ix) = {} /\ OptionalRoles(ix.ix) = {} /\ CreatedRoles(ix.ix) = roles
      /\ MadeRoles(ix.ix) = roles /\ QueuedRole(ix.ix) = "mxe_keygen_computation"
      /\ QueuedRole(ix.ix) # None
  BY <1>1 DEF MadeRoles, CreatedRoles, OptionalRoles, ClosedRoles, Closed, QueuedRole, None
<1>3. changed = Entry(m0, v) ++ <<>>
  <2> HIDE DEF a0, m0
  <2> QED BY <1>1, <1>2 DEF Changed
<1>4. m0 \in DOMAIN acc
  <2>1. Allowed(acc, ix)
    BY DEF Refusal
  <2> QED BY <2>1, <1>1, <1>2 DEF Allowed
<1>5. /\ m0[1] = "Mempool" /\ a0[1] = "ComputationAccount" /\ b0[1] = "ComputationAccount"
      /\ b0 = computation_acc(c, b0[3])
      /\ mxe_acc(p)[1] = "MXEAccount" /\ mxe_lut_acc(p, slot)[1] = "LookupTable"
      /\ computation_definition_acc(p, MXE_KEYGEN_OFFSET)[1] = "ComputationDefinitionAccount"
  BY QueueAddresses, AddressKinds DEF mxe_lut_acc, computation_definition_acc
<1> HIDE DEF changed, v, a0, b0, m0
<1>6. a0 \notin DOMAIN acc /\ b0 \notin DOMAIN acc /\ a0 # b0
  <2>1. AccountsMatch(acc, ix)
    BY DEF Refusal
  <2>2. \A role \in roles : ix.accs[role] \notin DOMAIN acc
    BY <2>1, <1>1, <1>2 DEF AccountsMatch
  <2>3. ix.accs["mxe_keygen_computation"] # ix.accs["key_recovery_init_computation"]
    BY <2>1, <1>2 DEF AccountsMatch
  <2> QED BY <2>2, <2>3, <1>1
<1>7. DOMAIN changed = {m0} /\ changed[m0] = v
  BY <1>3 DEF ++, Entry
<1>8. a0 \in Made(ix) /\ b0 \in Made(ix)
  BY <1>1, <1>2 DEF Made
<1>9. /\ NewContent(acc, ix, "mxe_keygen_computation").stage = "queued"
      /\ NewContent(acc, ix, "key_recovery_init_computation").stage = "waiting"
      /\ "stage" \in DOMAIN NewContent(acc, ix, "mxe_keygen_computation")
      /\ "stage" \in DOMAIN NewContent(acc, ix, "key_recovery_init_computation")
  BY DEF NewContent, Computation
<1>10. ASSUME NEW role \in MadeRoles(ix.ix)
       PROVE  \/ /\ ix.accs[role] = a0 /\ NewContent(acc, ix, role).stage = "queued"
                 /\ "stage" \in DOMAIN NewContent(acc, ix, role)
              \/ /\ ix.accs[role] \in {b0} /\ NewContent(acc, ix, role).stage = "waiting"
                 /\ "stage" \in DOMAIN NewContent(acc, ix, role)
              \/ ix.accs[role][1] \notin {"Cluster", "ComputationAccount", "Mempool", "Execpool"}
  BY <1>1, <1>2, <1>5, <1>9
<1>11. Queuing(acc, ix, c, k, {b0})
  BY <1>2, <1>4, <1>5, <1>6, <1>7, <1>8, <1>10 DEF Queuing, changed, a0, m0, v
<1> QED BY <1>11, QueuingKeepsQueues

-----------------------------------------------------------------------------
(* What nodes and time do to the queues. *)

\* The mempool of a cluster changes and some of its computations take another stage.
Leaving(acc, c, m, comps, stage) ==
  [a \in DOMAIN acc |-> IF a = mempool_acc(c) THEN m
                        ELSE IF a \in comps THEN [acc[a] EXCEPT !.stage = stage]
                        ELSE acc[a]]

\* The computations of a cluster that have left its mempool are in another stage, and
\* nothing else changes.
LEMMA ComputationsLeave ==
  ASSUME NEW acc, NEW next, NEW c, NEW stage, stage \notin {"queued", "executing"}, NEW comps, NEW m,
         QueueInv(acc), mempool_acc(c) \in DOMAIN acc,
         \A a \in comps : /\ a \in DOMAIN acc /\ acc[a].stage = "queued"
                          /\ a[1] = "ComputationAccount" /\ a[2] = c,
         next = Leaving(acc, c, m, comps, stage),
         Holds(m, RefsAt(acc, c, "queued") \ {RefTo(a) : a \in comps})
  PROVE  QueueFact(acc, next)
<1> DEFINE m0 == mempool_acc(c)
<1>1. m0[1] = "Mempool" /\ \A d : execpool_acc(d)[1] = "Execpool" /\ (d # c => mempool_acc(d) # m0)
  BY QueueAddresses
<1>2. \A a \in comps : a \notin {m0} /\ "stage" \in DOMAIN acc[a] /\ a = computation_acc(c, a[3])
  BY <1>1 DEF QueueInv
<1>3. \A d : mempool_acc(d)[1] = "Mempool"
  BY QueueAddresses
<1> HIDE DEF m0
<1>4. /\ DOMAIN next = DOMAIN acc
      /\ m0 \in DOMAIN acc => next[m0] = m
      /\ \A a \in DOMAIN acc : a # m0 /\ a \notin comps => next[a] = acc[a]
      /\ \A a \in comps : next[a] = [acc[a] EXCEPT !.stage = stage]
  BY <1>2 DEF m0, Leaving
<1>5. \A a \in comps : "stage" \in DOMAIN next[a] /\ next[a].stage = stage
  BY <1>2, <1>4
<1>6. ASSUME NEW d, d # c
      PROVE  /\ mempool_acc(d) \in DOMAIN acc => next[mempool_acc(d)] = acc[mempool_acc(d)]
             /\ execpool_acc(d) \in DOMAIN acc => next[execpool_acc(d)] = acc[execpool_acc(d)]
  BY <1>1, <1>3, <1>4, <1>6
<1>7. next[execpool_acc(c)] = acc[execpool_acc(c)]
  <2>1. execpool_acc(c) \in DOMAIN acc
    BY DEF QueueInv
  <2> QED BY <2>1, <1>1, <1>4
<1>8. Within(acc, next, c, comps)
  <2>1. ASSUME NEW a \in DOMAIN acc \cup DOMAIN next, a[1] = "ComputationAccount", a \notin comps
        PROVE  a \in DOMAIN acc /\ a \in DOMAIN next /\ next[a] = acc[a]
    BY <2>1, <1>1, <1>4
  <2>2. ASSUME NEW a \in comps
        PROVE  /\ a = computation_acc(c, a[3]) /\ a \in DOMAIN next /\ "stage" \in DOMAIN next[a]
               /\ a \in DOMAIN acc /\ acc[a].stage = "final" => next[a].stage = "final"
    BY <1>2, <1>4, <1>5
  <2> QED BY <2>1, <2>2, <1>4, <1>6 DEF Within
<1>9. next[mempool_acc(c)] = m
  BY <1>4 DEF m0
<1>10. HaveLeft(acc, next, c, comps)
  BY <1>5, <1>7, <1>8, <1>9 DEF HaveLeft
<1> QED BY <1>10, QueueShrinks

\* With the computations ended the queues are empty.
LEMMA EndedKeepsQueues == ASSUME NEW acc, QueueInv(acc) PROVE QueueInv(AllEnded(acc))
<1> DEFINE c == TheCluster
           next == AllEnded(acc)
           comps == {a \in DOMAIN acc : /\ a[1] = "ComputationAccount" /\ a[2] = c
                                        /\ acc[a].stage = "queued"}
<1>1. mempool_acc(c)[1] = "Mempool"
  BY QueueAddresses
<1>2. next = Leaving(acc, c, NewMempool, comps, "final")
  <2> DEFINE then == Leaving(acc, c, NewMempool, comps, "final")
  <2>1. ASSUME NEW a \in DOMAIN acc PROVE next[a] = then[a]
    <3>1. CASE a = mempool_acc(c)
      BY <1>1, <3>1 DEF AllEnded, Leaving
    <3>2. CASE a # mempool_acc(c) /\ a \in comps
      BY <3>2 DEF AllEnded, Leaving
    <3>3. CASE a # mempool_acc(c) /\ a \notin comps
      BY <3>3 DEF AllEnded, Leaving
    <3> QED BY <3>1, <3>2, <3>3
  <2>2. next = [a \in DOMAIN acc |-> next[a]] /\ then = [a \in DOMAIN acc |-> then[a]]
    BY DEF AllEnded, Leaving
  <2> HIDE DEF next, then
  <2> QED BY <2>1, <2>2 DEF then
<1> HIDE DEF next
<1>3. CASE mempool_acc(c) \in DOMAIN acc
  <2>1. RefsAt(acc, c, "queued") \ {RefTo(a) : a \in comps} = {}
    BY DEF RefsAt
  <2>2. Holds(NewMempool, RefsAt(acc, c, "queued") \ {RefTo(a) : a \in comps})
    BY <2>1, NewHolds
  <2>3. \A a \in comps : /\ a \in DOMAIN acc /\ acc[a].stage = "queued"
                         /\ a[1] = "ComputationAccount" /\ a[2] = c
    OBVIOUS
  <2> HIDE DEF comps, c
  <2>4. QueueFact(acc, next)
    BY <1>2, <1>3, <2>2, <2>3, ComputationsLeave
  <2> QED BY <2>4 DEF QueueFact, next
<1>4. CASE mempool_acc(c) \notin DOMAIN acc
  <2>1. comps = {}
    BY <1>4 DEF QueueInv
  <2>2. DOMAIN next = DOMAIN acc /\ \A a \in DOMAIN acc : next[a] = acc[a]
    BY <1>2, <1>4, <2>1 DEF Leaving
  <2>3. SameQueues(acc, next)
    BY <2>2 DEF SameQueues
  <2> QED BY <2>3, QueuesStay DEF QueueFact, next
<1> QED BY <1>3, <1>4

\* What has expired is no longer in the mempool.
LEMMA TimeKeepsQueues ==
  ASSUME QueueInv(accounts), TimePasses PROVE QueueFact(accounts, accounts')
<1> DEFINE c == TheCluster
           m == accounts[mempool_acc(c)]
           comps == {computation_acc(c, r.computation_offset) : r \in ToSet(Expiring(m))}
           waiting == RefsAt(accounts, c, "queued")
<1>1. /\ mempool_acc(c) \in DOMAIN accounts
      /\ accounts' = [a \in DOMAIN accounts |->
                        IF a = mempool_acc(c) THEN Advance(m)
                        ELSE IF a \in comps THEN [accounts[a] EXCEPT !.stage = "expired"]
                        ELSE accounts[a]]
  BY DEF TimePasses, Is
<1>2. Holds(m, waiting)
  BY <1>1 DEF QueueInv
<1>3. ToSet(Expiring(m)) \subseteq waiting /\ Holds(Advance(m), waiting \ ToSet(Expiring(m)))
  <2> HIDE DEF m, waiting
  <2> QED BY <1>2, AdvanceHolds
<1>4. ASSUME NEW r \in ToSet(Expiring(m))
      PROVE  LET a == computation_acc(c, r.computation_offset)
             IN  /\ a \in DOMAIN accounts /\ accounts[a].stage = "queued" /\ RefTo(a) = r
                 /\ a[1] = "ComputationAccount" /\ a[2] = c
  <2>1. PICK b \in DOMAIN accounts : /\ b[1] = "ComputationAccount" /\ b[2] = c
                                     /\ accounts[b].stage = "queued" /\ r = RefTo(b)
    BY <1>3 DEF RefsAt
  <2>2. b = computation_acc(c, b[3])
    BY <2>1 DEF QueueInv
  <2>3. r.computation_offset = b[3]
    BY <2>1, <2>2, References
  <2> QED BY <2>1, <2>2, <2>3
<1>5. {RefTo(a) : a \in comps} = ToSet(Expiring(m))
  BY <1>4
<1>6. \A a \in comps : /\ a \in DOMAIN accounts /\ accounts[a].stage = "queued"
                       /\ a[1] = "ComputationAccount" /\ a[2] = c
  BY <1>4
<1>7. Holds(Advance(m), waiting \ {RefTo(a) : a \in comps})
  BY <1>3, <1>5
<1> DEFINE next == accounts'
<1>8. next = Leaving(accounts, c, Advance(m), comps, "expired")
  BY <1>1 DEF Leaving
<1> HIDE DEF next, comps, c, m
<1>9. QueueFact(accounts, next)
  BY <1>1, <1>6, <1>7, <1>8, ComputationsLeave
<1> QED BY <1>9 DEF next

\* What the nodes take is dear, waits, and runs from then on.
LEMMA NodesKeepQueues ==
  ASSUME QueueInv(accounts), NodesTakeOne PROVE QueueFact(accounts, accounts')
<1> DEFINE c == TheCluster
           m0 == mempool_acc(c)
           x0 == execpool_acc(c)
           m == accounts[m0]
           x == accounts[x0]
           next == accounts'
           now(stage) == RefsAt(accounts, c, stage)
           then(stage) == RefsAt(next, c, stage)
<1>1. PICK r \in ToSet(computations_highest_prio(m)), k \in {j \in DOMAIN x : x[j] = Zeroed} :
        next = [accounts EXCEPT ![m0] = TakeOut(m, r), ![x0] = [x EXCEPT ![k] = r],
                                ![computation_acc(c, r.computation_offset)].stage = "executing"]
  BY DEF NodesTakeOne
<1> DEFINE a0 == computation_acc(c, r.computation_offset)
           m1 == TakeOut(m, r)
           x1 == [x EXCEPT ![k] = r]
<1>2. m0 \in DOMAIN accounts /\ x0 \in DOMAIN accounts
  BY DEF NodesTakeOne, Is, QueueInv
<1>3. Holds(m, now("queued")) /\ Runs(x, now("executing"))
  BY <1>2 DEF QueueInv
<1>4. r \in now("queued") /\ r # Zeroed
  <2> HIDE DEF m, now
  <2> QED BY <1>1, <1>3, FirstAreDearest
<1>5. /\ a0 \in DOMAIN accounts /\ accounts[a0].stage = "queued" /\ RefTo(a0) = r
      /\ "stage" \in DOMAIN accounts[a0]
  <2>1. PICK b \in DOMAIN accounts : /\ b[1] = "ComputationAccount" /\ b[2] = c
                                     /\ accounts[b].stage = "queued" /\ r = RefTo(b)
    BY <1>4 DEF RefsAt
  <2>2. b = computation_acc(c, b[3]) /\ "stage" \in DOMAIN accounts[b]
    BY <2>1 DEF QueueInv
  <2>3. r.computation_offset = b[3]
    BY <2>1, <2>2, References
  <2> QED BY <2>1, <2>2, <2>3
<1>6. /\ m0[1] = "Mempool" /\ x0[1] = "Execpool" /\ a0[1] = "ComputationAccount"
      /\ a0 = computation_acc(c, a0[3])
      /\ \A d : mempool_acc(d)[1] = "Mempool" /\ execpool_acc(d)[1] = "Execpool"
      /\ \A d : d # c => mempool_acc(d) # m0 /\ execpool_acc(d) # x0
  BY QueueAddresses
<1>7. r \notin now("executing")
  <2>1. ASSUME r \in now("executing") PROVE FALSE
    <3>1. PICK b \in DOMAIN accounts : /\ b[1] = "ComputationAccount" /\ b[2] = c
                                       /\ accounts[b].stage = "executing" /\ r = RefTo(b)
      BY <2>1 DEF RefsAt
    <3>2. b = computation_acc(c, b[3])
      BY <3>1 DEF QueueInv
    <3>3. b = a0
      BY <3>1, <3>2, References
    <3> QED BY <3>1, <3>3, <1>5
  <2> QED BY <2>1
<1> HIDE DEF m0, x0, a0, m, x, next, m1, x1, now, then
<1>8. /\ DOMAIN next = DOMAIN accounts
      /\ next[m0] = m1 /\ next[x0] = x1 /\ next[a0] = [accounts[a0] EXCEPT !.stage = "executing"]
      /\ \A a \in DOMAIN accounts : a \notin {m0, x0, a0} => next[a] = accounts[a]
  <2>1. next = [accounts EXCEPT ![m0] = m1, ![x0] = x1, ![a0].stage = "executing"]
    BY <1>1 DEF m1, x1, a0
  <2> QED BY <2>1, <1>2, <1>5, <1>6
<1>9. "stage" \in DOMAIN next[a0] /\ next[a0].stage = "executing"
  BY <1>5, <1>8
<1>10. Within(accounts, next, c, {a0})
  <2>1. ASSUME NEW d, d # c
        PROVE  /\ mempool_acc(d) \in DOMAIN accounts => next[mempool_acc(d)] = accounts[mempool_acc(d)]
               /\ execpool_acc(d) \in DOMAIN accounts => next[execpool_acc(d)] = accounts[execpool_acc(d)]
    BY <2>1, <1>6, <1>8
  <2>2. ASSUME NEW a \in DOMAIN accounts \cup DOMAIN next, a[1] = "ComputationAccount", a \notin {a0}
        PROVE  a \in DOMAIN accounts /\ a \in DOMAIN next /\ next[a] = accounts[a]
    BY <2>2, <1>6, <1>8
  <2>3. ASSUME NEW a \in {a0}
        PROVE  /\ a = computation_acc(c, a[3])
               /\ a \in DOMAIN next /\ "stage" \in DOMAIN next[a]
               /\ a \in DOMAIN accounts /\ accounts[a].stage = "final" => next[a].stage = "final"
    BY <1>5, <1>6, <1>8, <1>9
  <2> QED BY <2>1, <2>2, <2>3, <1>8 DEF Within
<1>11. ASSUME NEW stage
       PROVE  then(stage) = (now(stage) \ {RefTo(a) : a \in {a0}})
                              \cup {RefTo(a) : a \in {b \in {a0} : next[b].stage = stage}}
  BY <1>10, RefsThen DEF now, then
<1>12. /\ {RefTo(a) : a \in {a0}} = {r}
       /\ {b \in {a0} : next[b].stage = "queued"} = {}
       /\ {b \in {a0} : next[b].stage = "executing"} = {a0}
  BY <1>5, <1>9
<1>13. then("queued") = now("queued") \ {r}
  BY <1>11, <1>12
<1>14. then("executing") = now("executing") \cup {r}
  <2>1. then("executing") = (now("executing") \ {RefTo(a) : a \in {a0}}) \cup {RefTo(a) : a \in {a0}}
    BY <1>11, <1>12
  <2> QED BY <2>1, <1>12
<1>15. Holds(m1, now("queued") \ {r})
  BY <1>3, TakeOutHolds DEF m1
<1>16. Runs(x1, now("executing") \cup {r})
  BY <1>1, <1>3, <1>4, <1>7, StartRuns DEF x1
<1>17. Holds(next[mempool_acc(c)], RefsAt(next, c, "queued"))
       /\ Runs(next[execpool_acc(c)], RefsAt(next, c, "executing"))
  BY <1>8, <1>13, <1>14, <1>15, <1>16 DEF m0, x0, then
<1>18. mempool_acc(c) \in DOMAIN accounts
  BY <1>2 DEF m0
<1>19. QueueFact(accounts, next)
  BY <1>10, <1>17, <1>18, QueueChanges
<1> QED BY <1>19 DEF next

-----------------------------------------------------------------------------
(* The claims that a computation failed. *)

IsClaim(a) == a[1] = "FailureClaimAccountHeader"

\* A claim is whole, and it is about a computation of its program that has ended.
ClaimIsWhole(acc, a) ==
  /\ a[2] \in Programs /\ mxe_acc(a[2]) \in DOMAIN acc /\ acc[a].state = "final"
  /\ LET comp == computation_acc(acc[mxe_acc(a[2])].cluster, a[3])
     IN  comp \in DOMAIN acc /\ acc[comp].stage = "final"

ClaimsInv(acc) == \A a \in DOMAIN acc : IsClaim(a) => ClaimIsWhole(acc, a)

NoNewClaims(acc, next) == \A a \in DOMAIN next : IsClaim(a) => a \in DOMAIN acc /\ next[a] = acc[a]

\* A claim that is whole stays so while programs keep their clusters and what has ended
\* does not begin again.
LEMMA ClaimStays ==
  ASSUME NEW acc, NEW next, Fact(acc, next), QueueFact(acc, next),
         NEW a, IsClaim(a), ClaimIsWhole(acc, a), next[a] = acc[a]
  PROVE  ClaimIsWhole(next, a)
<1> DEFINE comp == computation_acc(acc[mxe_acc(a[2])].cluster, a[3])
<1>2. /\ a[2] \in Programs /\ mxe_acc(a[2]) \in DOMAIN acc /\ acc[a].state = "final"
      /\ comp \in DOMAIN acc /\ acc[comp].stage = "final"
  BY DEF ClaimIsWhole
<1>3. mxe_acc(a[2]) \in DOMAIN next /\ next[mxe_acc(a[2])].cluster = acc[mxe_acc(a[2])].cluster
  BY <1>2 DEF Fact, Later
<1>4. comp[1] = "ComputationAccount"
  BY AddressKinds
<1> HIDE DEF comp
<1>5. comp \in DOMAIN next /\ next[comp].stage = "final"
  BY <1>2, <1>4 DEF QueueFact, EndedStay
<1> QED BY <1>2, <1>3, <1>5 DEF ClaimIsWhole, comp

\* So do all of them if none is made or changed.
LEMMA ClaimsStay ==
  ASSUME NEW acc, NEW next, ClaimsInv(acc), Fact(acc, next), QueueFact(acc, next), NoNewClaims(acc, next)
  PROVE  ClaimsInv(next)
<1> SUFFICES ASSUME NEW a \in DOMAIN next, IsClaim(a) PROVE ClaimIsWhole(next, a)
  BY DEF ClaimsInv
<1>1. a \in DOMAIN acc /\ next[a] = acc[a]
  BY DEF NoNewClaims
<1> QED BY <1>1, ClaimStays DEF ClaimsInv

\* An instruction that makes none.
LeavesClaims(ix) == \A acc : NoNewClaims(acc, Executed(acc, ix))

\* An instruction that makes and changes no claim.
LEMMA NoClaim ==
  ASSUME NEW ix, \A a \in Made(ix) : ~ IsClaim(a),
         \A acc : \A a \in DOMAIN Changed(acc, ix) : ~ IsClaim(a)
  PROVE  LeavesClaims(ix)
<1> SUFFICES ASSUME NEW acc PROVE NoNewClaims(acc, Executed(acc, ix))
  BY DEF LeavesClaims
<1> DEFINE next == Executed(acc, ix)
<1>e. /\ DOMAIN next = (DOMAIN acc \cup Made(ix)) \ Closed(ix)
      /\ \A a \in DOMAIN next \ DOMAIN Changed(acc, ix) : a \in DOMAIN acc => next[a] = acc[a]
  BY Effects
<1> HIDE DEF next
<1>1. NoNewClaims(acc, next)
  BY <1>e DEF NoNewClaims
<1> QED BY <1>1 DEF next

\* Neither the queues nor the claims change but as they may.
Apart(ix) == KeepsQueues(ix) /\ LeavesClaims(ix)

\* Most instructions leave both alone.
LEMMA StaysApart ==
  ASSUME NEW ix,
         \A a \in Made(ix) \cup Closed(ix) :
           a[1] \notin {"Cluster", "ComputationAccount", "Mempool", "Execpool"},
         \A a \in Made(ix) : ~ IsClaim(a),
         \A acc : \A a \in DOMAIN Changed(acc, ix) :
           a[1] \notin {"ComputationAccount", "Mempool", "Execpool"} /\ ~ IsClaim(a)
  PROVE  Apart(ix)
<1>1. KeepsQueues(ix)
  BY LeavesQueues
<1>2. LeavesClaims(ix)
  BY NoClaim
<1> QED BY <1>1, <1>2 DEF Apart

\* Those about nodes and the activity of clusters.
LEMMA NodesStayApart ==
  ASSUME NEW s, NEW w, NEW n, NEW c, NEW d, NEW join
  PROVE  /\ Apart(init_arx_node_acc_ix(s, w, n)) /\ Apart(activate_arx_ix(s, n))
         /\ Apart(deactivate_arx_ix(s, n, d))
         /\ Apart(activate_cluster_ix(s, c)) /\ Apart(deactivate_cluster_ix(s, c))
         /\ Apart(propose_join_cluster_ix(s, c, n)) /\ Apart(join_cluster_ix(s, c, n, join))
<1>1. arx_acc(n)[1] = "ArxNode" /\ cluster_acc(c)[1] = "Cluster"
  BY AddressKinds
<1>2. ASSUME NEW ix,
             \/ /\ ix.ix \in {"init_arx_node", "activate_arx", "deactivate_arx"}
                /\ ix.accs.arx_node_acc = arx_acc(n)
             \/ /\ ix.ix \in {"activate_cluster", "deactivate_cluster"}
                /\ ix.accs.cluster_acc = cluster_acc(c)
             \/ /\ ix.ix \in {"propose_join_cluster", "join_cluster"}
                /\ ix.accs.arx_node_acc = arx_acc(n) /\ ix.accs.cluster_acc = cluster_acc(c)
      PROVE  Apart(ix)
  <2>1. MadeRoles(ix.ix) \subseteq {"arx_node_acc"} /\ Closed(ix) = {}
        /\ ("arx_node_acc" \in MadeRoles(ix.ix) => ix.accs.arx_node_acc = arx_acc(n))
    BY <1>2 DEF MadeRoles, CreatedRoles, OptionalRoles, ClosedRoles, Closed
  <2>2. \A a \in Made(ix) : a = arx_acc(n)
    BY <2>1 DEF Made
  <2>3. ASSUME NEW acc PROVE DOMAIN Changed(acc, ix) \subseteq {arx_acc(n), cluster_acc(c)}
    <3>1. QueuedRole(ix.ix) = None
      BY <1>2 DEF QueuedRole, None
    <3>2. \/ ix.ix = "init_arx_node" /\ Changed(acc, ix) = <<>> ++ <<>>
          \/ \E v : Changed(acc, ix) = <<>> ++ Entry(arx_acc(n), v)
          \/ \E v : Changed(acc, ix) = <<>> ++ Entry(cluster_acc(c), v)
          \/ \E v, u : Changed(acc, ix) = <<>> ++ (Entry(arx_acc(n), v) ++ Entry(cluster_acc(c), u))
      BY <1>2, <3>1 DEF Changed
    <3> QED BY <3>2 DEF ++, Entry
  <2> QED BY <2>1, <2>2, <2>3, <1>1, StaysApart DEF IsClaim
<1>3. Apart(init_arx_node_acc_ix(s, w, n))
  BY <1>2 DEF init_arx_node_acc_ix, Ix
<1>4. Apart(activate_arx_ix(s, n)) /\ Apart(deactivate_arx_ix(s, n, d))
  BY <1>2 DEF activate_arx_ix, deactivate_arx_ix, Ix
<1>5. Apart(activate_cluster_ix(s, c)) /\ Apart(deactivate_cluster_ix(s, c))
  BY <1>2 DEF activate_cluster_ix, deactivate_cluster_ix, Ix
<1>6. Apart(propose_join_cluster_ix(s, c, n)) /\ Apart(join_cluster_ix(s, c, n, join))
  BY <1>2 DEF propose_join_cluster_ix, join_cluster_ix, NodeInCluster, NodeInClusterArgs, Ix
<1> QED BY <1>3, <1>4, <1>5, <1>6

\* Those that make or end computations and clusters make no claim.
LEMMA OthersLeaveClaims ==
  ASSUME NEW ix, NEW c, NEW o,
         \/ /\ ix.ix = "init_cluster" /\ ix.accs.cluster_acc = cluster_acc(c)
            /\ ix.accs.mempool = mempool_acc(c) /\ ix.accs.execpool = execpool_acc(c)
         \/ /\ ix.ix = "callback_computation" /\ ix.accs.comp = computation_acc(c, o)
            /\ ix.accs.executing_pool = execpool_acc(c)
         \/ /\ ix.ix = "finalize_key_recovery_callback" /\ ix.accs.computation = computation_acc(c, o)
            /\ ix.accs.executing_pool = execpool_acc(c)
         \/ /\ ix.ix = "queue_computation" /\ ix.accs.comp = computation_acc(c, o)
            /\ ix.accs.mempool = mempool_acc(c)
         \/ /\ ix.ix \in {"finalize_key_recovery_execution", "requeue_key_recovery_finalize"}
            /\ ix.accs[QueuedRole(ix.ix)] = computation_acc(c, o)
            /\ ix.accs.mempool = mempool_acc(c)
            /\ ix.accs.mxe_recovery_account[1] = "MxeRecoveryAccount"
         \/ /\ ix.ix = "requeue_mxe_keygen" /\ ix.accs.mempool = mempool_acc(c)
            /\ ix.accs.mxe_keygen_computation = computation_acc(c, o)
         \/ /\ ix.ix = "queue_key_recovery_init" /\ ix.accs.mempool = mempool_acc(c)
            /\ ix.accs.key_recovery_init_computation = computation_acc(c, o)
            /\ ix.accs.key_recovery_init_computation_definition[1] = "ComputationDefinitionAccount"
  PROVE  LeavesClaims(ix)
<1>1. /\ cluster_acc(c)[1] = "Cluster" /\ mempool_acc(c)[1] = "Mempool"
      /\ execpool_acc(c)[1] = "Execpool" /\ computation_acc(c, o)[1] = "ComputationAccount"
  BY QueueAddresses
<1>2. \A role \in MadeRoles(ix.ix) : ix.accs[role][1] # "FailureClaimAccountHeader"
  BY <1>1 DEF MadeRoles, CreatedRoles, OptionalRoles, ClosedRoles, QueuedRole
<1>3. ASSUME NEW acc, NEW a \in DOMAIN Changed(acc, ix)
      PROVE  a \in {computation_acc(c, o), mempool_acc(c), execpool_acc(c)} \/ a[1] = "MxeRecoveryAccount"
  <2>1. \A comp, pool : \E v, w : Ended(acc, comp, pool) = Entry(comp, v) ++ Entry(pool, w)
    BY DEF Ended
  <2>2. CASE ix.ix = "init_cluster"
    <3>1. Changed(acc, ix) = <<>> ++ <<>>
      BY <2>2 DEF Changed, QueuedRole, None
    <3> QED BY <3>1, <1>3 DEF ++
  <2>3. CASE ix.ix \in {"callback_computation", "finalize_key_recovery_callback"}
    <3>1. Changed(acc, ix) = <<>> ++ Ended(acc, computation_acc(c, o), execpool_acc(c))
      BY <2>3 DEF Changed, QueuedRole, None
    <3>2. PICK v, w : Changed(acc, ix) = <<>> ++ (Entry(computation_acc(c, o), v) ++ Entry(execpool_acc(c), w))
      BY <2>1, <3>1
    <3> QED BY <3>2, <1>3 DEF ++, Entry
  <2>4. CASE ix.ix \in {"queue_computation", "finalize_key_recovery_execution", "requeue_key_recovery_finalize"}
    <3>1. \/ \E w : Changed(acc, ix) = Entry(mempool_acc(c), w) ++ <<>>
          \/ /\ ix.accs.mxe_recovery_account[1] = "MxeRecoveryAccount"
             /\ \E w, v : Changed(acc, ix) = Entry(mempool_acc(c), w) ++ Entry(ix.accs.mxe_recovery_account, v)
      BY <2>4 DEF Changed, QueuedRole, None
    <3> QED BY <3>1, <1>3 DEF ++, Entry
  <2>5. CASE ix.ix \in {"requeue_mxe_keygen", "queue_key_recovery_init"}
    <3>1. \E w, v : Changed(acc, ix) = Entry(mempool_acc(c), w) ++ Entry(computation_acc(c, o), v)
      BY <2>5 DEF Changed, QueuedRole, None
    <3> QED BY <3>1, <1>3 DEF ++, Entry
  <2> QED BY <2>2, <2>3, <2>4, <2>5
<1>4. \A acc : \A a \in DOMAIN Changed(acc, ix) : ~ IsClaim(a)
  BY <1>1, <1>3 DEF IsClaim
<1> QED BY <1>2, <1>4, NoClaim DEF Made, IsClaim

\* Nor does the initialization of a program.
LEMMA BothPartsLeaveClaims ==
  ASSUME NEW s, NEW p, NEW c, NEW k, NEW r, NEW slot
  PROVE  /\ LeavesClaims(init_mxe_part1_ix(s, p))
         /\ LeavesClaims(init_mxe_part2_ix(s, p, c, k, r, slot))
<1>1. LeavesClaims(init_mxe_part1_ix(s, p))
  <2> DEFINE ix == init_mxe_part1_ix(s, p)
  <2>1. ix.ix = "init_mxe_part1" /\ ix.accs.recovery_cluster_acc[1] = "RecoveryClusterAccount"
    BY DEF init_mxe_part1_ix, Ix, recovery_cluster_acc
  <2> HIDE DEF ix
  <2>2. MadeRoles(ix.ix) = {"recovery_cluster_acc"}
    BY <2>1 DEF MadeRoles, CreatedRoles, OptionalRoles, ClosedRoles
  <2>3. \A acc : DOMAIN Changed(acc, ix) = {}
    BY <2>1 DEF Changed, QueuedRole, None, ++
  <2>4. LeavesClaims(ix)
    BY <2>1, <2>2, <2>3, NoClaim DEF Made, IsClaim
  <2> QED BY <2>4 DEF ix
<1>2. LeavesClaims(init_mxe_part2_ix(s, p, c, k, r, slot))
  <2> DEFINE ix == init_mxe_part2_ix(s, p, c, k, r, slot)
             roles == {"mxe", "address_lookup_table", "mxe_keygen_computation_definition",
                       "mxe_keygen_computation", "key_recovery_init_computation"}
  <2>1. /\ ix.ix = "init_mxe_part2" /\ ix.accs.mempool = mempool_acc(c)
        /\ ix.accs.mxe[1] = "MXEAccount" /\ ix.accs.address_lookup_table[1] = "LookupTable"
        /\ ix.accs.mxe_keygen_computation_definition[1] = "ComputationDefinitionAccount"
        /\ ix.accs.mxe_keygen_computation[1] = "ComputationAccount"
        /\ ix.accs.key_recovery_init_computation[1] = "ComputationAccount"
    BY DEF init_mxe_part2_ix, Ix, mxe_acc, mxe_lut_acc, computation_definition_acc, computation_acc
  <2> HIDE DEF ix
  <2>2. MadeRoles(ix.ix) = roles
    BY <2>1 DEF MadeRoles, CreatedRoles, OptionalRoles, ClosedRoles
  <2>3. ASSUME NEW acc PROVE DOMAIN Changed(acc, ix) = {mempool_acc(c)}
    <3>1. \E w : Changed(acc, ix) = Entry(mempool_acc(c), w) ++ <<>>
      BY <2>1 DEF Changed, QueuedRole, None
    <3> QED BY <3>1 DEF ++, Entry
  <2>4. mempool_acc(c)[1] = "Mempool"
    BY QueueAddresses
  <2>5. \A a \in Made(ix) : ~ IsClaim(a)
    BY <2>1, <2>2 DEF Made, IsClaim
  <2>6. LeavesClaims(ix)
    BY <2>3, <2>4, <2>5, NoClaim DEF IsClaim
  <2> QED BY <2>6 DEF ix
<1> QED BY <1>1, <1>2

-----------------------------------------------------------------------------
(* Instructions that keep the chain as it should be. *)

\* The programs are kept whole by an instruction that the chain accepts,
KeepsPrograms(ix) ==
  \A acc : ChainInv(acc) /\ Refusal(acc, ix) = "none" => Fact(acc, Executed(acc, ix))

\* and the queues as well,
KeepsChain(ix) == KeepsPrograms(ix) /\ KeepsQueues(ix)

\* and the claims as well.
Safe(ix) == KeepsPrograms(ix) /\ Apart(ix)

\* A chain as it should be,
Sound(acc) == ChainInv(acc) /\ QueueInv(acc) /\ ClaimsInv(acc)

\* and one it leads to.
Goes(acc, next) == Fact(acc, next) /\ QueueFact(acc, next) /\ ClaimsInv(next)

\* It is as it should be.
LEMMA GoesIsSound == ASSUME NEW acc, NEW next, Goes(acc, next) PROVE Sound(next)
BY DEF Goes, Sound, Fact, QueueFact

\* It leads to itself,
LEMMA GoesItself == ASSUME NEW acc, Sound(acc) PROVE Goes(acc, acc)
BY LaterItself DEF Goes, Sound, Fact, QueueFact, EndedStay

\* and where what it leads to leads.
LEMMA FactsGoOn ==
  ASSUME NEW acc, NEW mid, NEW next, ChainInv(acc),
         Fact(acc, mid), QueueFact(acc, mid), Fact(mid, next), QueueFact(mid, next)
  PROVE  Fact(acc, next) /\ QueueFact(acc, next)
<1>1. Fact(acc, next)
  BY LaterOfLater DEF Fact
<1>2. EndedStay(acc, next)
  BY DEF QueueFact, EndedStay
<1> QED BY <1>1, <1>2 DEF QueueFact

\* The claims are kept with the rest.
LEMMA GoesOn ==
  ASSUME NEW acc, NEW mid, NEW next, Sound(acc), Goes(acc, mid), Goes(mid, next)
  PROVE  Goes(acc, next)
BY FactsGoOn DEF Goes, Sound

\* So does a chain that a safe instruction changes.
LEMMA SafeGoes ==
  ASSUME NEW acc, NEW ix, Sound(acc), Safe(ix), Refusal(acc, ix) = "none"
  PROVE  Goes(acc, Executed(acc, ix))
<1> DEFINE next == Executed(acc, ix)
<1>1. Fact(acc, next) /\ QueueFact(acc, next) /\ NoNewClaims(acc, next)
  BY DEF Safe, Sound, KeepsPrograms, Apart, KeepsQueues, LeavesClaims
<1> HIDE DEF next
<1>2. ClaimsInv(next)
  BY <1>1, ClaimsStay DEF Sound
<1>3. Goes(acc, next)
  BY <1>1, <1>2 DEF Goes
<1> QED BY <1>3 DEF next

\* The accounts that others depend on, and the pools.
Tracked == Watched \cup {"Mempool", "Execpool"}

\* Instructions that write none of them.
LEMMA QuietKeepsPrograms ==
  ASSUME NEW ix,
         \A a \in Made(ix) \cup Closed(ix) : a[1] \notin Watched,
         \A acc : \A a \in DOMAIN Changed(acc, ix) : a[1] \notin Watched
  PROVE  KeepsPrograms(ix)
<1> SUFFICES ASSUME NEW acc, ChainInv(acc) PROVE Fact(acc, Executed(acc, ix))
  BY DEF KeepsPrograms
<1> DEFINE next == Executed(acc, ix)
<1>a. /\ DOMAIN next = (DOMAIN acc \cup Made(ix)) \ Closed(ix)
      /\ \A a \in DOMAIN next \ DOMAIN Changed(acc, ix) : a \in DOMAIN acc => next[a] = acc[a]
  BY Effects
<1> HIDE DEF next
<1>1. ASSUME NEW a \in DOMAIN acc \cup DOMAIN next, a[1] \in Watched
      PROVE  a \in DOMAIN acc /\ a \in DOMAIN next /\ next[a] = acc[a]
  <2>1. a \notin Made(ix) /\ a \notin Closed(ix) /\ a \notin DOMAIN Changed(acc, ix)
    BY <1>1
  <2> QED BY <2>1, <1>a
<1>2. Keeps(acc, next)
  BY <1>1 DEF Keeps, Watched
<1> QED BY <1>2, KeepsIsSafe DEF next

\* The queues are kept too,
LEMMA QuietKeeps ==
  ASSUME NEW ix,
         \A a \in Made(ix) \cup Closed(ix) : a[1] \notin Tracked,
         \A acc : \A a \in DOMAIN Changed(acc, ix) : a[1] \notin Tracked
  PROVE  KeepsChain(ix)
<1>1. KeepsPrograms(ix)
  BY QuietKeepsPrograms DEF Tracked
<1>2. KeepsQueues(ix)
  BY LeavesQueues DEF Tracked, Watched
<1> QED BY <1>1, <1>2 DEF KeepsChain

\* and the claims if none is made or changed.
LEMMA QuietIsSafe ==
  ASSUME NEW ix,
         \A a \in Made(ix) \cup Closed(ix) : a[1] \notin Tracked,
         \A acc : \A a \in DOMAIN Changed(acc, ix) : a[1] \notin Tracked /\ ~ IsClaim(a),
         \A a \in Made(ix) : ~ IsClaim(a)
  PROVE  Safe(ix)
<1>1. KeepsChain(ix)
  BY QuietKeeps
<1>2. LeavesClaims(ix)
  BY NoClaim
<1> QED BY <1>1, <1>2 DEF Safe, KeepsChain, Apart

\* Those that write nothing the model keeps.
LEMMA NoEffect ==
  ASSUME NEW ix,
         ix.ix \in {"update_current_epoch_idempotent", "set_arx_node_config", "set_arx_node_metadata",
                    "increase_mempool_size", "set_cluster_authority", "bump_epoch_cluster",
                    "propose_fee", "vote_fee", "submit_aggregated_bls_pubkey", "claim_node_fees",
                    "set_cluster", "upload_circuit", "embiggen_raw_circuit_acc", "callback",
                    "set_mxe_keys", "set_mxe_recovery_keys_init", "extend_recovery_keyshares",
                    "finalize_key_recovery_shares_upload", "submit_key_recovery_share",
                    "initialize_mint", "mint_to", "activate_primary_stake",
                    "deactivate_primary_stake", "finalize_epoch_rewards"}
  PROVE  Safe(ix)
<1>1. MadeRoles(ix.ix) = {} /\ ClosedRoles(ix.ix) = {}
  BY DEF MadeRoles, CreatedRoles, OptionalRoles, ClosedRoles
<1>2. QueuedRole(ix.ix) = None
  BY DEF QueuedRole, None
<1>3. ASSUME NEW acc PROVE Changed(acc, ix) = <<>> ++ <<>>
  BY <1>2 DEF Changed
<1>4. DOMAIN (<<>> ++ <<>>) = {}
  BY DEF ++
<1> QED BY <1>1, <1>3, <1>4, QuietIsSafe DEF Made, Closed

\* Those that write other accounts.
LEMMA QuietInstructions ==
  ASSUME NEW s, NEW p, NEW q, NEW d, NEW c, NEW n, NEW o, NEW k
  PROVE  /\ Safe(init_network_program_ix(s))
         /\ Safe(init_node_operator_acc_ix(s))
         /\ Safe(init_recovery_peer_acc_ix(s, n))
         /\ Safe(init_computation_definition_ix(s, d, p, k))
         /\ Safe(init_raw_circuit_acc_ix(s, d, p, k))
         /\ Safe(finalize_computation_definition_ix(s, d, p))
         /\ KeepsChain(claim_failure_init_ix(s, p, c, d, o, n, k))
         /\ KeepsChain(claim_failure_append_ix(s, p, o, k, n))
         /\ Safe(reclaim_failure_rent_idempotent_ix(s, n, p, o))
         /\ Safe(init_key_recovery_execution_part1_ix(s, n, p, q))
         /\ Safe(init_key_recovery_execution_part2_ix(s, p, q))
         /\ Safe(close_key_recovery_ix(s, p, q))
<1>7. KeepsChain(claim_failure_init_ix(s, p, c, d, o, n, k))
  <2> DEFINE ix == claim_failure_init_ix(s, p, c, d, o, n, k)
  <2>1. ix.ix = "claim_failure_init" /\ ix.accs.failure_acc[1] = "FailureClaimAccountHeader"
    BY DEF claim_failure_init_ix, Ix, failure_claim_acc
  <2> HIDE DEF ix
  <2>2. Made(ix) = {ix.accs.failure_acc} /\ Closed(ix) = {}
    BY <2>1 DEF Made, Closed, MadeRoles, CreatedRoles, OptionalRoles, ClosedRoles
  <2>3. ASSUME NEW acc PROVE DOMAIN Changed(acc, ix) = {}
    BY <2>1 DEF Changed, QueuedRole, None, ++
  <2>4. KeepsChain(ix)
    BY <2>1, <2>2, <2>3, QuietKeeps DEF Tracked, Watched
  <2> QED BY <2>4 DEF ix
<1>8. KeepsChain(claim_failure_append_ix(s, p, o, k, n))
  <2> DEFINE ix == claim_failure_append_ix(s, p, o, k, n)
  <2>1. ix.ix = "claim_failure_append" /\ ix.accs.failure_acc[1] = "FailureClaimAccountHeader"
    BY DEF claim_failure_append_ix, Ix, failure_claim_acc
  <2> HIDE DEF ix
  <2>2. Made(ix) = {} /\ Closed(ix) = {}
    BY <2>1 DEF Made, Closed, MadeRoles, CreatedRoles, OptionalRoles, ClosedRoles
  <2>3. ASSUME NEW acc PROVE DOMAIN Changed(acc, ix) = {ix.accs.failure_acc}
    <3>1. \E v : Changed(acc, ix) = <<>> ++ Entry(ix.accs.failure_acc, v)
      BY <2>1 DEF Changed, QueuedRole, None
    <3> QED BY <3>1 DEF ++, Entry
  <2>4. KeepsChain(ix)
    BY <2>1, <2>2, <2>3, QuietKeeps DEF Tracked, Watched
  <2> QED BY <2>4 DEF ix
<1>10. Safe(init_key_recovery_execution_part1_ix(s, n, p, q))
  <2> DEFINE ix == init_key_recovery_execution_part1_ix(s, n, p, q)
  <2>1. ix.ix = "init_key_recovery_execution_part1"
    BY DEF init_key_recovery_execution_part1_ix, Ix
  <2>2. ix.accs.mxe_recovery_account[1] = "MxeRecoveryAccount"
    BY DEF init_key_recovery_execution_part1_ix, Ix, Recovery, mxe_recovery_acc, ++
  <2> HIDE DEF ix
  <2>3. Made(ix) = {ix.accs.mxe_recovery_account} /\ Closed(ix) = {}
    BY <2>1 DEF Made, Closed, MadeRoles, CreatedRoles, OptionalRoles, ClosedRoles
  <2>4. ASSUME NEW acc PROVE DOMAIN Changed(acc, ix) = {}
    BY <2>1 DEF Changed, QueuedRole, None, ++
  <2>5. Safe(ix)
    BY <2>2, <2>3, <2>4, QuietIsSafe DEF Tracked, Watched, IsClaim
  <2> QED BY <2>5 DEF ix
<1> USE QuietIsSafe DEF Made, Closed, MadeRoles, CreatedRoles, OptionalRoles, ClosedRoles, Changed,
                        QueuedRole, None, ++, Entry, Tracked, Watched, IsClaim, Ix
<1>1. Safe(init_network_program_ix(s))
  BY DEF init_network_program_ix, fee_pool_acc, clock_acc
<1>2. Safe(init_node_operator_acc_ix(s))
  BY DEF init_node_operator_acc_ix, operator_acc
<1>3. Safe(init_recovery_peer_acc_ix(s, n))
  BY DEF init_recovery_peer_acc_ix, recovery_peer_acc
<1>4. Safe(init_computation_definition_ix(s, d, p, k))
  BY DEF init_computation_definition_ix, computation_definition_acc
<1>5. Safe(init_raw_circuit_acc_ix(s, d, p, k))
  BY DEF init_raw_circuit_acc_ix, CircuitChunk, raw_circuit_acc
<1>6. Safe(finalize_computation_definition_ix(s, d, p))
  BY DEF finalize_computation_definition_ix, CircuitChunk, computation_definition_acc
<1>9. Safe(reclaim_failure_rent_idempotent_ix(s, n, p, o))
  BY DEF reclaim_failure_rent_idempotent_ix, failure_claim_acc
<1>11. Safe(init_key_recovery_execution_part2_ix(s, p, q))
  BY DEF init_key_recovery_execution_part2_ix, Recovery, RecoveryCluster, RecoveryDef,
         computation_definition_acc
<1>12. Safe(close_key_recovery_ix(s, p, q))
  BY DEF close_key_recovery_ix, Recovery, RecoveryDef, mxe_recovery_acc, computation_definition_acc
<1> QED BY <1>1, <1>2, <1>3, <1>4, <1>5, <1>6, <1>7, <1>8, <1>9, <1>10, <1>11, <1>12

\* A stake is split into itself and a new one.
LEMMA SplitIsQuiet ==
  ASSUME NEW s, NEW w, NEW v, NEW k, NEW j
  PROVE  Safe(split_delegated_stake_account_ix(s, w, v, k, j))
<1> DEFINE ix == split_delegated_stake_account_ix(s, w, v, k, j)
<1>1. ix.ix = "split_delegated_stake_account"
  BY DEF split_delegated_stake_account_ix, Ix
<1>2. ix.accs.new_stake_account[1] = "DelegatedStakingAccount"
  BY DEF split_delegated_stake_account_ix, Ix, StakeAuthorities, delegated_stake_acc, ++
<1> HIDE DEF ix
<1>3. Made(ix) = {ix.accs.new_stake_account} /\ Closed(ix) = {}
  BY <1>1 DEF Made, Closed, MadeRoles, CreatedRoles, OptionalRoles, ClosedRoles
<1>4. ASSUME NEW acc PROVE DOMAIN Changed(acc, ix) = {}
  BY <1>1 DEF Changed, QueuedRole, None, ++
<1>5. Safe(ix)
  BY <1>2, <1>3, <1>4, QuietIsSafe DEF Tracked, Watched, IsClaim
<1> QED BY <1>5 DEF ix

\* The instructions about stakes.
LEMMA QuietStaking ==
  ASSUME NEW s, NEW w, NEW v, NEW k, NEW j
  PROVE  /\ Safe(init_arcium_token_mint_ixs(s)[1])
         /\ Safe(airdrop_arcium_token_ixs(s, w)[1])
         /\ Safe(init_primary_stake_acc_ix(s))
         /\ Safe(init_delegated_stake_master_acc_ix(s, w))
         /\ Safe(init_delegated_stake_acc_ix(s, k))
         /\ Safe(delegate_stake_ix(s, k, w))
         /\ Safe(undelegate_stake_ix(s, k, w))
         /\ Safe(split_delegated_stake_account_ix(s, w, v, k, j))
         /\ Safe(merge_delegated_stake_account_ix(s, w, v, k, j))
         /\ Safe(close_delegated_stake_ix(s, w, k))
<1> USE QuietIsSafe DEF Made, Closed, MadeRoles, CreatedRoles, OptionalRoles, ClosedRoles, Changed,
                        QueuedRole, None, ++, Entry, Tracked, Watched, IsClaim, Ix
<1>1. Safe(init_arcium_token_mint_ixs(s)[1])
  BY DEF init_arcium_token_mint_ixs, arcium_mint_keypair
<1>2. Safe(airdrop_arcium_token_ixs(s, w)[1])
  BY DEF airdrop_arcium_token_ixs, get_associated_token_address
<1>3. Safe(init_primary_stake_acc_ix(s))
  BY DEF init_primary_stake_acc_ix, primary_stake_acc, stake_queue_acc
<1>4. Safe(init_delegated_stake_master_acc_ix(s, w))
  BY DEF init_delegated_stake_master_acc_ix, stake_master_acc
<1>5. Safe(init_delegated_stake_acc_ix(s, k))
  <2>1. /\ init_delegated_stake_acc_ix(s, k).ix = "init_delegated_stake_acc"
        /\ init_delegated_stake_acc_ix(s, k).accs.user_stake_account[1] = "DelegatedStakingAccount"
    BY DEF init_delegated_stake_acc_ix, delegated_stake_acc
  <2> QED BY <2>1
<1>6. Safe(delegate_stake_ix(s, k, w))
  BY DEF delegate_stake_ix, delegated_stake_acc
<1>7. Safe(undelegate_stake_ix(s, k, w))
  BY DEF undelegate_stake_ix, delegated_stake_acc
<1>8. Safe(split_delegated_stake_account_ix(s, w, v, k, j))
  BY SplitIsQuiet
<1>9. Safe(merge_delegated_stake_account_ix(s, w, v, k, j))
  BY DEF merge_delegated_stake_account_ix, StakeAuthorities, delegated_stake_acc
<1>10. Safe(close_delegated_stake_ix(s, w, k))
  BY DEF close_delegated_stake_ix, delegated_stake_acc
<1> QED BY <1>1, <1>2, <1>3, <1>4, <1>5, <1>6, <1>7, <1>8, <1>9, <1>10

-----------------------------------------------------------------------------
(* Instructions about nodes and clusters. *)

\* They leave programs and computations alone.
LEMMA NodesOnly ==
  ASSUME NEW acc, NEW next, ChainInv(acc),
         \A a \in DOMAIN acc \cup DOMAIN next :
           a[1] \in {"MXEAccount", "RecoveryClusterAccount", "ComputationAccount"} =>
             a \in DOMAIN acc /\ a \in DOMAIN next /\ next[a] = acc[a],
         FieldsKept(next), MembersKept(next), NodesStay(acc, next)
  PROVE  Fact(acc, next)
<1>1. ASSUME NEW p
      PROVE  /\ mxe_acc(p) \in DOMAIN acc <=> mxe_acc(p) \in DOMAIN next
             /\ recovery_cluster_acc(p) \in DOMAIN acc <=> recovery_cluster_acc(p) \in DOMAIN next
             /\ mxe_acc(p) \in DOMAIN acc => next[mxe_acc(p)] = acc[mxe_acc(p)]
  BY AddressKinds
<1>2. ASSUME NEW c, NEW o, computation_acc(c, o) \in DOMAIN acc
      PROVE  /\ computation_acc(c, o) \in DOMAIN next
             /\ next[computation_acc(c, o)] = acc[computation_acc(c, o)]
  BY <1>2, AddressKinds
<1>3. \A p \in Programs : Whole(next, p)
  BY <1>1, <1>2 DEF ChainInv, Whole
<1> QED BY <1>1, <1>3 DEF Fact, ChainInv, Later

\* A new node is a member of no cluster.
LEMMA NodeIsMade == ASSUME NEW s, NEW w, NEW n PROVE Safe(init_arx_node_acc_ix(s, w, n))
<1> DEFINE ix == init_arx_node_acc_ix(s, w, n)
<1>q. Apart(ix)
  BY NodesStayApart
<1> SUFFICES ASSUME NEW acc, ChainInv(acc), Refusal(acc, ix) = "none" PROVE Fact(acc, Executed(acc, ix))
  BY <1>q DEF Safe, KeepsPrograms
<1> DEFINE next == Executed(acc, ix)
<1>e. /\ DOMAIN next = (DOMAIN acc \cup Made(ix)) \ Closed(ix)
      /\ \A a \in DOMAIN next \cap DOMAIN Changed(acc, ix) : next[a] = Changed(acc, ix)[a]
      /\ \A a \in DOMAIN next \ DOMAIN Changed(acc, ix) : a \in DOMAIN acc => next[a] = acc[a]
      /\ \A a \in DOMAIN next \ DOMAIN Changed(acc, ix) :
           a \notin DOMAIN acc =>
             \E role \in MadeRoles(ix.ix) : a = ix.accs[role] /\ next[a] = NewContent(acc, ix, role)
  BY Effects
<1>1. MadeRoles(ix.ix) = {"arx_node_acc"} /\ ix.accs.arx_node_acc = arx_acc(n) /\ Closed(ix) = {}
  BY DEF init_arx_node_acc_ix, Ix, MadeRoles, CreatedRoles, OptionalRoles, ClosedRoles, Closed
<1>2. DOMAIN Changed(acc, ix) = {}
  BY DEF init_arx_node_acc_ix, Ix, Changed, QueuedRole, None, ++
<1>3. arx_acc(n) \notin DOMAIN acc
  BY DEF init_arx_node_acc_ix, Ix, Refusal, AccountsMatch, CreatedRoles, OptionalRoles
<1>4. NewContent(acc, ix, "arx_node_acc") = [is_active |-> FALSE, cluster_membership |-> Inactive]
  BY DEF NewContent
<1>5. /\ DOMAIN next = DOMAIN acc \cup {arx_acc(n)}
      /\ \A a \in DOMAIN acc : next[a] = acc[a]
      /\ next[arx_acc(n)] = [is_active |-> FALSE, cluster_membership |-> Inactive]
  <2> HIDE DEF next, ix
  <2>1. Made(ix) = {arx_acc(n)}
    BY <1>1 DEF Made
  <2> QED BY <2>1, <1>1, <1>2, <1>3, <1>4, <1>e
<1> HIDE DEF next, ix
<1>6. FieldsKept(next)
  BY <1>5, AddressKinds DEF ChainInv, FieldsKept
<1>7. MembersKept(next) /\ NodesStay(acc, next)
  <2>1. \A c : cluster_acc(c) \in DOMAIN next <=> cluster_acc(c) \in DOMAIN acc
    BY <1>5, AddressKinds
  <2> QED BY <2>1, <1>5 DEF ChainInv, MembersKept, NodesStay
<1> QED BY <1>5, <1>6, <1>7, NodesOnly, AddressKinds DEF next

\* A new cluster lists no node.
LEMMA ClusterIsMade == ASSUME NEW s, NEW w, NEW c PROVE Safe(init_cluster_ix(s, w, c))
<1> DEFINE ix == init_cluster_ix(s, w, c)
<1>q. Apart(ix)
  <2>1. /\ ix.ix = "init_cluster" /\ ix.accs.cluster_acc = cluster_acc(c)
        /\ ix.accs.mempool = mempool_acc(c) /\ ix.accs.execpool = execpool_acc(c)
    BY DEF init_cluster_ix, Ix
  <2>2. KeepsQueues(ix)
    BY NewClusterKeepsQueues
  <2> HIDE DEF ix
  <2>3. LeavesClaims(ix)
    BY <2>1, OthersLeaveClaims
  <2> QED BY <2>2, <2>3 DEF Apart
<1> SUFFICES ASSUME NEW acc, ChainInv(acc), Refusal(acc, ix) = "none" PROVE Fact(acc, Executed(acc, ix))
  BY <1>q DEF Safe, KeepsPrograms
<1> DEFINE next == Executed(acc, ix)
<1>e. /\ DOMAIN next = (DOMAIN acc \cup Made(ix)) \ Closed(ix)
      /\ \A a \in DOMAIN next \cap DOMAIN Changed(acc, ix) : next[a] = Changed(acc, ix)[a]
      /\ \A a \in DOMAIN next \ DOMAIN Changed(acc, ix) : a \in DOMAIN acc => next[a] = acc[a]
      /\ \A a \in DOMAIN next \ DOMAIN Changed(acc, ix) :
           a \notin DOMAIN acc =>
             \E role \in MadeRoles(ix.ix) : a = ix.accs[role] /\ next[a] = NewContent(acc, ix, role)
  BY Effects
<1>1. /\ MadeRoles(ix.ix) = {"cluster_acc", "mempool", "execpool"} /\ Closed(ix) = {}
      /\ ix.accs.cluster_acc = cluster_acc(c)
      /\ ix.accs.mempool = mempool_acc(c) /\ ix.accs.execpool = execpool_acc(c)
  BY DEF init_cluster_ix, Ix, MadeRoles, CreatedRoles, OptionalRoles, ClosedRoles, Closed
<1>2. DOMAIN Changed(acc, ix) = {}
  BY DEF init_cluster_ix, Ix, Changed, QueuedRole, None, ++
<1>3. cluster_acc(c) \notin DOMAIN acc
  BY DEF init_cluster_ix, Ix, Refusal, AccountsMatch, CreatedRoles, OptionalRoles
<1>4. NewContent(acc, ix, "cluster_acc") = [nodes |-> {}, pending_nodes |-> {}, active |-> FALSE]
  BY DEF NewContent
<1>k. mempool_acc(c)[1] = "Mempool" /\ execpool_acc(c)[1] = "Execpool"
  BY DEF mempool_acc, execpool_acc
<1>5. /\ DOMAIN next = DOMAIN acc \cup {cluster_acc(c), mempool_acc(c), execpool_acc(c)}
      /\ \A a \in DOMAIN acc : next[a] = acc[a]
      /\ next[cluster_acc(c)] = [nodes |-> {}, pending_nodes |-> {}, active |-> FALSE]
  <2> HIDE DEF next, ix
  <2>1. Made(ix) = {cluster_acc(c), mempool_acc(c), execpool_acc(c)}
    BY <1>1 DEF Made
  <2>2. cluster_acc(c) # mempool_acc(c) /\ cluster_acc(c) # execpool_acc(c)
    BY <1>k, AddressKinds
  <2> QED BY <2>1, <2>2, <1>1, <1>2, <1>3, <1>4, <1>e
<1> HIDE DEF next, ix
<1>6. FieldsKept(next)
  BY <1>5, <1>k, AddressKinds DEF ChainInv, FieldsKept
<1>7. MembersKept(next) /\ NodesStay(acc, next)
  <2>1. \A d : d # c => (cluster_acc(d) \in DOMAIN next <=> cluster_acc(d) \in DOMAIN acc)
    BY <1>5, <1>k, AddressKinds
  <2> QED BY <2>1, <1>3, <1>5 DEF ChainInv, MembersKept, NodesStay
<1>8. ASSUME NEW a \in DOMAIN acc \cup DOMAIN next,
             a[1] \in {"MXEAccount", "RecoveryClusterAccount", "ComputationAccount"}
      PROVE  a \in DOMAIN acc /\ a \in DOMAIN next /\ next[a] = acc[a]
  BY <1>5, <1>8, <1>k, AddressKinds
<1> QED BY <1>6, <1>7, <1>8, NodesOnly DEF next

\* Nodes and clusters that are there change.
LEMMA NodeOrClusterChanges ==
  ASSUME NEW acc, NEW ix, ChainInv(acc), NEW n, NEW c,
         MadeRoles(ix.ix) = {}, Closed(ix) = {},
         DOMAIN Changed(acc, ix) \subseteq {arx_acc(n), cluster_acc(c)}
  PROVE  LET next == Executed(acc, ix)
         IN  /\ DOMAIN next = DOMAIN acc
             /\ \A a \in DOMAIN acc :
                  next[a] = IF a \in DOMAIN Changed(acc, ix) THEN Changed(acc, ix)[a] ELSE acc[a]
             /\ FieldsKept(next) /\ MembersKept(next) /\ NodesStay(acc, next) => Fact(acc, next)
<1> DEFINE next == Executed(acc, ix)
<1>e. /\ DOMAIN next = (DOMAIN acc \cup Made(ix)) \ Closed(ix)
      /\ \A a \in DOMAIN next \cap DOMAIN Changed(acc, ix) : next[a] = Changed(acc, ix)[a]
      /\ \A a \in DOMAIN next \ DOMAIN Changed(acc, ix) : a \in DOMAIN acc => next[a] = acc[a]
      /\ \A a \in DOMAIN next \ DOMAIN Changed(acc, ix) :
           a \notin DOMAIN acc =>
             \E role \in MadeRoles(ix.ix) : a = ix.accs[role] /\ next[a] = NewContent(acc, ix, role)
  BY Effects
<1>1. Made(ix) = {}
  BY DEF Made
<1>2. /\ DOMAIN next = DOMAIN acc
      /\ \A a \in DOMAIN acc :
           next[a] = IF a \in DOMAIN Changed(acc, ix) THEN Changed(acc, ix)[a] ELSE acc[a]
  <2> HIDE DEF next
  <2> QED BY <1>1, <1>e
<1> HIDE DEF next
<1>3. ASSUME NEW a \in DOMAIN acc \cup DOMAIN next,
             a[1] \in {"MXEAccount", "RecoveryClusterAccount", "ComputationAccount"}
      PROVE  a \in DOMAIN acc /\ a \in DOMAIN next /\ next[a] = acc[a]
  BY <1>2, <1>3, AddressKinds
<1> QED BY <1>2, <1>3, NodesOnly DEF next

\* A node that is activated keeps its membership.
LEMMA NodeIsActivated == ASSUME NEW s, NEW n PROVE Safe(activate_arx_ix(s, n))
<1> DEFINE ix == activate_arx_ix(s, n)
<1>q. Apart(ix)
  BY NodesStayApart
<1> SUFFICES ASSUME NEW acc, ChainInv(acc), Refusal(acc, ix) = "none" PROVE Fact(acc, Executed(acc, ix))
  BY <1>q DEF Safe, KeepsPrograms
<1> DEFINE next == Executed(acc, ix)
           a0 == arx_acc(n)
<1>1. MadeRoles(ix.ix) = {} /\ Closed(ix) = {}
  BY DEF activate_arx_ix, Ix, MadeRoles, CreatedRoles, OptionalRoles, ClosedRoles, Closed
<1>2. Changed(acc, ix) = <<>> ++ Entry(a0, [acc[a0] EXCEPT !.is_active = TRUE])
  BY DEF activate_arx_ix, Ix, Changed, QueuedRole, None
<1>3. DOMAIN Changed(acc, ix) = {a0} /\ Changed(acc, ix)[a0] = [acc[a0] EXCEPT !.is_active = TRUE]
  BY <1>2 DEF ++, Entry
<1> HIDE DEF ix
<1>4. /\ DOMAIN next = DOMAIN acc
      /\ \A a \in DOMAIN acc :
           next[a] = IF a \in DOMAIN Changed(acc, ix) THEN Changed(acc, ix)[a] ELSE acc[a]
      /\ FieldsKept(next) /\ MembersKept(next) /\ NodesStay(acc, next) => Fact(acc, next)
  BY <1>1, <1>3, NodeOrClusterChanges
<1> HIDE DEF next
<1>5. /\ \A a \in DOMAIN acc : DOMAIN next[a] = DOMAIN acc[a]
      /\ \A a \in DOMAIN acc \ {a0} : next[a] = acc[a]
      /\ a0 \in DOMAIN acc => next[a0].cluster_membership = acc[a0].cluster_membership
  <2>1. a0 \in DOMAIN acc => DOMAIN acc[a0] = {"is_active", "cluster_membership"}
    BY AddressKinds DEF ChainInv, FieldsKept
  <2> QED BY <2>1, <1>3, <1>4
<1>6. FieldsKept(next)
  BY <1>4, <1>5 DEF ChainInv, FieldsKept
<1>7. MembersKept(next) /\ NodesStay(acc, next)
  <2>1. \A c : cluster_acc(c) # a0
    BY AddressKinds
  <2>2. \A m : arx_acc(m) \in DOMAIN acc => next[arx_acc(m)].cluster_membership = acc[arx_acc(m)].cluster_membership
    BY <1>5
  <2> HIDE DEF a0
  <2> QED BY <2>1, <2>2, <1>4, <1>5 DEF ChainInv, MembersKept, NodesStay
<1> QED BY <1>4, <1>6, <1>7 DEF next

\* A node that is deactivated does as well.
LEMMA NodeIsDeactivated == ASSUME NEW s, NEW n, NEW d PROVE Safe(deactivate_arx_ix(s, n, d))
<1> DEFINE ix == deactivate_arx_ix(s, n, d)
<1>q. Apart(ix)
  BY NodesStayApart
<1> SUFFICES ASSUME NEW acc, ChainInv(acc), Refusal(acc, ix) = "none" PROVE Fact(acc, Executed(acc, ix))
  BY <1>q DEF Safe, KeepsPrograms
<1> DEFINE next == Executed(acc, ix)
           a0 == arx_acc(n)
           v == [is_active |-> FALSE, cluster_membership |-> Inactive]
<1>1. MadeRoles(ix.ix) = {} /\ Closed(ix) = {}
  BY DEF deactivate_arx_ix, Ix, MadeRoles, CreatedRoles, OptionalRoles, ClosedRoles, Closed
<1>2. Changed(acc, ix) = <<>> ++ Entry(a0, v)
  BY DEF deactivate_arx_ix, Ix, Changed, QueuedRole, None
<1>3. DOMAIN Changed(acc, ix) = {a0} /\ Changed(acc, ix)[a0] = v
  BY <1>2 DEF ++, Entry
<1> HIDE DEF ix
<1>4. /\ DOMAIN next = DOMAIN acc
      /\ \A a \in DOMAIN acc :
           next[a] = IF a \in DOMAIN Changed(acc, ix) THEN Changed(acc, ix)[a] ELSE acc[a]
      /\ FieldsKept(next) /\ MembersKept(next) /\ NodesStay(acc, next) => Fact(acc, next)
  BY <1>1, <1>3, NodeOrClusterChanges
<1> HIDE DEF next
<1>5. /\ \A a \in DOMAIN acc : DOMAIN next[a] = DOMAIN acc[a]
      /\ \A a \in DOMAIN acc \ {a0} : next[a] = acc[a]
      /\ a0 \in DOMAIN acc => next[a0].cluster_membership = Inactive
  <2>1. a0 \in DOMAIN acc => DOMAIN acc[a0] = {"is_active", "cluster_membership"}
    BY AddressKinds DEF ChainInv, FieldsKept
  <2> QED BY <2>1, <1>3, <1>4
<1>6. FieldsKept(next)
  BY <1>4, <1>5 DEF ChainInv, FieldsKept
<1>7. MembersKept(next) /\ NodesStay(acc, next)
  <2>1. \A c : cluster_acc(c) # a0
    BY AddressKinds
  <2>2. \A m : arx_acc(m) \in DOMAIN acc =>
               \/ next[arx_acc(m)] = acc[arx_acc(m)]
               \/ next[arx_acc(m)].cluster_membership = Inactive
    BY <1>5
  <2>3. \A c : Inactive # Proposed(c) /\ Inactive # Active(c)
    BY DEF Inactive, Proposed, Active
  <2> HIDE DEF a0
  <2> QED BY <2>1, <2>2, <2>3, <1>4, <1>5 DEF ChainInv, MembersKept, NodesStay
<1> QED BY <1>4, <1>6, <1>7 DEF next

\* Only the activity of a cluster changes.
LEMMA ClusterActivity ==
  ASSUME NEW s, NEW c
  PROVE  Safe(activate_cluster_ix(s, c)) /\ Safe(deactivate_cluster_ix(s, c))
<1>1. ASSUME NEW ix, ix.ix \in {"activate_cluster", "deactivate_cluster"},
             ix.accs.cluster_acc = cluster_acc(c)
      PROVE  KeepsPrograms(ix)
  <2> SUFFICES ASSUME NEW acc, ChainInv(acc), Refusal(acc, ix) = "none"
               PROVE  Fact(acc, Executed(acc, ix))
    BY DEF KeepsPrograms
  <2> DEFINE next == Executed(acc, ix)
             a0 == cluster_acc(c)
             v == [acc[a0] EXCEPT !.active = (ix.ix = "activate_cluster")]
  <2>1. MadeRoles(ix.ix) = {} /\ Closed(ix) = {}
    BY <1>1 DEF MadeRoles, CreatedRoles, OptionalRoles, ClosedRoles, Closed
  <2>2. Changed(acc, ix) = <<>> ++ Entry(a0, v)
    BY <1>1 DEF Changed, QueuedRole, None
  <2>3. DOMAIN Changed(acc, ix) = {a0} /\ Changed(acc, ix)[a0] = v
    BY <2>2 DEF ++, Entry
  <2>4. /\ DOMAIN next = DOMAIN acc
        /\ \A a \in DOMAIN acc :
             next[a] = IF a \in DOMAIN Changed(acc, ix) THEN Changed(acc, ix)[a] ELSE acc[a]
        /\ FieldsKept(next) /\ MembersKept(next) /\ NodesStay(acc, next) => Fact(acc, next)
    BY <2>1, <2>3, NodeOrClusterChanges
  <2> HIDE DEF next
  <2>5. /\ \A a \in DOMAIN acc : DOMAIN next[a] = DOMAIN acc[a]
        /\ \A a \in DOMAIN acc \ {a0} : next[a] = acc[a]
        /\ a0 \in DOMAIN acc => next[a0].nodes = acc[a0].nodes
    <3>1. a0 \in DOMAIN acc => DOMAIN acc[a0] = {"nodes", "pending_nodes", "active"}
      BY AddressKinds DEF ChainInv, FieldsKept
    <3> QED BY <3>1, <2>3, <2>4
  <2>6. FieldsKept(next)
    BY <2>4, <2>5 DEF ChainInv, FieldsKept
  <2>7. MembersKept(next) /\ NodesStay(acc, next)
    <3>1. \A m : arx_acc(m) # a0
      BY AddressKinds
    <3>2. \A d : cluster_acc(d) \in DOMAIN acc => next[cluster_acc(d)].nodes = acc[cluster_acc(d)].nodes
      BY <2>5
    <3> HIDE DEF a0
    <3> QED BY <3>1, <3>2, <2>4, <2>5 DEF ChainInv, MembersKept, NodesStay
  <2> QED BY <2>4, <2>6, <2>7 DEF next
<1>2. /\ activate_cluster_ix(s, c).ix = "activate_cluster"
      /\ activate_cluster_ix(s, c).accs.cluster_acc = cluster_acc(c)
      /\ deactivate_cluster_ix(s, c).ix = "deactivate_cluster"
      /\ deactivate_cluster_ix(s, c).accs.cluster_acc = cluster_acc(c)
  BY DEF activate_cluster_ix, deactivate_cluster_ix, Ix
<1>3. Apart(activate_cluster_ix(s, c)) /\ Apart(deactivate_cluster_ix(s, c))
  BY NodesStayApart
<1> QED BY <1>1, <1>2, <1>3 DEF Safe

\* A node is asked to join a cluster that does not list it.
LEMMA NodeIsProposed == ASSUME NEW s, NEW c, NEW n PROVE Safe(propose_join_cluster_ix(s, c, n))
<1> DEFINE ix == propose_join_cluster_ix(s, c, n)
<1>q. Apart(ix)
  BY NodesStayApart
<1> SUFFICES ASSUME NEW acc, ChainInv(acc), Refusal(acc, ix) = "none" PROVE Fact(acc, Executed(acc, ix))
  BY <1>q DEF Safe, KeepsPrograms
<1> DEFINE next == Executed(acc, ix)
           a0 == arx_acc(n)
           c0 == cluster_acc(c)
           v == [acc[a0] EXCEPT !.cluster_membership = Proposed(c)]
           w == [acc[c0] EXCEPT !.pending_nodes = acc[c0].pending_nodes \union {n}]
<1>1. MadeRoles(ix.ix) = {} /\ Closed(ix) = {}
  BY DEF propose_join_cluster_ix, Ix, MadeRoles, CreatedRoles, OptionalRoles, ClosedRoles, Closed
<1>2. Changed(acc, ix) = <<>> ++ (Entry(a0, v) ++ Entry(c0, w))
  BY DEF propose_join_cluster_ix, NodeInClusterArgs, Ix, Changed, QueuedRole, None
<1>a. acc[a0].cluster_membership = Inactive /\ n \notin acc[c0].nodes
  BY DEF propose_join_cluster_ix, NodeInClusterArgs, Ix, Refusal, Allowed, QueuedRole, None
<1>b. a0 # c0
  BY AddressKinds
<1>3. /\ DOMAIN Changed(acc, ix) = {a0, c0}
      /\ Changed(acc, ix)[a0] = v /\ Changed(acc, ix)[c0] = w
  <2> HIDE DEF ix, a0, c0, v, w
  <2> QED BY <1>2, <1>b DEF ++, Entry
<1> HIDE DEF ix
<1>4. /\ DOMAIN next = DOMAIN acc
      /\ \A a \in DOMAIN acc :
           next[a] = IF a \in DOMAIN Changed(acc, ix) THEN Changed(acc, ix)[a] ELSE acc[a]
      /\ FieldsKept(next) /\ MembersKept(next) /\ NodesStay(acc, next) => Fact(acc, next)
  BY <1>1, <1>3, NodeOrClusterChanges
<1> HIDE DEF next
<1>5. /\ \A a \in DOMAIN acc : DOMAIN next[a] = DOMAIN acc[a]
      /\ \A a \in DOMAIN acc \ {a0, c0} : next[a] = acc[a]
      /\ a0 \in DOMAIN acc => next[a0].cluster_membership = Proposed(c)
      /\ c0 \in DOMAIN acc => next[c0].nodes = acc[c0].nodes
  <2>1. /\ a0 \in DOMAIN acc => DOMAIN acc[a0] = {"is_active", "cluster_membership"}
        /\ c0 \in DOMAIN acc => DOMAIN acc[c0] = {"nodes", "pending_nodes", "active"}
    BY AddressKinds DEF ChainInv, FieldsKept
  <2> HIDE DEF a0, c0
  <2> QED BY <2>1, <1>3, <1>4, <1>b
<1>6. FieldsKept(next)
  BY <1>4, <1>5 DEF ChainInv, FieldsKept
<1>7. /\ \A m : arx_acc(m) \in DOMAIN acc /\ m # n => next[arx_acc(m)] = acc[arx_acc(m)]
      /\ \A d : cluster_acc(d) \in DOMAIN acc => next[cluster_acc(d)].nodes = acc[cluster_acc(d)].nodes
  BY <1>5, AddressKinds
<1>8. ASSUME NEW d \in Clusters, cluster_acc(d) \in DOMAIN next, NEW m \in next[cluster_acc(d)].nodes
      PROVE  /\ arx_acc(m) \in DOMAIN next
             /\ next[arx_acc(m)].cluster_membership # Proposed(d)
             /\ acc[arx_acc(m)].cluster_membership # Active(d)
                  => next[arx_acc(m)].cluster_membership # Active(d)
  <2>1. /\ m \in acc[cluster_acc(d)].nodes /\ arx_acc(m) \in DOMAIN acc
        /\ acc[arx_acc(m)].cluster_membership # Proposed(d)
    BY <1>4, <1>7, <1>8 DEF ChainInv, MembersKept
  <2>2. CASE m # n
    BY <2>1, <2>2, <1>4, <1>7
  <2>3. CASE m = n
    <3>1. d # c
      BY <2>1, <2>3, <1>a
    <3>2. Proposed(c) # Proposed(d) /\ Proposed(c) # Active(d)
      BY <3>1 DEF Proposed, Active
    <3> QED BY <2>1, <2>3, <3>2, <1>4, <1>5
  <2> QED BY <2>2, <2>3
<1>9. MembersKept(next) /\ NodesStay(acc, next)
  BY <1>4, <1>7, <1>8 DEF MembersKept, NodesStay
<1> QED BY <1>4, <1>6, <1>9 DEF next

\* A node that is asked joins the cluster, or does not.
LEMMA NodeJoins == ASSUME NEW s, NEW c, NEW n, NEW join PROVE Safe(join_cluster_ix(s, c, n, join))
<1> DEFINE ix == join_cluster_ix(s, c, n, join)
<1>q. Apart(ix)
  BY NodesStayApart
<1> SUFFICES ASSUME NEW acc, ChainInv(acc), Refusal(acc, ix) = "none" PROVE Fact(acc, Executed(acc, ix))
  BY <1>q DEF Safe, KeepsPrograms
<1> DEFINE next == Executed(acc, ix)
           a0 == arx_acc(n)
           c0 == cluster_acc(c)
           m0 == IF join THEN Active(c) ELSE Inactive
           v == [acc[a0] EXCEPT !.cluster_membership = m0]
           nodes == IF join THEN acc[c0].nodes \union {n} ELSE acc[c0].nodes
           w == [acc[c0] EXCEPT !.pending_nodes = acc[c0].pending_nodes \ {n}, !.nodes = nodes]
<1>1. MadeRoles(ix.ix) = {} /\ Closed(ix) = {}
  BY DEF join_cluster_ix, Ix, MadeRoles, CreatedRoles, OptionalRoles, ClosedRoles, Closed
<1>2. Changed(acc, ix) = <<>> ++ (Entry(a0, v) ++ Entry(c0, w))
  BY DEF join_cluster_ix, NodeInCluster, Ix, Changed, QueuedRole, None
<1>a. /\ acc[a0].cluster_membership = Proposed(c)
      /\ a0 \in DOMAIN acc
  <2>1. acc[a0].cluster_membership = Proposed(c)
    BY DEF join_cluster_ix, NodeInCluster, Ix, Refusal, Allowed, QueuedRole, None
  <2>2. SourcesExist(acc, ix)
    BY DEF Refusal
  <2>3. ix.accs.arx_node_acc = a0 /\ "arx_node_acc" \in DOMAIN ix.accs /\ CreatedRoles(ix.ix) = {}
    BY DEF join_cluster_ix, NodeInCluster, Ix, CreatedRoles
  <2> HIDE DEF ix
  <2> QED BY <2>1, <2>2, <2>3 DEF SourcesExist
<1>b. a0 # c0
  BY AddressKinds
<1>3. /\ DOMAIN Changed(acc, ix) = {a0, c0}
      /\ Changed(acc, ix)[a0] = v /\ Changed(acc, ix)[c0] = w
  <2> HIDE DEF ix, a0, c0, v, w
  <2> QED BY <1>2, <1>b DEF ++, Entry
<1> HIDE DEF ix
<1>4. /\ DOMAIN next = DOMAIN acc
      /\ \A a \in DOMAIN acc :
           next[a] = IF a \in DOMAIN Changed(acc, ix) THEN Changed(acc, ix)[a] ELSE acc[a]
      /\ FieldsKept(next) /\ MembersKept(next) /\ NodesStay(acc, next) => Fact(acc, next)
  BY <1>1, <1>3, NodeOrClusterChanges
<1> HIDE DEF next
<1>5. /\ \A a \in DOMAIN acc : DOMAIN next[a] = DOMAIN acc[a]
      /\ \A a \in DOMAIN acc \ {a0, c0} : next[a] = acc[a]
      /\ next[a0].cluster_membership = m0
      /\ c0 \in DOMAIN acc => next[c0].nodes = nodes
  <2>1. /\ a0 \in DOMAIN acc => DOMAIN acc[a0] = {"is_active", "cluster_membership"}
        /\ c0 \in DOMAIN acc => DOMAIN acc[c0] = {"nodes", "pending_nodes", "active"}
    BY AddressKinds DEF ChainInv, FieldsKept
  <2> HIDE DEF a0, c0, m0, nodes
  <2>2. /\ DOMAIN v = DOMAIN acc[a0]
        /\ a0 \in DOMAIN acc => v.cluster_membership = m0
    BY <2>1
  <2>3. DOMAIN w = DOMAIN acc[c0]
    OBVIOUS
  <2>4. c0 \in DOMAIN acc => w.nodes = nodes
    BY <2>1
  <2> HIDE DEF v, w
  <2>5. \A a \in DOMAIN acc \ {a0, c0} : next[a] = acc[a]
    BY <1>3, <1>4
  <2>6. next[a0] = v /\ (c0 \in DOMAIN acc => next[c0] = w)
    BY <1>3, <1>4, <1>a
  <2> QED BY <2>2, <2>3, <2>4, <2>5, <2>6, <1>a
<1>6. FieldsKept(next)
  BY <1>4, <1>5 DEF ChainInv, FieldsKept
<1>7. /\ \A m : arx_acc(m) \in DOMAIN acc /\ m # n => next[arx_acc(m)] = acc[arx_acc(m)]
      /\ \A d : cluster_acc(d) \in DOMAIN acc /\ d # c => next[cluster_acc(d)] = acc[cluster_acc(d)]
  BY <1>5, AddressKinds
<1>8. ASSUME NEW d \in Clusters, cluster_acc(d) \in DOMAIN acc, NEW m \in acc[cluster_acc(d)].nodes
      PROVE  /\ m \in next[cluster_acc(d)].nodes /\ arx_acc(m) \in DOMAIN next
             /\ next[arx_acc(m)].cluster_membership # Proposed(d)
             /\ acc[arx_acc(m)].cluster_membership # Active(d)
                  => next[arx_acc(m)].cluster_membership # Active(d)
  <2>1. /\ arx_acc(m) \in DOMAIN acc
        /\ acc[arx_acc(m)].cluster_membership # Proposed(d)
    BY <1>8 DEF ChainInv, MembersKept
  <2>2. m \in next[cluster_acc(d)].nodes
    BY <1>5, <1>7, <1>8
  <2>3. CASE m # n
    BY <2>1, <2>2, <2>3, <1>4, <1>7
  <2>4. CASE m = n
    <3>1. d # c
      BY <2>1, <2>4, <1>a
    <3>2. m0 # Proposed(d) /\ m0 # Active(d)
      BY <3>1 DEF Proposed, Active, Inactive
    <3> QED BY <2>1, <2>2, <2>4, <3>2, <1>4, <1>5
  <2> QED BY <2>3, <2>4
<1>9. ASSUME NEW d \in Clusters, cluster_acc(d) \in DOMAIN next, NEW m \in next[cluster_acc(d)].nodes
      PROVE  arx_acc(m) \in DOMAIN next /\ next[arx_acc(m)].cluster_membership # Proposed(d)
  <2>1. CASE m \in acc[cluster_acc(d)].nodes
    BY <2>1, <1>4, <1>8, <1>9
  <2>2. CASE m \notin acc[cluster_acc(d)].nodes
    <3>1. d = c /\ join /\ m = n
      BY <2>2, <1>4, <1>5, <1>7, <1>9
    <3>2. m0 = Active(c) /\ Active(c) # Proposed(c)
      BY <3>1 DEF Active, Proposed
    <3> QED BY <3>1, <3>2, <1>a, <1>4, <1>5
  <2> QED BY <2>1, <2>2
<1>10. MembersKept(next) /\ NodesStay(acc, next)
  BY <1>4, <1>8, <1>9 DEF MembersKept, NodesStay
<1> QED BY <1>4, <1>6, <1>10 DEF next

-----------------------------------------------------------------------------
(* Instructions about programs and computations. *)

\* A program keeps its cluster and the offsets it was made with.
SameProgram(old, new) ==
  /\ DOMAIN new = DOMAIN old
  /\ new.cluster = old.cluster /\ new.keygen_offset = old.keygen_offset
  /\ new.key_recovery_init_offset = old.key_recovery_init_offset

SameComputation(old, new) == DOMAIN new = DOMAIN old /\ new.mxe = old.mxe /\ new.def = old.def

\* Nothing others depend on is closed, only computations are made, and what changes stays
\* that of its program.
Mild(acc, ix) ==
  /\ \A a \in Closed(ix) : a[1] \notin Watched
  /\ \A role \in MadeRoles(ix.ix) :
       ix.accs[role][1] \in Watched =>
         /\ ix.accs[role][1] = "ComputationAccount"
         /\ ix.accs[role] \notin DOMAIN Changed(acc, ix)
         /\ DOMAIN NewContent(acc, ix, role) = {"mxe", "def", "stage"}
  /\ \A a \in DOMAIN Changed(acc, ix) :
       a \in DOMAIN acc =>
         /\ a[1] \notin {"ArxNode", "Cluster"}
         /\ a[1] = "MXEAccount" => SameProgram(acc[a], Changed(acc, ix)[a])
         /\ a[1] = "ComputationAccount" => SameComputation(acc[a], Changed(acc, ix)[a])

\* Such an instruction keeps programs whole.
LEMMA MildKeepsPrograms ==
  ASSUME NEW ix, \A acc : ChainInv(acc) /\ Refusal(acc, ix) = "none" => Mild(acc, ix)
  PROVE  KeepsPrograms(ix)
<1> SUFFICES ASSUME NEW acc, ChainInv(acc), Mild(acc, ix) PROVE Fact(acc, Executed(acc, ix))
  BY DEF KeepsPrograms
<1> DEFINE next == Executed(acc, ix)
<1>e. /\ DOMAIN next = (DOMAIN acc \cup Made(ix)) \ Closed(ix)
      /\ \A a \in DOMAIN next \cap DOMAIN Changed(acc, ix) : next[a] = Changed(acc, ix)[a]
      /\ \A a \in DOMAIN next \ DOMAIN Changed(acc, ix) : a \in DOMAIN acc => next[a] = acc[a]
      /\ \A a \in DOMAIN next \ DOMAIN Changed(acc, ix) :
           a \notin DOMAIN acc =>
             \E role \in MadeRoles(ix.ix) : a = ix.accs[role] /\ next[a] = NewContent(acc, ix, role)
  BY Effects
<1> HIDE DEF next
<1>1. ASSUME NEW a \in DOMAIN acc, a[1] \in Watched
      PROVE  a \in DOMAIN next
  BY <1>1, <1>e DEF Mild
<1>2. ASSUME NEW a \in DOMAIN next, a[1] \in Watched, a \notin DOMAIN acc
      PROVE  a[1] = "ComputationAccount" /\ DOMAIN next[a] = {"mxe", "def", "stage"}
  <2>1. PICK role \in MadeRoles(ix.ix) : a = ix.accs[role]
    BY <1>2, <1>e DEF Made
  <2>2. a[1] = "ComputationAccount" /\ a \notin DOMAIN Changed(acc, ix)
    BY <2>1, <1>2 DEF Mild
  <2>3. PICK r \in MadeRoles(ix.ix) : a = ix.accs[r] /\ next[a] = NewContent(acc, ix, r)
    BY <2>2, <1>2, <1>e
  <2> QED BY <2>2, <2>3, <1>2 DEF Mild
<1>3. ASSUME NEW a \in DOMAIN acc, a \in DOMAIN next
      PROVE  /\ a[1] \in {"ArxNode", "Cluster"} => next[a] = acc[a]
             /\ a[1] = "MXEAccount" => SameProgram(acc[a], next[a])
             /\ a[1] = "ComputationAccount" => SameComputation(acc[a], next[a])
  <2>1. CASE a \in DOMAIN Changed(acc, ix)
    BY <2>1, <1>3, <1>e DEF Mild
  <2>2. CASE a \notin DOMAIN Changed(acc, ix)
    BY <2>2, <1>3, <1>e DEF SameProgram, SameComputation
  <2> QED BY <2>1, <2>2
<1>4. ASSUME NEW a \in DOMAIN acc \cup DOMAIN next
      PROVE  /\ a[1] \in {"ArxNode", "Cluster"} => a \in DOMAIN acc /\ a \in DOMAIN next /\ next[a] = acc[a]
             /\ a[1] \in {"RecoveryClusterAccount", "MXEAccount"} => a \in DOMAIN acc /\ a \in DOMAIN next
             /\ a[1] = "MXEAccount" => SameProgram(acc[a], next[a])
             /\ a[1] = "ComputationAccount" =>
                  /\ a \in DOMAIN next
                  /\ a \in DOMAIN acc => SameComputation(acc[a], next[a])
                  /\ a \notin DOMAIN acc => DOMAIN next[a] = {"mxe", "def", "stage"}
  BY <1>1, <1>2, <1>3 DEF Watched
<1>5. Keeps(acc, next)
  BY <1>4 DEF Keeps, SameProgram, SameComputation
<1> QED BY <1>5, KeepsIsSafe DEF next

\* The keys of a program.
LEMMA ProgramSteps ==
  ASSUME NEW s, NEW p, NEW c
  PROVE  Safe(finalize_mxe_keys_ix(s, p, c)) /\ Safe(recover_mxe_ix(s, p))
<1>1. ASSUME NEW ix, ix.ix \in {"finalize_mxe_keys", "recover_mxe"}, ix.accs.mxe = mxe_acc(p)
      PROVE  KeepsPrograms(ix)
  <2> SUFFICES ASSUME NEW acc, ChainInv(acc) PROVE Mild(acc, ix)
    BY MildKeepsPrograms
  <2> DEFINE a0 == mxe_acc(p)
             v == IF ix.ix = "finalize_mxe_keys" THEN [acc[a0] EXCEPT !.keys_set = TRUE]
                                                 ELSE [acc[a0] EXCEPT !.status = "Recovery"]
  <2>1. MadeRoles(ix.ix) = {} /\ Closed(ix) = {}
    BY <1>1 DEF MadeRoles, CreatedRoles, OptionalRoles, ClosedRoles, Closed
  <2>2. Changed(acc, ix) = <<>> ++ Entry(a0, v)
    BY <1>1 DEF Changed, QueuedRole, None
  <2>3. DOMAIN Changed(acc, ix) = {a0} /\ Changed(acc, ix)[a0] = v
    BY <2>2 DEF ++, Entry
  <2>4. a0 \in DOMAIN acc => SameProgram(acc[a0], v)
    <3>1. a0 \in DOMAIN acc =>
            DOMAIN acc[a0] = {"cluster", "keygen_offset", "key_recovery_init_offset", "keys_set", "status"}
      BY AddressKinds DEF ChainInv, FieldsKept
    <3> QED BY <3>1 DEF SameProgram
  <2>5. a0[1] = "MXEAccount"
    BY AddressKinds
  <2> HIDE DEF a0, v
  <2> QED BY <2>1, <2>3, <2>4, <2>5 DEF Mild
<1>2. /\ finalize_mxe_keys_ix(s, p, c).ix = "finalize_mxe_keys"
      /\ finalize_mxe_keys_ix(s, p, c).accs.mxe = mxe_acc(p)
      /\ recover_mxe_ix(s, p).ix = "recover_mxe"
      /\ recover_mxe_ix(s, p).accs.mxe = mxe_acc(p)
  BY DEF finalize_mxe_keys_ix, recover_mxe_ix, Ix
<1>3. ASSUME NEW ix, ix.ix \in {"finalize_mxe_keys", "recover_mxe"}, ix.accs.mxe = mxe_acc(p)
      PROVE  Safe(ix)
  <2>1. Made(ix) = {} /\ Closed(ix) = {}
    BY <1>3 DEF Made, MadeRoles, CreatedRoles, OptionalRoles, ClosedRoles, Closed
  <2>2. ASSUME NEW acc PROVE DOMAIN Changed(acc, ix) = {mxe_acc(p)}
    <3>1. \E v : Changed(acc, ix) = <<>> ++ Entry(mxe_acc(p), v)
      BY <1>3 DEF Changed, QueuedRole, None
    <3> QED BY <3>1 DEF ++, Entry
  <2>3. mxe_acc(p)[1] = "MXEAccount"
    BY AddressKinds
  <2>4. Apart(ix)
    BY <2>1, <2>2, <2>3, StaysApart DEF IsClaim
  <2> QED BY <1>1, <1>3, <2>4 DEF Safe
<1> QED BY <1>2, <1>3

\* A computation that is there goes on to another stage.
LEMMA StageChanges ==
  ASSUME NEW acc, ChainInv(acc), NEW c, NEW o, NEW stage, computation_acc(c, o) \in DOMAIN acc
  PROVE  SameComputation(acc[computation_acc(c, o)], [acc[computation_acc(c, o)] EXCEPT !.stage = stage])
<1> DEFINE x == acc[computation_acc(c, o)]
<1>1. DOMAIN x = {"mxe", "def", "stage"}
  BY AddressKinds DEF ChainInv, FieldsKept
<1> HIDE DEF x
<1>2. SameComputation(x, [x EXCEPT !.stage = stage])
  BY <1>1 DEF SameComputation
<1> QED BY <1>2 DEF x

\* A computation comes to its end.
LEMMA ComputationEnds ==
  ASSUME NEW ix, NEW c, NEW o,
         \/ ix.ix = "callback_computation" /\ ix.accs.comp = computation_acc(c, o)
         \/ ix.ix = "finalize_key_recovery_callback" /\ ix.accs.computation = computation_acc(c, o)
         \/ /\ ix.ix = "claim_failure_finalize" /\ ix.accs.comp = computation_acc(c, o)
            /\ ix.accs.failure_acc[1] = "FailureClaimAccountHeader",
         ix.accs.executing_pool = execpool_acc(c)
  PROVE  KeepsChain(ix) /\ (ix.ix # "claim_failure_finalize" => Safe(ix))
<1>q. KeepsQueues(ix)
  BY EndingKeepsQueues
<1>l. ix.ix # "claim_failure_finalize" => LeavesClaims(ix)
  BY OthersLeaveClaims
<1> SUFFICES ASSUME NEW acc, ChainInv(acc) PROVE Mild(acc, ix)
  BY <1>q, <1>l, MildKeepsPrograms DEF Safe, KeepsChain, Apart
<1> DEFINE a0 == computation_acc(c, o)
           x0 == execpool_acc(c)
           v == [acc[a0] EXCEPT !.stage = "final"]
<1>1. MadeRoles(ix.ix) = {} /\ Closed(ix) = {}
  BY DEF MadeRoles, CreatedRoles, OptionalRoles, ClosedRoles, Closed
<1>2. PICK w : Ended(acc, a0, x0) = Entry(a0, v) ++ Entry(x0, w)
  BY DEF Ended
<1>3. \/ Changed(acc, ix) = <<>> ++ Ended(acc, a0, x0)
      \/ Changed(acc, ix) = <<>> ++ (Entry(ix.accs.failure_acc, [state |-> "final"]) ++ Ended(acc, a0, x0))
         /\ ix.accs.failure_acc[1] = "FailureClaimAccountHeader"
  <2> HIDE DEF a0, x0
  <2> QED BY DEF Changed, QueuedRole, None, a0, x0
<1>4. a0[1] = "ComputationAccount" /\ x0[1] = "Execpool"
  BY AddressKinds DEF execpool_acc
<1>5. a0 \in DOMAIN acc => SameComputation(acc[a0], v)
  BY StageChanges
<1> HIDE DEF a0, x0, v
<1>6. ASSUME NEW a \in DOMAIN Changed(acc, ix)
      PROVE  \/ a[1] \in {"Execpool", "FailureClaimAccountHeader"}
             \/ a = a0 /\ Changed(acc, ix)[a] = v
  BY <1>2, <1>3, <1>4 DEF ++, Entry
<1> QED BY <1>1, <1>4, <1>5, <1>6 DEF Mild

\* The three instructions that end a computation.
LEMMA EndingSteps ==
  ASSUME NEW s, NEW p, NEW q, NEW d, NEW c, NEW n, NEW o
  PROVE  /\ Safe(callback_computation_ix(s, p, o, d, n, c))
         /\ KeepsChain(claim_failure_finalize_ix(s, p, c, o, n))
         /\ Safe(finalize_key_recovery_callback_ix(s, p, q, c, o, n))
<1>1. Safe(callback_computation_ix(s, p, o, d, n, c))
  <2> DEFINE ix == callback_computation_ix(s, p, o, d, n, c)
  <2>1. /\ ix.ix = "callback_computation" /\ ix.accs.comp = computation_acc(c, o)
        /\ ix.accs.executing_pool = execpool_acc(c)
    BY DEF callback_computation_ix, Ix
  <2> HIDE DEF ix
  <2>2. Safe(ix)
    BY <2>1, ComputationEnds
  <2> QED BY <2>2 DEF ix
<1>2. KeepsChain(claim_failure_finalize_ix(s, p, c, o, n))
  <2> DEFINE ix == claim_failure_finalize_ix(s, p, c, o, n)
  <2>1. /\ ix.ix = "claim_failure_finalize" /\ ix.accs.comp = computation_acc(c, o)
        /\ ix.accs.failure_acc[1] = "FailureClaimAccountHeader"
        /\ ix.accs.executing_pool = execpool_acc(c)
    BY DEF claim_failure_finalize_ix, Ix, failure_claim_acc
  <2> HIDE DEF ix
  <2>2. KeepsChain(ix)
    BY <2>1, ComputationEnds
  <2> QED BY <2>2 DEF ix
<1>3. Safe(finalize_key_recovery_callback_ix(s, p, q, c, o, n))
  <2> DEFINE ix == finalize_key_recovery_callback_ix(s, p, q, c, o, n)
  <2>1. ix.ix = "finalize_key_recovery_callback"
    BY DEF finalize_key_recovery_callback_ix, Ix
  <2>2. /\ ix.accs.computation = computation_acc(c, o)
        /\ ix.accs.executing_pool = execpool_acc(c)
    BY DEF finalize_key_recovery_callback_ix, Ix, ++
  <2> HIDE DEF ix
  <2>3. Safe(ix)
    BY <2>1, <2>2, ComputationEnds
  <2> QED BY <2>3 DEF ix
<1> QED BY <1>1, <1>2, <1>3

\* A computation of a program itself is queued, again or for the first time.
LEMMA OwnComputationQueued ==
  ASSUME NEW s, NEW p, NEW c, NEW o
  PROVE  Safe(requeue_mxe_keygen_ix(s, p, c, o)) /\ Safe(queue_key_recovery_init_ix(s, p, c, o))
<1>1. ASSUME NEW ix, ix.accs.mempool = mempool_acc(c),
             \/ /\ ix.ix = "requeue_mxe_keygen"
                /\ ix.accs.mxe_keygen_computation = computation_acc(c, o)
             \/ /\ ix.ix = "queue_key_recovery_init"
                /\ ix.accs.key_recovery_init_computation = computation_acc(c, o)
                /\ ix.accs.key_recovery_init_computation_definition[1] = "ComputationDefinitionAccount"
      PROVE  Safe(ix)
  <2>q. KeepsQueues(ix)
    BY <1>1, OwnKeepsQueues
  <2>l. LeavesClaims(ix)
    BY <1>1, OthersLeaveClaims
  <2> SUFFICES ASSUME NEW acc, ChainInv(acc) PROVE Mild(acc, ix)
    BY <2>q, <2>l, MildKeepsPrograms DEF Safe, Apart
  <2> DEFINE a0 == computation_acc(c, o)
             x0 == mempool_acc(c)
             v == [acc[a0] EXCEPT !.stage = "queued"]
  <2>1. /\ Closed(ix) = {}
        /\ \A role \in MadeRoles(ix.ix) : ix.accs[role][1] \notin Watched
    BY <1>1 DEF MadeRoles, CreatedRoles, OptionalRoles, ClosedRoles, Closed, Watched
  <2>2. \E w : Changed(acc, ix) = Entry(x0, w) ++ Entry(a0, v)
    BY <1>1 DEF Changed, QueuedRole, None
  <2>4. a0[1] = "ComputationAccount" /\ x0[1] = "Mempool"
    BY AddressKinds DEF mempool_acc
  <2>5. a0 \in DOMAIN acc => SameComputation(acc[a0], v)
    BY StageChanges
  <2> HIDE DEF a0, x0, v
  <2>6. ASSUME NEW a \in DOMAIN Changed(acc, ix)
        PROVE  a[1] = "Mempool" \/ (a = a0 /\ Changed(acc, ix)[a] = v)
    BY <2>2, <2>4 DEF ++, Entry
  <2> QED BY <2>1, <2>4, <2>5, <2>6 DEF Mild
<1>2. Safe(requeue_mxe_keygen_ix(s, p, c, o))
  <2> DEFINE ix == requeue_mxe_keygen_ix(s, p, c, o)
  <2>1. /\ ix.ix = "requeue_mxe_keygen" /\ ix.accs.mempool = mempool_acc(c)
        /\ ix.accs.mxe_keygen_computation = computation_acc(c, o)
    BY DEF requeue_mxe_keygen_ix, Ix
  <2> HIDE DEF ix
  <2>2. Safe(ix)
    BY <2>1, <1>1
  <2> QED BY <2>2 DEF ix
<1>3. Safe(queue_key_recovery_init_ix(s, p, c, o))
  <2> DEFINE ix == queue_key_recovery_init_ix(s, p, c, o)
  <2>1. /\ ix.ix = "queue_key_recovery_init" /\ ix.accs.mempool = mempool_acc(c)
        /\ ix.accs.key_recovery_init_computation = computation_acc(c, o)
        /\ ix.accs.key_recovery_init_computation_definition[1] = "ComputationDefinitionAccount"
    BY DEF queue_key_recovery_init_ix, Ix, computation_definition_acc
  <2> HIDE DEF ix
  <2>2. Safe(ix)
    BY <2>1, <1>1
  <2> QED BY <2>2 DEF ix
<1> QED BY <1>2, <1>3

\* A computation is made and queued.
LEMMA ComputationIsMade ==
  ASSUME NEW ix, NEW c, NEW o,
         \/ ix.ix = "queue_computation" /\ ix.accs.comp = computation_acc(c, o)
         \/ /\ ix.ix = "finalize_key_recovery_execution"
            /\ ix.accs.key_recovery_finalize_computation = computation_acc(c, o)
            /\ ix.accs.mxe_recovery_account[1] = "MxeRecoveryAccount"
         \/ /\ ix.ix = "requeue_key_recovery_finalize"
            /\ ix.accs.new_computation = computation_acc(c, o)
            /\ ix.accs.mxe_recovery_account[1] = "MxeRecoveryAccount",
         QueuedRole(ix.ix) \in DOMAIN ix.accs, ix.accs.mempool = mempool_acc(c)
  PROVE  Safe(ix)
<1>r. ix.accs[QueuedRole(ix.ix)] = computation_acc(c, o)
  BY DEF QueuedRole
<1>q. KeepsQueues(ix)
  BY <1>r, MakingKeepsQueues
<1>l. LeavesClaims(ix)
  BY <1>r, OthersLeaveClaims
<1> SUFFICES ASSUME NEW acc, ChainInv(acc) PROVE Mild(acc, ix)
  BY <1>q, <1>l, MildKeepsPrograms DEF Safe, Apart
<1>1. Closed(ix) = {}
  BY DEF ClosedRoles, Closed
<1>2. ASSUME NEW role \in MadeRoles(ix.ix)
      PROVE  ix.accs[role] = computation_acc(c, o) /\ DOMAIN NewContent(acc, ix, role) = {"mxe", "def", "stage"}
  BY DEF MadeRoles, CreatedRoles, OptionalRoles, ClosedRoles, NewContent, Computation
<1>3. mempool_acc(c)[1] = "Mempool"
  BY DEF mempool_acc
<1>4. \/ \E w : Changed(acc, ix) = Entry(mempool_acc(c), w) ++ <<>>
      \/ /\ ix.accs.mxe_recovery_account[1] = "MxeRecoveryAccount"
         /\ \E w, v : Changed(acc, ix) = Entry(mempool_acc(c), w) ++ Entry(ix.accs.mxe_recovery_account, v)
  BY DEF Changed, QueuedRole, None
<1>5. ASSUME NEW a \in DOMAIN Changed(acc, ix)
      PROVE  a[1] \in {"Mempool", "MxeRecoveryAccount"}
  <2> HIDE DEF Changed
  <2> QED BY <1>3, <1>4 DEF ++, Entry
<1> QED BY <1>1, <1>2, <1>5, AddressKinds DEF Mild, Watched

\* The three instructions that make a computation for a program.
LEMMA MakingSteps ==
  ASSUME NEW s, NEW w, NEW p, NEW q, NEW d, NEW c, NEW o, NEW k, NEW data
  PROVE  /\ Safe(queue_computation_ix(s, p, o, d, data))
         /\ Safe(finalize_key_recovery_execution_ix(s, w, p, q, c, o))
         /\ Safe(requeue_key_recovery_finalize_ix(s, w, p, q, c, k, o))
<1>1. Safe(queue_computation_ix(s, p, o, d, data))
  <2> DEFINE ix == queue_computation_ix(s, p, o, d, data)
  <2>1. /\ ix.ix = "queue_computation" /\ ix.accs.comp = computation_acc(data.cluster, o)
        /\ ix.accs.mempool = mempool_acc(data.cluster)
        /\ QueuedRole(ix.ix) \in DOMAIN ix.accs
    BY DEF queue_computation_ix, Ix, QueuedRole
  <2> HIDE DEF ix
  <2>2. Safe(ix)
    BY <2>1, ComputationIsMade
  <2> QED BY <2>2 DEF ix
<1>2. Safe(finalize_key_recovery_execution_ix(s, w, p, q, c, o))
  <2> DEFINE ix == finalize_key_recovery_execution_ix(s, w, p, q, c, o)
  <2>1. ix.ix = "finalize_key_recovery_execution"
    BY DEF finalize_key_recovery_execution_ix, Ix
  <2>2. /\ ix.accs.key_recovery_finalize_computation = computation_acc(c, o)
        /\ ix.accs.mempool = mempool_acc(c)
        /\ ix.accs.mxe_recovery_account = mxe_recovery_acc(q, p)
        /\ QueuedRole("finalize_key_recovery_execution") \in DOMAIN ix.accs
    BY DEF finalize_key_recovery_execution_ix, Ix, ++, Recovery, RecoveryCluster, QueuedRole
  <2>3. ix.accs.mxe_recovery_account[1] = "MxeRecoveryAccount"
    BY <2>2 DEF mxe_recovery_acc
  <2> HIDE DEF ix
  <2>4. Safe(ix)
    BY <2>1, <2>2, <2>3, ComputationIsMade
  <2> QED BY <2>4 DEF ix
<1>3. Safe(requeue_key_recovery_finalize_ix(s, w, p, q, c, k, o))
  <2> DEFINE ix == requeue_key_recovery_finalize_ix(s, w, p, q, c, k, o)
  <2>1. ix.ix = "requeue_key_recovery_finalize"
    BY DEF requeue_key_recovery_finalize_ix, Ix
  <2>2. /\ ix.accs.new_computation = computation_acc(c, k)
        /\ ix.accs.mempool = mempool_acc(c)
        /\ ix.accs.mxe_recovery_account = mxe_recovery_acc(q, p)
        /\ QueuedRole("requeue_key_recovery_finalize") \in DOMAIN ix.accs
    BY DEF requeue_key_recovery_finalize_ix, Ix, ++, Recovery, RecoveryCluster, QueuedRole
  <2>3. ix.accs.mxe_recovery_account[1] = "MxeRecoveryAccount"
    BY <2>2 DEF mxe_recovery_acc
  <2> HIDE DEF ix
  <2>4. Safe(ix)
    BY <2>1, <2>2, <2>3, ComputationIsMade
  <2> QED BY <2>4 DEF ix
<1> QED BY <1>1, <1>2, <1>3

-----------------------------------------------------------------------------
(* The initialization of a program.  Its first part alone leaves half of it. *)

\* The chain accepts an instruction.
Does(acc, ix, next) == Refusal(acc, ix) = "none" /\ next = Executed(acc, ix)

\* What is true of the chain after it.
HasEffects(acc, ix, next) ==
  /\ DOMAIN next = (DOMAIN acc \cup Made(ix)) \ Closed(ix)
  /\ \A a \in DOMAIN next \cap DOMAIN Changed(acc, ix) : next[a] = Changed(acc, ix)[a]
  /\ \A a \in DOMAIN next \ DOMAIN Changed(acc, ix) : a \in DOMAIN acc => next[a] = acc[a]
  /\ \A a \in DOMAIN next \ DOMAIN Changed(acc, ix) :
       a \notin DOMAIN acc =>
         \E role \in MadeRoles(ix.ix) : a = ix.accs[role] /\ next[a] = NewContent(acc, ix, role)

\* The effects of an instruction the chain accepts.
LEMMA EffectsOf ==
  ASSUME NEW acc, NEW ix, NEW next, Does(acc, ix, next) PROVE HasEffects(acc, ix, next)
<1> DEFINE nx == Executed(acc, ix)
<1>1. /\ DOMAIN nx = (DOMAIN acc \cup Made(ix)) \ Closed(ix)
      /\ \A a \in DOMAIN nx \cap DOMAIN Changed(acc, ix) : nx[a] = Changed(acc, ix)[a]
      /\ \A a \in DOMAIN nx \ DOMAIN Changed(acc, ix) : a \in DOMAIN acc => nx[a] = acc[a]
      /\ \A a \in DOMAIN nx \ DOMAIN Changed(acc, ix) :
           a \notin DOMAIN acc =>
             \E role \in MadeRoles(ix.ix) : a = ix.accs[role] /\ nx[a] = NewContent(acc, ix, role)
  BY Effects
<1>2. next = nx
  BY DEF Does
<1> HIDE DEF nx
<1> QED BY <1>1, <1>2 DEF HasEffects

\* It makes accounts and changes only a mempool.
OnlyMakes(acc, ix) ==
  /\ Closed(ix) = {} /\ OptionalRoles(ix.ix) = {}
  /\ MadeRoles(ix.ix) = CreatedRoles(ix.ix) /\ CreatedRoles(ix.ix) \subseteq DOMAIN ix.accs
  /\ "callback_accs" \notin CreatedRoles(ix.ix)
  /\ \A a \in DOMAIN Changed(acc, ix) : a[1] = "Mempool"

\* What it makes is new, and is as it is made.
Makes(acc, ix, next) ==
  /\ DOMAIN next = DOMAIN acc \cup Made(ix)
  /\ \A a \in DOMAIN acc : a[1] # "Mempool" => next[a] = acc[a]
  /\ \A role \in MadeRoles(ix.ix) : ix.accs[role] \notin DOMAIN acc
  /\ \A role \in MadeRoles(ix.ix) :
       ix.accs[role][1] # "Mempool" => next[ix.accs[role]] = NewContent(acc, ix, role)

\* An instruction that only makes accounts makes new ones, with their first content.
LEMMA MakesNew ==
  ASSUME NEW acc, NEW ix, NEW next, Does(acc, ix, next), OnlyMakes(acc, ix) PROVE Makes(acc, ix, next)
<1>e. /\ DOMAIN next = (DOMAIN acc \cup Made(ix)) \ Closed(ix)
      /\ \A a \in DOMAIN next \cap DOMAIN Changed(acc, ix) : next[a] = Changed(acc, ix)[a]
      /\ \A a \in DOMAIN next \ DOMAIN Changed(acc, ix) : a \in DOMAIN acc => next[a] = acc[a]
      /\ \A a \in DOMAIN next \ DOMAIN Changed(acc, ix) :
           a \notin DOMAIN acc =>
             \E role \in MadeRoles(ix.ix) : a = ix.accs[role] /\ next[a] = NewContent(acc, ix, role)
  <2>1. HasEffects(acc, ix, next)
    BY EffectsOf
  <2> QED BY <2>1 DEF HasEffects
<1> USE DEF OnlyMakes
<1>1. AccountsMatch(acc, ix)
  BY DEF Does, Refusal
<1>2. /\ \A role \in MadeRoles(ix.ix) : ix.accs[role] \notin DOMAIN acc
      /\ \A r \in MadeRoles(ix.ix) : \A q \in MadeRoles(ix.ix) \ {r} : ix.accs[r] # ix.accs[q]
  BY <1>1 DEF AccountsMatch
<1>3. ASSUME NEW role \in MadeRoles(ix.ix), ix.accs[role][1] # "Mempool"
      PROVE  next[ix.accs[role]] = NewContent(acc, ix, role)
  <2>1. ix.accs[role] \in DOMAIN next \ DOMAIN Changed(acc, ix)
    BY <1>3, <1>e DEF Made
  <2>2. PICK r \in MadeRoles(ix.ix) : /\ ix.accs[role] = ix.accs[r]
                                      /\ next[ix.accs[role]] = NewContent(acc, ix, r)
    BY <2>1, <1>2, <1>e
  <2> QED BY <2>2, <1>2
<1>4. DOMAIN next = DOMAIN acc \cup Made(ix)
  BY <1>e
<1>5. \A a \in DOMAIN acc : a[1] # "Mempool" => next[a] = acc[a]
  BY <1>4, <1>e
<1> QED BY <1>2, <1>3, <1>4, <1>5 DEF Makes

\* The first part of init_mxe makes the recovery cluster account and nothing else.
LEMMA FirstPart ==
  ASSUME NEW s, NEW p, NEW acc, NEW mid, Does(acc, init_mxe_part1_ix(s, p), mid)
  PROVE  /\ DOMAIN mid = DOMAIN acc \cup {recovery_cluster_acc(p)}
         /\ \A a \in DOMAIN acc : a[1] # "Mempool" => mid[a] = acc[a]
         /\ recovery_cluster_acc(p) \notin DOMAIN acc
<1> DEFINE ix == init_mxe_part1_ix(s, p)
<1>1. /\ ix.accs.recovery_cluster_acc = recovery_cluster_acc(p) /\ ix.ix = "init_mxe_part1"
      /\ "recovery_cluster_acc" \in DOMAIN ix.accs
  BY DEF init_mxe_part1_ix, Ix
<1> HIDE DEF ix
<1>2. /\ Closed(ix) = {} /\ OptionalRoles(ix.ix) = {} /\ CreatedRoles(ix.ix) = {"recovery_cluster_acc"}
      /\ MadeRoles(ix.ix) = {"recovery_cluster_acc"}
  BY <1>1 DEF MadeRoles, CreatedRoles, OptionalRoles, ClosedRoles, Closed
<1>3. DOMAIN Changed(acc, ix) = {}
  BY <1>1 DEF Changed, QueuedRole, None, ++
<1>4. Made(ix) = {recovery_cluster_acc(p)}
  BY <1>1, <1>2 DEF Made
<1>5. /\ DOMAIN mid = DOMAIN acc \cup Made(ix)
      /\ \A a \in DOMAIN acc : a[1] # "Mempool" => mid[a] = acc[a]
      /\ \A role \in MadeRoles(ix.ix) : ix.accs[role] \notin DOMAIN acc
  <2>1. Does(acc, ix, mid)
    BY DEF ix
  <2>2. /\ MadeRoles(ix.ix) = CreatedRoles(ix.ix) /\ CreatedRoles(ix.ix) \subseteq DOMAIN ix.accs
        /\ "callback_accs" \notin CreatedRoles(ix.ix) /\ Closed(ix) = {} /\ OptionalRoles(ix.ix) = {}
    BY <1>1, <1>2
  <2>3. OnlyMakes(acc, ix)
    BY <2>2, <1>3 DEF OnlyMakes
  <2>4. Makes(acc, ix, mid)
    BY <2>1, <2>3, MakesNew
  <2> QED BY <2>4 DEF Makes
<1>6. recovery_cluster_acc(p) \notin DOMAIN acc
  BY <1>1, <1>2, <1>5
<1>7. /\ DOMAIN mid = DOMAIN acc \cup {recovery_cluster_acc(p)}
      /\ \A a \in DOMAIN acc : a[1] # "Mempool" => mid[a] = acc[a]
  BY <1>4, <1>5
<1> QED BY <1>6, <1>7

\* The accounts of a program that the second part makes.
AllMade(p, c, k, r, mid, next) ==
  /\ \E lut : /\ lut[1] = "LookupTable"
              /\ DOMAIN next = DOMAIN mid \cup
                   {mxe_acc(p), lut, computation_definition_acc(p, MXE_KEYGEN_OFFSET),
                    computation_acc(c, k), computation_acc(c, r)}
  /\ \A a \in DOMAIN mid : a[1] # "Mempool" => next[a] = mid[a]
  /\ computation_acc(c, k) \notin DOMAIN mid /\ computation_acc(c, r) \notin DOMAIN mid
  /\ mxe_acc(p) \notin DOMAIN mid
  /\ next[mxe_acc(p)] = [cluster |-> c, keygen_offset |-> k, key_recovery_init_offset |-> r,
                         keys_set |-> FALSE, status |-> "Active"]
  /\ next[computation_acc(c, k)] = Computation(p, 1, "queued")
  /\ next[computation_acc(c, r)] = Computation(p, 2, "waiting")

\* The second part makes the program, its own computations and what they need.
LEMMA SecondPart ==
  ASSUME NEW s, NEW p, NEW c, NEW k, NEW r, NEW slot, NEW mid, NEW next,
         Does(mid, init_mxe_part2_ix(s, p, c, k, r, slot), next)
  PROVE  AllMade(p, c, k, r, mid, next)
<1> DEFINE ix == init_mxe_part2_ix(s, p, c, k, r, slot)
           roles == {"mxe", "address_lookup_table", "mxe_keygen_computation_definition",
                     "mxe_keygen_computation", "key_recovery_init_computation"}
<1>1. /\ ix.ix = "init_mxe_part2" /\ roles \subseteq DOMAIN ix.accs
      /\ ix.accs.mxe = mxe_acc(p)
      /\ ix.accs.address_lookup_table = mxe_lut_acc(p, slot)
      /\ ix.accs.mxe_keygen_computation_definition = computation_definition_acc(p, MXE_KEYGEN_OFFSET)
      /\ ix.accs.mxe_keygen_computation = computation_acc(c, k)
      /\ ix.accs.key_recovery_init_computation = computation_acc(c, r)
      /\ ix.accs.mempool = mempool_acc(c)
  BY DEF init_mxe_part2_ix, Ix
<1>2. /\ ix.args.cluster_offset = c /\ ix.args.keygen_offset = k
      /\ ix.args.key_recovery_init_offset = r /\ Program(ix) = p
  BY DEF init_mxe_part2_ix, Ix, Program
<1> HIDE DEF ix
<1>3. /\ Closed(ix) = {} /\ OptionalRoles(ix.ix) = {} /\ CreatedRoles(ix.ix) = roles
      /\ MadeRoles(ix.ix) = roles
  BY <1>1 DEF MadeRoles, CreatedRoles, OptionalRoles, ClosedRoles, Closed
<1>4. \A a \in DOMAIN Changed(mid, ix) : a[1] = "Mempool"
  <2>1. \E w : Changed(mid, ix) = Entry(mempool_acc(c), w) ++ <<>>
    BY <1>1 DEF Changed, QueuedRole, None
  <2>2. mempool_acc(c)[1] = "Mempool"
    BY DEF mempool_acc
  <2> QED BY <2>1, <2>2 DEF ++, Entry
<1>5. Made(ix) = {mxe_acc(p), mxe_lut_acc(p, slot), computation_definition_acc(p, MXE_KEYGEN_OFFSET),
                  computation_acc(c, k), computation_acc(c, r)}
  BY <1>1, <1>3 DEF Made
<1>6. "callback_accs" \notin CreatedRoles(ix.ix)
  BY <1>3
<1>7. Does(mid, ix, next)
  BY DEF ix
<1>8. /\ DOMAIN next = DOMAIN mid \cup Made(ix)
      /\ \A a \in DOMAIN mid : a[1] # "Mempool" => next[a] = mid[a]
      /\ \A role \in MadeRoles(ix.ix) : ix.accs[role] \notin DOMAIN mid
      /\ \A role \in MadeRoles(ix.ix) :
           ix.accs[role][1] # "Mempool" => next[ix.accs[role]] = NewContent(mid, ix, role)
  <2>1. MadeRoles(ix.ix) = CreatedRoles(ix.ix) /\ CreatedRoles(ix.ix) \subseteq DOMAIN ix.accs
    BY <1>1, <1>3
  <2>2. Closed(ix) = {} /\ OptionalRoles(ix.ix) = {}
    BY <1>3
  <2>3. OnlyMakes(mid, ix)
    BY <2>1, <2>2, <1>4, <1>6 DEF OnlyMakes
  <2>4. Makes(mid, ix, next)
    BY <2>3, <1>7, MakesNew
  <2> QED BY <2>4 DEF Makes
<1>9. mxe_lut_acc(p, slot)[1] = "LookupTable"
  BY DEF mxe_lut_acc
<1>10. /\ NewContent(mid, ix, "mxe") = [cluster |-> c, keygen_offset |-> k, key_recovery_init_offset |-> r,
                                       keys_set |-> FALSE, status |-> "Active"]
       /\ NewContent(mid, ix, "mxe_keygen_computation") = Computation(p, 1, "queued")
       /\ NewContent(mid, ix, "key_recovery_init_computation") = Computation(p, 2, "waiting")
  BY <1>2 DEF NewContent
<1>11. /\ next[mxe_acc(p)] = NewContent(mid, ix, "mxe") /\ mxe_acc(p) \notin DOMAIN mid
  <2>1. "mxe" \in MadeRoles(ix.ix) /\ ix.accs["mxe"] = mxe_acc(p) /\ mxe_acc(p)[1] # "Mempool"
    BY <1>1, <1>3, AddressKinds
  <2> QED BY <2>1, <1>8
<1>12. /\ next[computation_acc(c, k)] = NewContent(mid, ix, "mxe_keygen_computation")
       /\ computation_acc(c, k) \notin DOMAIN mid
  <2>1. /\ "mxe_keygen_computation" \in MadeRoles(ix.ix)
        /\ ix.accs["mxe_keygen_computation"] = computation_acc(c, k)
        /\ computation_acc(c, k)[1] # "Mempool"
    BY <1>1, <1>3, AddressKinds
  <2> QED BY <2>1, <1>8
<1>13. /\ next[computation_acc(c, r)] = NewContent(mid, ix, "key_recovery_init_computation")
       /\ computation_acc(c, r) \notin DOMAIN mid
  <2>1. /\ "key_recovery_init_computation" \in MadeRoles(ix.ix)
        /\ ix.accs["key_recovery_init_computation"] = computation_acc(c, r)
        /\ computation_acc(c, r)[1] # "Mempool"
    BY <1>1, <1>3, AddressKinds
  <2> QED BY <2>1, <1>8
<1>14. \E lut : /\ lut[1] = "LookupTable"
                /\ DOMAIN next = DOMAIN mid \cup
                     {mxe_acc(p), lut, computation_definition_acc(p, MXE_KEYGEN_OFFSET),
                      computation_acc(c, k), computation_acc(c, r)}
  BY <1>5, <1>8, <1>9
<1> QED BY <1>8, <1>10, <1>11, <1>12, <1>13, <1>14 DEF AllMade

\* Both parts together make all of a program's accounts.
LEMMA BothParts ==
  ASSUME NEW s, NEW p, NEW c, NEW k, NEW r, NEW slot, NEW acc, NEW mid, NEW next,
         ChainInv(acc), Does(acc, init_mxe_part1_ix(s, p), mid),
         Does(mid, init_mxe_part2_ix(s, p, c, k, r, slot), next)
  PROVE  Fact(acc, next)
<1> DEFINE keygen == computation_acc(c, k)
           recovery_init == computation_acc(c, r)
           m0 == mxe_acc(p)
           r0 == recovery_cluster_acc(p)
<1>1. /\ DOMAIN mid = DOMAIN acc \cup {r0}
      /\ \A a \in DOMAIN acc : a[1] # "Mempool" => mid[a] = acc[a]
      /\ r0 \notin DOMAIN acc
  BY FirstPart
<1>2. /\ \E lut : /\ lut[1] = "LookupTable"
                  /\ DOMAIN next = DOMAIN mid \cup
                       {m0, lut, computation_definition_acc(p, MXE_KEYGEN_OFFSET), keygen, recovery_init}
      /\ \A a \in DOMAIN mid : a[1] # "Mempool" => next[a] = mid[a]
      /\ keygen \notin DOMAIN mid /\ recovery_init \notin DOMAIN mid /\ m0 \notin DOMAIN mid
      /\ next[m0] = [cluster |-> c, keygen_offset |-> k, key_recovery_init_offset |-> r,
                     keys_set |-> FALSE, status |-> "Active"]
      /\ next[keygen] = Computation(p, 1, "queued")
      /\ next[recovery_init] = Computation(p, 2, "waiting")
  <2>1. AllMade(p, c, k, r, mid, next)
    BY SecondPart
  <2> QED BY <2>1 DEF AllMade
<1>3. /\ m0[1] = "MXEAccount" /\ r0[1] = "RecoveryClusterAccount"
      /\ keygen[1] = "ComputationAccount" /\ recovery_init[1] = "ComputationAccount"
      /\ computation_definition_acc(p, MXE_KEYGEN_OFFSET)[1] = "ComputationDefinitionAccount"
  BY AddressKinds DEF computation_definition_acc
<1> HIDE DEF keygen, recovery_init, m0, r0
<1>4. \A a \in DOMAIN acc : a \in DOMAIN next /\ (a[1] # "Mempool" => next[a] = acc[a])
  BY <1>1, <1>2
<1>5. ASSUME NEW a \in DOMAIN next, a \notin DOMAIN acc
      PROVE  \/ a \in {m0, r0, keygen, recovery_init}
             \/ a[1] \in {"LookupTable", "ComputationDefinitionAccount"}
  BY <1>1, <1>2, <1>3, <1>5
<1>6. m0 \in DOMAIN next /\ r0 \in DOMAIN next /\ keygen \in DOMAIN next /\ recovery_init \in DOMAIN next
  BY <1>1, <1>2
<1>7. FieldsKept(next)
  <2>1. ASSUME NEW a \in DOMAIN next, a[1] \in Watched, a \in DOMAIN acc
        PROVE  next[a] = acc[a]
    BY <2>1, <1>4 DEF Watched
  <2>2. /\ DOMAIN next[m0] = {"cluster", "keygen_offset", "key_recovery_init_offset", "keys_set", "status"}
        /\ DOMAIN next[keygen] = {"mxe", "def", "stage"}
        /\ DOMAIN next[recovery_init] = {"mxe", "def", "stage"}
    BY <1>2 DEF Computation
  <2>3. ASSUME NEW a \in DOMAIN next, a \notin DOMAIN acc
        PROVE  /\ a[1] # "ArxNode" /\ a[1] # "Cluster"
               /\ a[1] = "MXEAccount" => a = m0
               /\ a[1] = "ComputationAccount" => a \in {keygen, recovery_init}
    BY <2>3, <1>3, <1>5
  <2>4. ASSUME NEW a \in DOMAIN next, a \in DOMAIN acc
        PROVE  /\ a[1] = "ArxNode" => DOMAIN next[a] = {"is_active", "cluster_membership"}
               /\ a[1] = "Cluster" => DOMAIN next[a] = {"nodes", "pending_nodes", "active"}
               /\ a[1] = "MXEAccount" =>
                    DOMAIN next[a] =
                      {"cluster", "keygen_offset", "key_recovery_init_offset", "keys_set", "status"}
               /\ a[1] = "ComputationAccount" => DOMAIN next[a] = {"mxe", "def", "stage"}
    BY <2>1, <2>4 DEF ChainInv, FieldsKept, Watched
  <2>5. ASSUME NEW a \in DOMAIN next, a \notin DOMAIN acc
        PROVE  /\ a[1] = "MXEAccount" =>
                    DOMAIN next[a] =
                      {"cluster", "keygen_offset", "key_recovery_init_offset", "keys_set", "status"}
               /\ a[1] = "ComputationAccount" => DOMAIN next[a] = {"mxe", "def", "stage"}
    BY <2>2, <2>3, <2>5
  <2> QED BY <2>3, <2>4, <2>5 DEF FieldsKept
<1>8. \A d : /\ cluster_acc(d) \in DOMAIN next <=> cluster_acc(d) \in DOMAIN acc
             /\ cluster_acc(d) \in DOMAIN acc => next[cluster_acc(d)] = acc[cluster_acc(d)]
  BY <1>3, <1>4, <1>5, AddressKinds
<1>9. \A n : arx_acc(n) \in DOMAIN acc => arx_acc(n) \in DOMAIN next /\ next[arx_acc(n)] = acc[arx_acc(n)]
  BY <1>4, AddressKinds
<1>10. MembersKept(next)
  BY <1>8, <1>9 DEF ChainInv, MembersKept
<1>11. NodesStay(acc, next)
  <2>1. \A d \in Clusters : \A n : cluster_acc(d) \in DOMAIN acc /\ n \in acc[cluster_acc(d)].nodes
           => next[arx_acc(n)] = acc[arx_acc(n)]
    BY <1>9 DEF ChainInv, MembersKept
  <2> QED BY <1>8, <2>1 DEF NodesStay
<1>12. ASSUME NEW q \in Programs, mxe_acc(q) \in DOMAIN acc
       PROVE  mxe_acc(q) \in DOMAIN next /\ next[mxe_acc(q)] = acc[mxe_acc(q)]
  BY <1>4, <1>12, AddressKinds
<1>13. Whole(next, p)
  BY <1>2, <1>6 DEF Whole, m0, r0, keygen, recovery_init, Computation, MXE_KEYGEN_OFFSET
<1>14. ASSUME NEW q \in Programs, q # p PROVE Whole(next, q)
  <2>1. mxe_acc(q) # m0 /\ recovery_cluster_acc(q) # r0
    BY <1>14, AddressKinds DEF m0, r0
  <2>2. /\ mxe_acc(q) \in DOMAIN next <=> mxe_acc(q) \in DOMAIN acc
        /\ recovery_cluster_acc(q) \in DOMAIN next <=> recovery_cluster_acc(q) \in DOMAIN acc
    BY <2>1, <1>3, <1>4, <1>5, AddressKinds
  <2>3. ASSUME NEW d, NEW o, computation_acc(d, o) \in DOMAIN acc
        PROVE  /\ computation_acc(d, o) \in DOMAIN next
               /\ next[computation_acc(d, o)] = acc[computation_acc(d, o)]
    BY <2>3, <1>4, AddressKinds
  <2> QED BY <2>2, <2>3, <1>12 DEF ChainInv, Whole
<1>15. Later(acc, next)
  BY <1>11, <1>12 DEF Later
<1> QED BY <1>7, <1>10, <1>13, <1>14, <1>15 DEF Fact, ChainInv

\* The queues and the claims are kept by each part.
LEMMA BothPartsGo ==
  ASSUME NEW s, NEW p, NEW c, NEW k, NEW r, NEW slot, NEW acc, NEW mid, NEW next,
         Sound(acc), Does(acc, init_mxe_part1_ix(s, p), mid),
         Does(mid, init_mxe_part2_ix(s, p, c, k, r, slot), next)
  PROVE  Goes(acc, next)
<1> DEFINE ix == init_mxe_part1_ix(s, p)
           jx == init_mxe_part2_ix(s, p, c, k, r, slot)
<1>1. Fact(acc, next)
  BY BothParts DEF Sound
<1>2. /\ KeepsQueues(ix) /\ KeepsQueues(jx)
      /\ LeavesClaims(ix) /\ LeavesClaims(jx)
  BY FirstPartKeepsQueues, SecondPartKeepsQueues, BothPartsLeaveClaims
<1>3. Does(acc, ix, mid) /\ Does(mid, jx, next)
  OBVIOUS
<1> HIDE DEF ix, jx
<1>4. QueueFact(acc, mid) /\ NoNewClaims(acc, mid)
  BY <1>2, <1>3 DEF Does, KeepsQueues, LeavesClaims, Sound
<1>5. QueueFact(mid, next) /\ NoNewClaims(mid, next)
  BY <1>2, <1>3, <1>4 DEF Does, KeepsQueues, LeavesClaims, QueueFact
<1>6. QueueFact(acc, next) /\ NoNewClaims(acc, next)
  BY <1>4, <1>5 DEF QueueFact, EndedStay, NoNewClaims
<1> QED BY <1>1, <1>6, ClaimsStay DEF Goes, Sound

-----------------------------------------------------------------------------
(* The claim that a computation failed.  Its first two parts leave half of it. *)

\* A claim is new, and nothing else changes.
ClaimIsNew(p, o, acc, next) ==
  /\ DOMAIN next = DOMAIN acc \cup {failure_claim_acc(p, o)}
  /\ \A a \in DOMAIN acc : next[a] = acc[a]

\* The first part makes the claim and nothing else.
LEMMA ClaimIsMade ==
  ASSUME NEW s, NEW p, NEW c, NEW d, NEW o, NEW n, NEW len, NEW acc, NEW next,
         Does(acc, claim_failure_init_ix(s, p, c, d, o, n, len), next)
  PROVE  ClaimIsNew(p, o, acc, next)
<1> DEFINE ix == claim_failure_init_ix(s, p, c, d, o, n, len)
<1>1. ix.ix = "claim_failure_init" /\ ix.accs.failure_acc = failure_claim_acc(p, o)
  BY DEF claim_failure_init_ix, Ix
<1>2. HasEffects(acc, ix, next)
  BY EffectsOf
<1> HIDE DEF ix
<1>3. Made(ix) = {failure_claim_acc(p, o)} /\ Closed(ix) = {}
  BY <1>1 DEF Made, Closed, MadeRoles, CreatedRoles, OptionalRoles, ClosedRoles
<1>4. DOMAIN Changed(acc, ix) = {}
  BY <1>1 DEF Changed, QueuedRole, None, ++
<1> QED BY <1>2, <1>3, <1>4 DEF HasEffects, ClaimIsNew

\* The second part changes it.
LEMMA ClaimIsAppended ==
  ASSUME NEW s, NEW p, NEW o, NEW k, NEW n, NEW acc, NEW next,
         Does(acc, claim_failure_append_ix(s, p, o, k, n), next)
  PROVE  /\ DOMAIN next = DOMAIN acc
         /\ \A a \in DOMAIN acc : a # failure_claim_acc(p, o) => next[a] = acc[a]
<1> DEFINE ix == claim_failure_append_ix(s, p, o, k, n)
<1>1. ix.ix = "claim_failure_append" /\ ix.accs.failure_acc = failure_claim_acc(p, o)
  BY DEF claim_failure_append_ix, Ix
<1>2. HasEffects(acc, ix, next)
  BY EffectsOf
<1> HIDE DEF ix
<1>3. Made(ix) = {} /\ Closed(ix) = {}
  BY <1>1 DEF Made, Closed, MadeRoles, CreatedRoles, OptionalRoles, ClosedRoles
<1>4. DOMAIN Changed(acc, ix) = {failure_claim_acc(p, o)}
  <2>1. \E v : Changed(acc, ix) = <<>> ++ Entry(failure_claim_acc(p, o), v)
    BY <1>1 DEF Changed, QueuedRole, None
  <2> QED BY <2>1 DEF ++, Entry
<1> QED BY <1>2, <1>3, <1>4 DEF HasEffects

\* The third part ends it and the computation, which is one of the program's cluster.
LEMMA ClaimIsFinal ==
  ASSUME NEW s, NEW p, NEW c, NEW o, NEW n, NEW acc, NEW next, ChainInv(acc),
         Does(acc, claim_failure_finalize_ix(s, p, c, o, n), next),
         failure_claim_acc(p, o) \in DOMAIN acc
  PROVE  /\ DOMAIN next = DOMAIN acc
         /\ \A a \in DOMAIN acc : IsClaim(a) /\ a # failure_claim_acc(p, o) => next[a] = acc[a]
         /\ next[failure_claim_acc(p, o)] = [state |-> "final"]
         /\ mxe_acc(p) \in DOMAIN acc /\ acc[mxe_acc(p)].cluster = c
         /\ computation_acc(c, o) \in DOMAIN next /\ next[computation_acc(c, o)].stage = "final"
<1> DEFINE ix == claim_failure_finalize_ix(s, p, c, o, n)
           f0 == failure_claim_acc(p, o)
           a0 == computation_acc(c, o)
           x0 == execpool_acc(c)
           v == [acc[a0] EXCEPT !.stage = "final"]
<1>1. /\ ix.ix = "claim_failure_finalize" /\ ix.accs.failure_acc = f0
      /\ ix.accs.comp = a0 /\ ix.accs.executing_pool = x0 /\ ix.accs.mxe = mxe_acc(p)
      /\ {"comp", "mxe"} \subseteq DOMAIN ix.accs
      /\ "cluster_offset" \notin DOMAIN ix.args
      /\ "comp_offset" \in DOMAIN ix.args /\ ix.args.comp_offset = o
  BY DEF claim_failure_finalize_ix, Ix
<1>2. HasEffects(acc, ix, next) /\ Refusal(acc, ix) = "none"
  BY EffectsOf DEF Does
<1> HIDE DEF ix
<1>3. SourcesExist(acc, ix) /\ AddressesMatch(acc, ix) /\ Allowed(acc, ix)
  BY <1>2 DEF Refusal
<1>4. mxe_acc(p) \in DOMAIN acc
  BY <1>1, <1>3 DEF SourcesExist, CreatedRoles
<1>5. acc[mxe_acc(p)].cluster = c
  <2>1. a0 = Prescribed(acc, ix, "comp")
    BY <1>1, <1>3 DEF AddressesMatch
  <2>2. Prescribed(acc, ix, "comp") = ComputationOf(acc, ix, o)
    BY <1>1 DEF Prescribed
  <2>3. ComputationOf(acc, ix, o) = computation_acc(acc[mxe_acc(p)].cluster, o)
    BY <1>1 DEF ComputationOf, ClusterOf
  <2> QED BY <2>1, <2>2, <2>3, QueueAddresses
<1>6. a0 \in DOMAIN acc
  BY <1>1, <1>3 DEF Allowed, None
<1>7. Made(ix) = {} /\ Closed(ix) = {}
  BY <1>1 DEF Made, Closed, MadeRoles, CreatedRoles, OptionalRoles, ClosedRoles
<1>8. PICK w : Changed(acc, ix) = <<>> ++ (Entry(f0, [state |-> "final"]) ++ (Entry(a0, v) ++ Entry(x0, w)))
  <2>1. Changed(acc, ix) = <<>> ++ (Entry(f0, [state |-> "final"]) ++ Ended(acc, a0, x0))
    BY <1>1 DEF Changed, QueuedRole, None
  <2> QED BY <2>1 DEF Ended
<1>9. f0[1] = "FailureClaimAccountHeader" /\ a0[1] = "ComputationAccount" /\ x0[1] = "Execpool"
  BY QueueAddresses DEF failure_claim_acc
<1>10. v.stage = "final"
  <2>1. "stage" \in DOMAIN acc[a0]
    BY <1>6, <1>9 DEF ChainInv, FieldsKept
  <2> QED BY <2>1
<1> HIDE DEF f0, a0, x0, v
<1>11. /\ DOMAIN Changed(acc, ix) = {f0, a0, x0}
       /\ Changed(acc, ix)[f0] = [state |-> "final"] /\ Changed(acc, ix)[a0] = v
  BY <1>8, <1>9 DEF ++, Entry
<1>12. DOMAIN next = DOMAIN acc
  BY <1>2, <1>7 DEF HasEffects
<1>13. f0 \in DOMAIN acc
  BY DEF f0
<1>14. /\ next[f0] = [state |-> "final"] /\ next[a0] = v
       /\ \A a \in DOMAIN acc : IsClaim(a) /\ a # f0 => next[a] = acc[a]
  BY <1>2, <1>6, <1>9, <1>11, <1>12, <1>13 DEF HasEffects, IsClaim
<1> QED BY <1>4, <1>5, <1>6, <1>10, <1>12, <1>14 DEF f0, a0

\* A claim is made whole.
LEMMA AllPartsGo ==
  ASSUME NEW s, NEW p \in Programs, NEW c, NEW d, NEW o, NEW n, NEW len, NEW k,
         NEW acc, NEW one, NEW two, NEW next, Sound(acc),
         Does(acc, claim_failure_init_ix(s, p, c, d, o, n, len), one),
         Does(one, claim_failure_append_ix(s, p, o, len, k), two),
         Does(two, claim_failure_finalize_ix(s, p, c, o, n), next)
  PROVE  Goes(acc, next)
<1> DEFINE f0 == failure_claim_acc(p, o)
<1>1. /\ KeepsChain(claim_failure_init_ix(s, p, c, d, o, n, len))
      /\ KeepsChain(claim_failure_append_ix(s, p, o, len, k))
      /\ KeepsChain(claim_failure_finalize_ix(s, p, c, o, n))
  BY QuietInstructions, EndingSteps
<1>2. Fact(acc, one) /\ QueueFact(acc, one)
  BY <1>1 DEF Does, KeepsChain, KeepsPrograms, KeepsQueues, Sound
<1>3. Fact(one, two) /\ QueueFact(one, two)
  BY <1>1, <1>2 DEF Does, KeepsChain, KeepsPrograms, KeepsQueues, Fact, QueueFact
<1>4. Fact(two, next) /\ QueueFact(two, next)
  BY <1>1, <1>3 DEF Does, KeepsChain, KeepsPrograms, KeepsQueues, Fact, QueueFact
<1>5. Fact(acc, two) /\ QueueFact(acc, two)
  BY <1>2, <1>3, FactsGoOn DEF Sound
<1>6. Fact(acc, next) /\ QueueFact(acc, next)
  BY <1>4, <1>5, FactsGoOn DEF Sound
<1>7. DOMAIN one = DOMAIN acc \cup {f0} /\ \A a \in DOMAIN acc : one[a] = acc[a]
  <2>1. ClaimIsNew(p, o, acc, one)
    BY ClaimIsMade
  <2> QED BY <2>1 DEF ClaimIsNew
<1>8. DOMAIN two = DOMAIN one /\ \A a \in DOMAIN one : a # f0 => two[a] = one[a]
  BY ClaimIsAppended
<1>9. ChainInv(two) /\ f0 \in DOMAIN two
  BY <1>3, <1>7, <1>8 DEF Fact
<1>10. /\ DOMAIN next = DOMAIN two
       /\ \A a \in DOMAIN two : IsClaim(a) /\ a # f0 => next[a] = two[a]
       /\ next[f0] = [state |-> "final"]
       /\ mxe_acc(p) \in DOMAIN two /\ two[mxe_acc(p)].cluster = c
       /\ computation_acc(c, o) \in DOMAIN next /\ next[computation_acc(c, o)].stage = "final"
  BY <1>9, ClaimIsFinal
<1>11. f0[2] = p /\ f0[3] = o
  BY DEF failure_claim_acc
<1> HIDE DEF f0
<1>12. ClaimIsWhole(next, f0)
  <2>1. mxe_acc(p) \in DOMAIN next /\ next[mxe_acc(p)].cluster = c
    BY <1>4, <1>10 DEF Fact, Later
  <2> QED BY <2>1, <1>10, <1>11 DEF ClaimIsWhole
<1>13. ASSUME NEW a \in DOMAIN next, IsClaim(a), a # f0 PROVE ClaimIsWhole(next, a)
  <2>1. a \in DOMAIN acc /\ next[a] = acc[a]
    BY <1>7, <1>8, <1>10, <1>13
  <2>2. ClaimIsWhole(acc, a)
    BY <2>1, <1>13 DEF Sound, ClaimsInv
  <2> QED BY <2>1, <2>2, <1>6, <1>13, ClaimStays
<1>14. ClaimsInv(next)
  BY <1>12, <1>13 DEF ClaimsInv
<1> QED BY <1>6, <1>14 DEF Goes

-----------------------------------------------------------------------------
(* Transactions. *)

\* One instruction of a transaction, as Outcome has it.
RunStep(acc, tx, n, r) ==
  LET refusal == Refusal(r.acc, tx.ixs[n])
  IN  IF r.refusal # "none" THEN r
      ELSE [refusal |-> refusal,
            acc |-> IF refusal = "none" THEN Executed(r.acc, tx.ixs[n]) ELSE acc]

Start(acc) == [refusal |-> "none", acc |-> acc]

IsRun(f, acc, tx, k) ==
  f = [n \in 0 .. k |-> IF n = 0 THEN Start(acc) ELSE RunStep(acc, tx, n, f[n - 1])]

\* The chain after each number of instructions is defined.
LEMMA RunExists == ASSUME NEW acc, NEW tx, NEW N \in Nat PROVE \E f : IsRun(f, acc, tx, N)
<1> DEFINE T == {k \in Nat : \E f : IsRun(f, acc, tx, k)}
<1>1. 0 \in T
  <2>1. IsRun([n \in 0 .. 0 |-> Start(acc)], acc, tx, 0)
    BY DEF IsRun
  <2> QED BY <2>1
<1>2. ASSUME NEW k \in T PROVE k + 1 \in T
  <2>1. PICK f : IsRun(f, acc, tx, k)
    OBVIOUS
  <2> DEFINE g == [n \in 0 .. k + 1 |-> IF n = k + 1 THEN RunStep(acc, tx, k + 1, f[k]) ELSE f[n]]
             h == [n \in 0 .. k + 1 |-> IF n = 0 THEN Start(acc) ELSE RunStep(acc, tx, n, g[n - 1])]
  <2>2. ASSUME NEW n \in 0 .. k + 1 PROVE g[n] = h[n]
    <3>1. CASE n = k + 1
      BY <3>1
    <3>2. CASE n = 0
      BY <3>2, <2>1 DEF IsRun
    <3>3. CASE n \in 1 .. k
      <4>1. n - 1 \in 0 .. k /\ n \in 0 .. k /\ n - 1 # k + 1 /\ n # k + 1
        BY <3>3
      <4>2. f[n] = RunStep(acc, tx, n, f[n - 1])
        BY <4>1, <3>3, <2>1 DEF IsRun
      <4> QED BY <4>1, <4>2, <3>3
    <3> QED BY <3>1, <3>2, <3>3
  <2>3. g = h
    BY <2>2
  <2> HIDE DEF g
  <2>4. IsRun(g, acc, tx, k + 1)
    BY <2>3 DEF IsRun
  <2> QED BY <2>4
<1> HIDE DEF T
<1>3. T = Nat
  BY <1>1, <1>2, Ind DEF T
<1> QED BY <1>3 DEF T

RunsTo(acc, tx, N, f) ==
  /\ f[0] = Start(acc)
  /\ \A n \in 1 .. N : f[n] = RunStep(acc, tx, n, f[n - 1])
  /\ Outcome(acc, tx) = IF SignedRight(tx) THEN f[N] ELSE [refusal |-> "signature", acc |-> acc]

\* What becomes of a transaction.
LEMMA OutcomeRuns ==
  ASSUME NEW acc, NEW tx, Len(tx.ixs) \in Nat PROVE \E f : RunsTo(acc, tx, Len(tx.ixs), f)
<1> DEFINE N == Len(tx.ixs)
           run == CHOOSE f : IsRun(f, acc, tx, N)
<1>1. IsRun(run, acc, tx, N)
  BY RunExists
<1>2. Outcome(acc, tx) = IF SignedRight(tx) THEN run[N] ELSE [refusal |-> "signature", acc |-> acc]
  BY DEF Outcome, IsRun, RunStep, Start
<1> HIDE DEF run, N
<1>3. N \in Nat
  BY DEF N
<1>4. run = [n \in 0 .. N |-> IF n = 0 THEN Start(acc) ELSE RunStep(acc, tx, n, run[n - 1])]
  BY <1>1 DEF IsRun
<1>5. run[0] = Start(acc) /\ \A n \in 1 .. N : run[n] = RunStep(acc, tx, n, run[n - 1])
  <2>1. \A n \in 1 .. N : n \in 0 .. N /\ n # 0
    OBVIOUS
  <2>2. 0 \in 0 .. N
    BY <1>3
  <2>3. \A n \in 0 .. N : run[n] = IF n = 0 THEN Start(acc) ELSE RunStep(acc, tx, n, run[n - 1])
    BY <1>4
  <2> HIDE DEF RunStep
  <2> QED BY <2>1, <2>2, <2>3
<1> QED BY <1>2, <1>5 DEF N, RunsTo

\* Whatever becomes of a transaction, the chain goes on as it should be.
SafeTx(tx) == \A acc : Sound(acc) => Goes(acc, Outcome(acc, tx).acc)

\* A transaction of safe instructions is safe, whichever of them is refused.
LEMMA AllSafe ==
  ASSUME NEW ixs, NEW keys, Len(ixs) \in Nat, \A n \in 1 .. Len(ixs) : Safe(ixs[n])
  PROVE  SafeTx(Tx(ixs, keys))
<1> DEFINE tx == Tx(ixs, keys)
           N == Len(ixs)
<1> SUFFICES ASSUME NEW acc, Sound(acc) PROVE Goes(acc, Outcome(acc, tx).acc)
  BY DEF SafeTx
<1>1. tx.ixs = ixs
  BY DEF Tx
<1> HIDE DEF tx
<1>r. Len(tx.ixs) = N /\ N \in Nat
  BY <1>1
<1> HIDE DEF N
<1>c. \E f : RunsTo(acc, tx, Len(tx.ixs), f)
  BY <1>r, OutcomeRuns
<1>2. PICK f : /\ f[0] = Start(acc)
               /\ \A n \in 1 .. N : f[n] = RunStep(acc, tx, n, f[n - 1])
               /\ Outcome(acc, tx) = IF SignedRight(tx) THEN f[N]
                                     ELSE [refusal |-> "signature", acc |-> acc]
  BY <1>r, <1>c DEF RunsTo
<1> USE DEF N
<1> DEFINE T == {n \in Nat : n <= N => Goes(acc, f[n].acc)}
<1>3. 0 \in T
  BY <1>2, GoesItself DEF Start
<1>4. ASSUME NEW n \in T PROVE n + 1 \in T
  <2> SUFFICES ASSUME n + 1 <= N PROVE Goes(acc, f[n + 1].acc)
    OBVIOUS
  <2>1. n + 1 \in 1 .. N /\ (n + 1) - 1 = n /\ Goes(acc, f[n].acc)
    OBVIOUS
  <2> DEFINE r == f[n]
             ix == ixs[n + 1]
  <2>2. f[n + 1] = RunStep(acc, tx, n + 1, r) /\ Safe(ix)
    BY <2>1, <1>2
  <2>3. tx.ixs[n + 1] = ix
    BY <1>1
  <2>4. Goes(acc, r.acc)
    BY <2>1
  <2> HIDE DEF r, ix
  <2>5. CASE r.refusal # "none"
    BY <2>2, <2>4, <2>5 DEF RunStep
  <2>6. CASE r.refusal = "none" /\ Refusal(r.acc, ix) # "none"
    <3>1. f[n + 1].acc = acc
      BY <2>2, <2>3, <2>6 DEF RunStep
    <3> QED BY <3>1, GoesItself
  <2>7. CASE r.refusal = "none" /\ Refusal(r.acc, ix) = "none"
    <3>1. f[n + 1].acc = Executed(r.acc, ix)
      BY <2>2, <2>3, <2>7 DEF RunStep
    <3>2. Goes(r.acc, Executed(r.acc, ix))
      BY <2>2, <2>4, <2>7, SafeGoes, GoesIsSound
    <3> QED BY <3>1, <3>2, <2>4, GoesOn
  <2> QED BY <2>5, <2>6, <2>7
<1>5. T = Nat
  <2> HIDE DEF T
  <2>1. T \in SUBSET Nat
    BY DEF T
  <2> QED BY <2>1, <1>3, <1>4, Ind
<1>6. Goes(acc, f[N].acc)
  BY <1>5
<1> QED BY <1>2, <1>6, GoesItself

\* Transactions of one instruction.
LEMMA OneSafe == ASSUME NEW ix, NEW keys, Safe(ix) PROVE SafeTx(Tx(<<ix>>, keys))
BY AllSafe

\* Of two.
LEMMA TwoSafe ==
  ASSUME NEW ix, NEW jx, NEW keys, Safe(ix), Safe(jx) PROVE SafeTx(Tx(<<ix, jx>>, keys))
<1>1. Len(<<ix, jx>>) = 2 /\ \A n \in 1 .. 2 : Safe(<<ix, jx>>[n])
  OBVIOUS
<1> QED BY <1>1, AllSafe

\* Of one instruction, signed by one wallet.
LEMMA SingleSafe == ASSUME NEW ix, NEW w, Safe(ix) PROVE SafeTx(Single(ix, w))
BY OneSafe DEF Single

\* A program is made with all of its accounts, or not at all.
LEMMA ProgramIsMade ==
  ASSUME NEW s, NEW p, NEW k, NEW r, NEW c, NEW slot
  PROVE  SafeTx(init_mxe(s, p, k, r, c, slot))
<1> DEFINE tx == init_mxe(s, p, k, r, c, slot)
           ix == init_mxe_part1_ix(s, p)
           jx == init_mxe_part2_ix(s, p, c, k, r, slot)
<1> SUFFICES ASSUME NEW acc, Sound(acc) PROVE Goes(acc, Outcome(acc, tx).acc)
  BY DEF SafeTx
<1>1. tx.ixs = <<ix, jx>>
  BY DEF init_mxe, Tx
<1> HIDE DEF tx, ix, jx
<1>2. Len(tx.ixs) = 2 /\ tx.ixs[1] = ix /\ tx.ixs[2] = jx
  BY <1>1
<1>r. Len(tx.ixs) = 2 /\ Len(tx.ixs) \in Nat
  BY <1>2
<1>c. \E f : RunsTo(acc, tx, Len(tx.ixs), f)
  BY <1>r, OutcomeRuns
<1>3. PICK f : /\ f[0] = Start(acc)
               /\ \A n \in 1 .. 2 : f[n] = RunStep(acc, tx, n, f[n - 1])
               /\ Outcome(acc, tx) = IF SignedRight(tx) THEN f[2]
                                     ELSE [refusal |-> "signature", acc |-> acc]
  BY <1>r, <1>c DEF RunsTo
<1>4. f[1] = RunStep(acc, tx, 1, f[0]) /\ f[2] = RunStep(acc, tx, 2, f[1])
  BY <1>3
<1>5. f[1] = [refusal |-> Refusal(acc, ix),
              acc |-> IF Refusal(acc, ix) = "none" THEN Executed(acc, ix) ELSE acc]
  BY <1>2, <1>3, <1>4 DEF RunStep, Start
<1>6. CASE Refusal(acc, ix) # "none"
  <2>1. f[2].acc = acc
    BY <1>4, <1>5, <1>6 DEF RunStep
  <2> QED BY <2>1, <1>3, GoesItself
<1>7. CASE Refusal(acc, ix) = "none"
  <2> DEFINE mid == Executed(acc, ix)
  <2>1. f[1].refusal = "none" /\ f[1].acc = mid
    BY <1>5, <1>7
  <2> HIDE DEF mid
  <2>2. f[2].acc = IF Refusal(mid, jx) = "none" THEN Executed(mid, jx) ELSE acc
    BY <2>1, <1>2, <1>4 DEF RunStep
  <2>3. ASSUME Refusal(mid, jx) = "none" PROVE Goes(acc, Executed(mid, jx))
    <3>1. Does(acc, ix, mid) /\ Does(mid, jx, Executed(mid, jx))
      BY <1>7, <2>3 DEF Does, mid
    <3> QED BY <3>1, BothPartsGo DEF ix, jx
  <2>4. Goes(acc, f[2].acc)
    BY <2>2, <2>3, GoesItself
  <2> QED BY <2>4, <1>3, GoesItself
<1> QED BY <1>6, <1>7

\* A claim is made with all of its data, and ends its computation, or not at all.
LEMMA ClaimSafe ==
  ASSUME NEW s, NEW p \in Programs, NEW c, NEW d, NEW o, NEW n, NEW len, NEW k, NEW keys
  PROVE  SafeTx(Tx(<<claim_failure_init_ix(s, p, c, d, o, n, len),
                     claim_failure_append_ix(s, p, o, len, k),
                     claim_failure_finalize_ix(s, p, c, o, n)>>, keys))
<1> DEFINE ix == claim_failure_init_ix(s, p, c, d, o, n, len)
           jx == claim_failure_append_ix(s, p, o, len, k)
           kx == claim_failure_finalize_ix(s, p, c, o, n)
           tx == Tx(<<ix, jx, kx>>, keys)
<1> SUFFICES ASSUME NEW acc, Sound(acc) PROVE Goes(acc, Outcome(acc, tx).acc)
  BY DEF SafeTx
<1>1. tx.ixs = <<ix, jx, kx>>
  BY DEF Tx
<1> HIDE DEF tx, ix, jx, kx
<1>2. Len(tx.ixs) = 3 /\ tx.ixs[1] = ix /\ tx.ixs[2] = jx /\ tx.ixs[3] = kx
  BY <1>1
<1>r. Len(tx.ixs) = 3 /\ Len(tx.ixs) \in Nat
  BY <1>2
<1>c. \E f : RunsTo(acc, tx, Len(tx.ixs), f)
  BY <1>r, OutcomeRuns
<1>3. PICK f : /\ f[0] = Start(acc)
               /\ \A m \in 1 .. 3 : f[m] = RunStep(acc, tx, m, f[m - 1])
               /\ Outcome(acc, tx) = IF SignedRight(tx) THEN f[3]
                                     ELSE [refusal |-> "signature", acc |-> acc]
  BY <1>r, <1>c DEF RunsTo
<1>4. /\ f[1] = RunStep(acc, tx, 1, f[0]) /\ f[2] = RunStep(acc, tx, 2, f[1])
      /\ f[3] = RunStep(acc, tx, 3, f[2])
  BY <1>3
<1> DEFINE one == Executed(acc, ix)
           two == Executed(one, jx)
           next == Executed(two, kx)
<1>5. \/ f[1].refusal # "none" /\ f[1].acc = acc
      \/ f[1].refusal = "none" /\ f[1].acc = one /\ Refusal(acc, ix) = "none"
  <2> HIDE DEF one
  <2> QED BY <1>2, <1>3, <1>4 DEF RunStep, Start, one
<1> HIDE DEF one
<1>6. \/ f[2].refusal # "none" /\ f[2].acc = acc
      \/ /\ f[2].refusal = "none" /\ f[2].acc = two
         /\ Refusal(acc, ix) = "none" /\ Refusal(one, jx) = "none"
  BY <1>2, <1>4, <1>5 DEF RunStep
<1> HIDE DEF two
<1>7. \/ f[3].acc = acc
      \/ /\ f[3].acc = next
         /\ Refusal(acc, ix) = "none" /\ Refusal(one, jx) = "none" /\ Refusal(two, kx) = "none"
  BY <1>2, <1>4, <1>6 DEF RunStep
<1> HIDE DEF next
<1>8. CASE f[3].acc = acc
  BY <1>3, <1>8, GoesItself
<1>9. CASE f[3].acc # acc
  <2>1. Does(acc, ix, one) /\ Does(one, jx, two) /\ Does(two, kx, next)
    BY <1>7, <1>9 DEF Does, one, two, next
  <2>2. Goes(acc, next)
    BY <2>1, AllPartsGo DEF ix, jx, kx
  <2> QED BY <2>2, <1>3, <1>7, <1>9, GoesItself
<1> QED BY <1>8, <1>9

-----------------------------------------------------------------------------
(* Setting up. *)

IsChain(f, acc, txs, k) ==
  f = [n \in 0 .. k |-> IF n = 0 THEN acc ELSE Outcome(f[n - 1], txs[n]).acc]

\* The chain after each number of transactions is defined.
LEMMA ChainExists == ASSUME NEW acc, NEW txs, NEW N \in Nat PROVE \E f : IsChain(f, acc, txs, N)
<1> DEFINE T == {k \in Nat : \E f : IsChain(f, acc, txs, k)}
<1>1. 0 \in T
  <2>1. IsChain([n \in 0 .. 0 |-> acc], acc, txs, 0)
    BY DEF IsChain
  <2> QED BY <2>1
<1>2. ASSUME NEW k \in T PROVE k + 1 \in T
  <2>1. PICK f : IsChain(f, acc, txs, k)
    OBVIOUS
  <2> DEFINE g == [n \in 0 .. k + 1 |-> IF n = k + 1 THEN Outcome(f[k], txs[k + 1]).acc ELSE f[n]]
             h == [n \in 0 .. k + 1 |-> IF n = 0 THEN acc ELSE Outcome(g[n - 1], txs[n]).acc]
  <2>2. ASSUME NEW n \in 0 .. k + 1 PROVE g[n] = h[n]
    <3>1. CASE n = k + 1
      BY <3>1
    <3>2. CASE n = 0
      BY <3>2, <2>1 DEF IsChain
    <3>3. CASE n \in 1 .. k
      <4>1. n - 1 \in 0 .. k /\ n \in 0 .. k /\ n - 1 # k + 1 /\ n # k + 1
        BY <3>3
      <4>2. f[n] = Outcome(f[n - 1], txs[n]).acc
        BY <4>1, <3>3, <2>1 DEF IsChain
      <4> QED BY <4>1, <4>2, <3>3
    <3> QED BY <3>1, <3>2, <3>3
  <2>3. g = h
    BY <2>2
  <2> HIDE DEF g
  <2>4. IsChain(g, acc, txs, k + 1)
    BY <2>3 DEF IsChain
  <2> QED BY <2>4
<1> HIDE DEF T
<1>3. T = Nat
  BY <1>1, <1>2, Ind DEF T
<1> QED BY <1>3 DEF T

\* Transactions one after the other keep a chain as it should be.
LEMMA AfterSafe ==
  ASSUME NEW acc, Sound(acc), NEW txs, Len(txs) \in Nat, \A n \in 1 .. Len(txs) : SafeTx(txs[n])
  PROVE  Sound(After(acc, txs))
<1> DEFINE N == Len(txs)
           f == CHOOSE g : IsChain(g, acc, txs, N)
<1>1. IsChain(f, acc, txs, N)
  BY ChainExists
<1>2. After(acc, txs) = f[N]
  BY DEF After, IsChain
<1> HIDE DEF f
<1>3. f[0] = acc /\ \A n \in 1 .. N : f[n] = Outcome(f[n - 1], txs[n]).acc
  BY <1>1 DEF IsChain
<1> DEFINE T == {n \in Nat : n <= N => Sound(f[n])}
<1>4. 0 \in T
  BY <1>3
<1>5. ASSUME NEW n \in T PROVE n + 1 \in T
  <2> SUFFICES ASSUME n + 1 <= N PROVE Sound(f[n + 1])
    OBVIOUS
  <2>1. n + 1 \in 1 .. N /\ (n + 1) - 1 = n /\ Sound(f[n])
    OBVIOUS
  <2> QED BY <2>1, <1>3 DEF SafeTx, Goes, Sound, Fact, QueueFact
<1>6. T = Nat
  <2> HIDE DEF T
  <2>1. T \in SUBSET Nat
    BY DEF T
  <2> QED BY <2>1, <1>4, <1>5, Ind
<1>7. Sound(f[N])
  BY <1>6
<1> QED BY <1>2, <1>7

\* The transactions of a finite set, in some order.
LEMMA SomeOrder ==
  ASSUME NEW S, IsFiniteSet(S)
  PROVE  Len(SetToSeq(S)) \in Nat /\ \A n \in 1 .. Len(SetToSeq(S)) : SetToSeq(S)[n] \in S
<1>1. PICK n \in Nat : ExistsBijection(1 .. n, S)
  BY FS_NatBijection
<1>2. Cardinality(S) = n
  BY <1>1, FS_CountingElements
<1>3. PICK f \in [1 .. n -> S] : IsInjective(f)
  BY <1>1 DEF ExistsBijection, Bijection, Injection, IsInjective
<1>4. SetToSeq(S) \in [1 .. n -> S]
  BY <1>2, <1>3 DEF SetToSeq
<1>5. SetToSeq(S) \in Seq(S)
  BY <1>4
<1> QED BY <1>4, <1>5

\* The transactions that set things up.
LEMMA SetUpTransactions ==
  ASSUME NEW s, NEW w, NEW n, NEW c, NEW p
  PROVE  /\ SafeTx(init_network_program(s)) /\ SafeTx(init_node_operator_acc(s))
         /\ SafeTx(init_cluster(s, w, c)) /\ SafeTx(init_arx_node_acc(s, w, n))
         /\ SafeTx(Single(activate_arx_ix(s, n), s)) /\ SafeTx(propose_join_cluster(s, c, n))
         /\ SafeTx(join_cluster(s, c, n, TRUE)) /\ SafeTx(join_cluster(s, c, n, FALSE))
         /\ SafeTx(activate_cluster(s, c)) /\ SafeTx(finalize_mxe_keys(s, p, c))
<1>1. SafeTx(init_network_program(s)) /\ SafeTx(init_node_operator_acc(s))
  BY QuietInstructions, SingleSafe DEF init_network_program, init_node_operator_acc
<1>2. SafeTx(init_cluster(s, w, c))
  BY ClusterIsMade, SingleSafe DEF init_cluster
<1>3. SafeTx(init_arx_node_acc(s, w, n))
  BY NodeIsMade, OneSafe DEF init_arx_node_acc
<1>4. SafeTx(Single(activate_arx_ix(s, n), s))
  BY NodeIsActivated, SingleSafe
<1>5. SafeTx(propose_join_cluster(s, c, n))
  BY NodeIsProposed, SingleSafe DEF propose_join_cluster
<1>6. SafeTx(join_cluster(s, c, n, TRUE)) /\ SafeTx(join_cluster(s, c, n, FALSE))
  BY NodeJoins, SingleSafe DEF join_cluster
<1>7. SafeTx(activate_cluster(s, c))
  BY ClusterActivity, SingleSafe DEF activate_cluster
<1>8. SafeTx(finalize_mxe_keys(s, p, c))
  BY ProgramSteps, SingleSafe DEF finalize_mxe_keys
<1> QED BY <1>1, <1>2, <1>3, <1>4, <1>5, <1>6, <1>7, <1>8

\* A chain with nothing on it.
LEMMA EmptyChain == Sound(<<>>)
<1>1. DOMAIN <<>> = {}
  OBVIOUS
<1> QED BY <1>1 DEF Sound, ChainInv, FieldsKept, MembersKept, Whole, QueueInv, ClaimsInv

\* The network without clusters.
LEMMA NetworkSafe == Sound(Network)
<1> DEFINE txs == <<init_network_program(Operator), init_node_operator_acc(Operator)>>
<1>a. SafeTx(init_network_program(Operator)) /\ SafeTx(init_node_operator_acc(Operator))
  BY SetUpTransactions
<1>1. \A n \in 1 .. 2 : SafeTx(txs[n])
  BY <1>a
<1>2. Len(txs) = 2
  OBVIOUS
<1> HIDE DEF txs
<1>3. Sound(After(<<>>, txs))
  BY <1>1, <1>2, EmptyChain, AfterSafe
<1> QED BY <1>3 DEF Network, txs

\* A cluster of one active node.
LEMMA OneClusterSafe == Sound(OneCluster)
<1> DEFINE txs == <<init_cluster(Operator, Operator, TheCluster),
                    init_arx_node_acc(Operator, Operator, TheNode),
                    Single(activate_arx_ix(Operator, TheNode), Operator),
                    propose_join_cluster(Operator, TheCluster, TheNode),
                    join_cluster(Operator, TheCluster, TheNode, TRUE),
                    activate_cluster(Operator, TheCluster)>>
<1>1. Len(txs) = 6
  OBVIOUS
<1>2. \A n \in 1 .. 6 : SafeTx(txs[n])
  <2>1. SafeTx(txs[1]) /\ SafeTx(txs[2]) /\ SafeTx(txs[3]) /\ SafeTx(txs[4]) /\ SafeTx(txs[5]) /\ SafeTx(txs[6])
    BY SetUpTransactions
  <2> HIDE DEF txs
  <2>2. \A n \in 1 .. 6 : n = 1 \/ n = 2 \/ n = 3 \/ n = 4 \/ n = 5 \/ n = 6
    OBVIOUS
  <2> QED BY <2>1, <2>2
<1> HIDE DEF txs
<1>3. Sound(After(Network, txs))
  BY <1>1, <1>2, NetworkSafe, AfterSafe
<1> QED BY <1>3 DEF OneCluster, txs

\* The other clusters and nodes, made in any order.
LEMMA TwoClustersSafe == Sound(TwoClusters)
<1> DEFINE A == {init_arx_node_acc(Operator, Operator, n) : n \in Nodes \ {TheNode}}
           B == {init_cluster(Operator, Operator, c) : c \in Clusters \ {TheCluster}}
<1>1. IsFiniteSet(A) /\ IsFiniteSet(B)
  <2>1. IsFiniteSet(Nodes \ {TheNode}) /\ IsFiniteSet(Clusters \ {TheCluster})
    BY NetworkAssumption, FS_Subset
  <2>2. IsFiniteSet({init_arx_node_acc(Operator, Operator, n) : n \in Nodes \ {TheNode}})
    <3> DEFINE f == [n \in Nodes \ {TheNode} |-> init_arx_node_acc(Operator, Operator, n)]
    <3>1. f \in Surjection(Nodes \ {TheNode}, A)
      BY DEF Surjection
    <3> QED BY <3>1, <2>1, FS_Surjection
  <2>3. IsFiniteSet({init_cluster(Operator, Operator, c) : c \in Clusters \ {TheCluster}})
    <3> DEFINE f == [c \in Clusters \ {TheCluster} |-> init_cluster(Operator, Operator, c)]
    <3>1. f \in Surjection(Clusters \ {TheCluster}, B)
      BY DEF Surjection
    <3> QED BY <3>1, <2>1, FS_Surjection
  <2> QED BY <2>2, <2>3
<1>2. \A tx \in A \cup B : SafeTx(tx)
  BY SetUpTransactions
<1> HIDE DEF A, B
<1>3. IsFiniteSet(A \cup B)
  BY <1>1, FS_Union
<1>4. Sound(After(OneCluster, SetToSeq(A \cup B)))
  <2> DEFINE txs == SetToSeq(A \cup B)
  <2>1. Len(txs) \in Nat /\ \A n \in 1 .. Len(txs) : txs[n] \in A \cup B
    BY <1>3, SomeOrder
  <2> HIDE DEF txs
  <2>2. Sound(After(OneCluster, txs))
    BY <1>2, <2>1, OneClusterSafe, AfterSafe
  <2> QED BY <2>2 DEF txs
<1> QED BY <1>4 DEF TwoClusters, A, B

\* Two programs whose own computations have ended.
LEMMA ProgramsSafe == Sound(TwoPrograms)
<1> DEFINE txs == <<InitMxe(Original, TheCluster), InitMxe(Backup, TheCluster)>>
<1>1. Len(txs) = 2 /\ \A n \in 1 .. 2 : SafeTx(txs[n])
  BY ProgramIsMade DEF InitMxe
<1> HIDE DEF txs
<1>2. Sound(After(OneCluster, txs))
  BY <1>1, OneClusterSafe, AfterSafe
<1> DEFINE acc == After(OneCluster, txs)
           next == AllEnded(acc)
<1>3. TwoPrograms = next
  BY DEF TwoPrograms, txs
<1> HIDE DEF acc
<1>4. DOMAIN next = DOMAIN acc
  BY DEF AllEnded
<1>5. ASSUME NEW a \in DOMAIN acc, a[1] \in Watched
      PROVE  \/ next[a] = acc[a]
             \/ a[1] = "ComputationAccount" /\ next[a] = [acc[a] EXCEPT !.stage = "final"]
  <2>1. mempool_acc(TheCluster)[1] = "Mempool"
    BY DEF mempool_acc
  <2> QED BY <1>5, <2>1 DEF AllEnded, Watched
<1>6. Sound(acc)
  BY <1>2 DEF acc
<1>7. ASSUME NEW a \in DOMAIN acc, a[1] = "ComputationAccount" PROVE SameComputation(acc[a], next[a])
  <2>1. DOMAIN acc[a] = {"mxe", "def", "stage"}
    BY <1>6, <1>7 DEF Sound, ChainInv, FieldsKept
  <2>2. next[a] = acc[a] \/ next[a] = [acc[a] EXCEPT !.stage = "final"]
    BY <1>5, <1>7 DEF Watched
  <2> QED BY <2>1, <2>2 DEF SameComputation
<1>q. QueueInv(next)
  BY <1>6, EndedKeepsQueues DEF Sound
<1>m. \A a \in DOMAIN acc : IsClaim(a) => next[a] = acc[a]
  <2>1. mempool_acc(TheCluster)[1] = "Mempool"
    BY QueueAddresses
  <2> QED BY <2>1 DEF AllEnded, IsClaim
<1> HIDE DEF next
<1>8. Keeps(acc, next)
  BY <1>4, <1>5, <1>7 DEF Keeps, SameComputation, Watched
<1>9. Fact(acc, next)
  BY <1>6, <1>8, KeepsIsSafe DEF Sound
<1>10. QueueFact(acc, next)
  <2>1. ASSUME NEW a \in DOMAIN acc, a[1] = "ComputationAccount", acc[a].stage = "final"
        PROVE  next[a].stage = "final"
    <3>1. DOMAIN acc[a] = {"mxe", "def", "stage"}
      BY <1>6, <2>1 DEF Sound, ChainInv, FieldsKept
    <3>2. next[a] = acc[a] \/ next[a] = [acc[a] EXCEPT !.stage = "final"]
      BY <1>5, <2>1 DEF Watched
    <3> QED BY <3>1, <3>2, <2>1
  <2> QED BY <2>1, <1>q, <1>4 DEF QueueFact, EndedStay
<1>11. ClaimsInv(next)
  BY <1>4, <1>6, <1>9, <1>10, <1>m, ClaimsStay DEF Sound, NoNewClaims
<1> QED BY <1>3, <1>9, <1>10, <1>11 DEF Sound, Fact, QueueFact

\* Their definitions.
LEMMA DefinitionSafe ==
  ASSUME NEW acc, Sound(acc), NEW p PROVE Sound(After(acc, CompleteDefinition(p)))
<1> DEFINE txs == CompleteDefinition(p)
<1>1. Len(txs) = 3 /\ \A n \in 1 .. 3 : SafeTx(txs[n])
  <2>1. /\ SafeTx(init_computation_definition(Operator, AnyDef, p, 0))
        /\ SafeTx(Single(init_raw_circuit_acc_ix(Operator, AnyDef, p, 0), Operator))
        /\ SafeTx(Single(finalize_computation_definition_ix(Operator, AnyDef, p), Operator))
    BY QuietInstructions, SingleSafe DEF init_computation_definition
  <2> QED BY <2>1 DEF CompleteDefinition
<1> HIDE DEF txs
<1>2. Sound(After(acc, txs))
  BY <1>1, AfterSafe
<1> QED BY <1>2 DEF txs

\* Every topic starts with a chain as it should be.
LEMMA SetUpSafe ==
  ASSUME NEW t \in {"nodes", "discovery", "programs", "computations", "keys", "recovery", "staking"}
  PROVE  Sound(SetUp(t))
<1>1. CASE t = "nodes"
  <2> DEFINE txs == <<init_cluster(Operator, Operator, TheCluster)>>
  <2>a. SafeTx(init_cluster(Operator, Operator, TheCluster))
    BY SetUpTransactions
  <2>1. Len(txs) = 1 /\ \A n \in 1 .. 1 : SafeTx(txs[n])
    BY <2>a
  <2> HIDE DEF txs
  <2>2. Sound(After(Network, txs))
    BY <2>1, NetworkSafe, AfterSafe
  <2> QED BY <1>1, <2>2 DEF SetUp, txs
<1>2. CASE t = "recovery"
  <2> DEFINE txs == <<finalize_mxe_keys(Operator, Original, TheCluster),
                      finalize_mxe_keys(Operator, Backup, TheCluster)>>
  <2>a. SafeTx(finalize_mxe_keys(Operator, Original, TheCluster))
        /\ SafeTx(finalize_mxe_keys(Operator, Backup, TheCluster))
    BY SetUpTransactions
  <2>1. Len(txs) = 2 /\ \A n \in 1 .. 2 : SafeTx(txs[n])
    BY <2>a
  <2> HIDE DEF txs
  <2>2. Sound(After(TwoPrograms, txs))
    BY <2>1, ProgramsSafe, AfterSafe
  <2> QED BY <1>2, <2>2 DEF SetUp, txs
<1>3. CASE t = "computations"
  BY <1>3, ProgramsSafe, DefinitionSafe DEF SetUp, ReadyToCompute
<1>4. CASE t \in {"programs", "keys"}
  BY <1>4, OneClusterSafe DEF SetUp
<1>5. CASE t = "discovery"
  BY <1>5, TwoClustersSafe DEF SetUp
<1>6. CASE t = "staking"
  BY <1>6, EmptyChain DEF SetUp
<1> QED BY <1>1, <1>2, <1>3, <1>4, <1>5, <1>6

-----------------------------------------------------------------------------
(* The transactions of every topic. *)

\* What is sent about nodes and clusters.
LEMMA NodeAndClusterTransactions ==
  ASSUME NEW s, NEW w, NEW n, NEW c, NEW d, NEW join
  PROVE  /\ SafeTx(set_arx_node_metadata(s, n)) /\ SafeTx(Single(set_arx_node_config_ix(s, n), s))
         /\ SafeTx(Single(deactivate_arx_ix(s, n, d), s))
         /\ SafeTx(submit_aggregated_bls_pubkey(s, c, n)) /\ SafeTx(propose_fee(s, c, n))
         /\ SafeTx(vote_fee(s, c, n)) /\ SafeTx(claim_node_fees(s, c, n, w))
         /\ SafeTx(join_cluster(s, c, n, join)) /\ SafeTx(increase_mempool_size(s, c))
         /\ SafeTx(Single(set_cluster_authority_ix(s, c), s))
         /\ SafeTx(Tx(<<bump_epoch_cluster_ix(c), update_current_epoch_idempotent_ix>>, {}))
         /\ SafeTx(Single(deactivate_cluster_ix(s, c), s))
<1>1. /\ Safe(set_arx_node_metadata_ix(s, n)) /\ Safe(set_arx_node_config_ix(s, n))
      /\ Safe(submit_aggregated_bls_pubkey_ix(s, c, n)) /\ Safe(propose_fee_ix(s, c, n))
      /\ Safe(vote_fee_ix(s, c, n)) /\ Safe(claim_node_fees_ix(s, c, n, w))
      /\ Safe(increase_mempool_size_ix(s, c)) /\ Safe(set_cluster_authority_ix(s, c))
      /\ Safe(bump_epoch_cluster_ix(c)) /\ Safe(update_current_epoch_idempotent_ix)
  BY NoEffect DEF set_arx_node_metadata_ix, set_arx_node_config_ix, submit_aggregated_bls_pubkey_ix,
                  propose_fee_ix, vote_fee_ix, claim_node_fees_ix, increase_mempool_size_ix,
                  set_cluster_authority_ix, bump_epoch_cluster_ix,
                  update_current_epoch_idempotent_ix, Ix
<1>2. /\ SafeTx(set_arx_node_metadata(s, n)) /\ SafeTx(Single(set_arx_node_config_ix(s, n), s))
      /\ SafeTx(Single(set_cluster_authority_ix(s, c), s))
  BY <1>1, SingleSafe DEF set_arx_node_metadata
<1>3. /\ SafeTx(submit_aggregated_bls_pubkey(s, c, n)) /\ SafeTx(propose_fee(s, c, n))
      /\ SafeTx(vote_fee(s, c, n))
  BY <1>1, SingleSafe DEF submit_aggregated_bls_pubkey, propose_fee, vote_fee
<1>4. SafeTx(claim_node_fees(s, c, n, w)) /\ SafeTx(increase_mempool_size(s, c))
  BY <1>1, SingleSafe DEF claim_node_fees, increase_mempool_size
<1>5. SafeTx(join_cluster(s, c, n, join))
  BY NodeJoins, SingleSafe DEF join_cluster
<1>6. SafeTx(Single(deactivate_arx_ix(s, n, d), s)) /\ SafeTx(Single(deactivate_cluster_ix(s, c), s))
  BY NodeIsDeactivated, ClusterActivity, SingleSafe
<1>7. SafeTx(Tx(<<bump_epoch_cluster_ix(c), update_current_epoch_idempotent_ix>>, {}))
  BY <1>1, TwoSafe
<1> QED BY <1>2, <1>3, <1>4, <1>5, <1>6, <1>7

\* The same, one by one.
OperatorsTransactions ==
  /\ \A w, n : SafeTx(init_arx_node_acc(Operator, w, n))
  /\ \A n : SafeTx(Single(activate_arx_ix(Operator, n), Operator))
  /\ \A n : SafeTx(set_arx_node_metadata(Operator, n)) /\ SafeTx(Single(set_arx_node_config_ix(Operator, n), Operator))
  /\ \A n, d : SafeTx(Single(deactivate_arx_ix(Operator, n, d), Operator))
  /\ \A c, n : SafeTx(submit_aggregated_bls_pubkey(Operator, c, n)) /\ SafeTx(propose_fee(Operator, c, n))
  /\ \A c, n : SafeTx(vote_fee(Operator, c, n)) /\ SafeTx(propose_join_cluster(Operator, c, n))
  /\ \A c, n, w : SafeTx(claim_node_fees(Operator, c, n, w))
  /\ \A c, n, join : SafeTx(join_cluster(Operator, c, n, join))
  /\ \A c, w : SafeTx(init_cluster(Operator, w, c))
  /\ \A c : SafeTx(increase_mempool_size(Operator, c)) /\ SafeTx(Single(set_cluster_authority_ix(Operator, c), Operator))
  /\ \A c : SafeTx(Tx(<<bump_epoch_cluster_ix(c), update_current_epoch_idempotent_ix>>, {}))
  /\ \A c : SafeTx(activate_cluster(Operator, c)) /\ SafeTx(Single(deactivate_cluster_ix(Operator, c), Operator))
  /\ \A p, k, r, c : SafeTx(init_mxe(Operator, p, k, r, c, 0))
  /\ \A p, c : SafeTx(finalize_mxe_keys(Operator, p, c))

\* Each of them is safe.
LEMMA OperatorsAreSafe == OperatorsTransactions
<1>1. \A w, n : SafeTx(init_arx_node_acc(Operator, w, n))
  BY SetUpTransactions, NodeAndClusterTransactions
<1>2. \A n : SafeTx(Single(activate_arx_ix(Operator, n), Operator))
  BY SetUpTransactions, NodeAndClusterTransactions
<1>3. \A n : SafeTx(set_arx_node_metadata(Operator, n)) /\ SafeTx(Single(set_arx_node_config_ix(Operator, n), Operator))
  BY SetUpTransactions, NodeAndClusterTransactions
<1>4. \A n, d : SafeTx(Single(deactivate_arx_ix(Operator, n, d), Operator))
  BY SetUpTransactions, NodeAndClusterTransactions
<1>5. \A c, n : SafeTx(submit_aggregated_bls_pubkey(Operator, c, n)) /\ SafeTx(propose_fee(Operator, c, n))
  BY SetUpTransactions, NodeAndClusterTransactions
<1>6. \A c, n : SafeTx(vote_fee(Operator, c, n)) /\ SafeTx(propose_join_cluster(Operator, c, n))
  BY SetUpTransactions, NodeAndClusterTransactions
<1>7. \A c, n, w : SafeTx(claim_node_fees(Operator, c, n, w))
  BY SetUpTransactions, NodeAndClusterTransactions
<1>8. \A c, n, join : SafeTx(join_cluster(Operator, c, n, join))
  BY SetUpTransactions, NodeAndClusterTransactions
<1>9. \A c, w : SafeTx(init_cluster(Operator, w, c))
  BY SetUpTransactions, NodeAndClusterTransactions
<1>10. \A c : SafeTx(increase_mempool_size(Operator, c)) /\ SafeTx(Single(set_cluster_authority_ix(Operator, c), Operator))
  BY SetUpTransactions, NodeAndClusterTransactions
<1>11. \A c : SafeTx(Tx(<<bump_epoch_cluster_ix(c), update_current_epoch_idempotent_ix>>, {}))
  BY SetUpTransactions, NodeAndClusterTransactions
<1>12. \A c : SafeTx(activate_cluster(Operator, c)) /\ SafeTx(Single(deactivate_cluster_ix(Operator, c), Operator))
  BY SetUpTransactions, NodeAndClusterTransactions
<1>13. \A p, k, r, c : SafeTx(init_mxe(Operator, p, k, r, c, 0))
  BY ProgramIsMade
<1>14. \A p, c : SafeTx(finalize_mxe_keys(Operator, p, c))
  BY SetUpTransactions, NodeAndClusterTransactions
<1> QED BY <1>1, <1>2, <1>3, <1>4, <1>5, <1>6, <1>7, <1>8, <1>9, <1>10, <1>11, <1>12, <1>13, <1>14 DEF OperatorsTransactions

\* Nodes and clusters.
LEMMA NodesTopic == \A tx \in NodeTransactions \cup ClusterTransactions : SafeTx(tx)
<1>1. \A tx \in NodeTransactions : SafeTx(tx)
  BY OperatorsAreSafe DEF NodeTransactions, OperatorsTransactions
<1>2. \A tx \in ClusterTransactions : SafeTx(tx)
  <2>0. OperatorsTransactions
    BY OperatorsAreSafe
  <2>1. \A tx \in {init_cluster(Operator, w, c) : c \in Clusters, w \in Wallets} : SafeTx(tx)
    BY <2>0 DEF OperatorsTransactions
  <2>2. \A tx \in {increase_mempool_size(Operator, c) : c \in Clusters} : SafeTx(tx)
    BY <2>0 DEF OperatorsTransactions
  <2>3. \A tx \in {Single(set_cluster_authority_ix(Operator, c), Operator) : c \in Clusters} : SafeTx(tx)
    BY <2>0 DEF OperatorsTransactions
  <2>4. \A tx \in {Tx(<<bump_epoch_cluster_ix(c), update_current_epoch_idempotent_ix>>, {}) :
                    c \in Clusters} : SafeTx(tx)
    <3>1. \A c : SafeTx(Tx(<<bump_epoch_cluster_ix(c), update_current_epoch_idempotent_ix>>, {}))
      BY <2>0 DEF OperatorsTransactions
    <3> QED BY <3>1, Zenon
  <2>5. \A tx \in {activate_cluster(Operator, c) : c \in Clusters} : SafeTx(tx)
    BY <2>0 DEF OperatorsTransactions
  <2>6. \A tx \in {Single(deactivate_cluster_ix(Operator, c), Operator) : c \in Clusters} : SafeTx(tx)
    BY <2>0 DEF OperatorsTransactions
  <2>7. \A tx \in {propose_join_cluster(Operator, c, n) : c \in Clusters, n \in Nodes} : SafeTx(tx)
    BY <2>0 DEF OperatorsTransactions
  <2> QED BY <2>1, <2>2, <2>3, <2>4, <2>5, <2>6, <2>7 DEF ClusterTransactions
<1> QED BY <1>1, <1>2

\* What changes the answer of a discovery.
LEMMA DiscoveryTopic == \A tx \in DiscoveryTransactions : SafeTx(tx)
<1> DEFINE A == {Single(activate_arx_ix(Operator, n), Operator) : n \in Nodes}
           B == {Single(deactivate_arx_ix(Operator, n, accounts[arx_acc(n)].cluster_membership.cluster),
                        Operator) : n \in Nodes}
           C == {propose_join_cluster(Operator, c, n) : c \in Clusters, n \in Nodes}
           Joined(c, n) == join_cluster(Operator, c, n, TRUE)
           D == {Joined(c, n) : c \in Clusters, n \in Nodes}
           E == {Single(deactivate_cluster_ix(Operator, c), Operator) : c \in Clusters}
           F == {InitMxe(Original, c) : c \in Clusters}
<1>0. OperatorsTransactions
  BY OperatorsAreSafe
<1>1. DiscoveryTransactions = UNION {A, B, C, D, E, F}
  BY DEF DiscoveryTransactions
<1>2. (\A tx \in A : SafeTx(tx)) /\ (\A tx \in B : SafeTx(tx))
  BY <1>0 DEF OperatorsTransactions
<1>3. \A tx \in C : SafeTx(tx)
  BY <1>0 DEF OperatorsTransactions
<1>4. \A tx \in D : SafeTx(tx)
  <2>1. ASSUME NEW c, NEW n
        PROVE  SafeTx(Joined(c, n))
    BY <1>0, Zenon DEF OperatorsTransactions
  <2> HIDE DEF Joined
  <2> QED BY <2>1
<1>5. \A tx \in E : SafeTx(tx)
  BY <1>0 DEF OperatorsTransactions
<1>6. \A tx \in F : SafeTx(tx)
  <2>1. \A c : SafeTx(InitMxe(Original, c))
    BY <1>0 DEF OperatorsTransactions, InitMxe
  <2> QED BY <2>1
<1> HIDE DEF A, B, C, D, E, F
<1> QED BY <1>1, <1>2, <1>3, <1>4, <1>5, <1>6

\* The setup of programs.
LEMMA ProgramsTopic == \A tx \in ProgramTransactions : SafeTx(tx)
<1>1. ASSUME NEW p, NEW c, NEW n, NEW d, NEW k
      PROVE  /\ SafeTx(set_cluster(Operator, p, c)) /\ SafeTx(init_recovery_peer_acc(Operator, n))
             /\ SafeTx(init_computation_definition(Operator, d, p, k))
             /\ SafeTx(Single(init_raw_circuit_acc_ix(Operator, d, p, k), Operator))
             /\ SafeTx(Single(embiggen_raw_circuit_acc_ix(Operator, d, p, k), Operator))
             /\ SafeTx(Single(upload_circuit_ix(Operator, p, d, k), Operator))
             /\ SafeTx(Single(finalize_computation_definition_ix(Operator, d, p), Operator))
  <2>1. /\ Safe(set_cluster_ix(Operator, p, c)) /\ Safe(embiggen_raw_circuit_acc_ix(Operator, d, p, k))
        /\ Safe(upload_circuit_ix(Operator, p, d, k))
    BY NoEffect DEF set_cluster_ix, embiggen_raw_circuit_acc_ix, upload_circuit_ix, Ix
  <2> QED BY <2>1, QuietInstructions, SingleSafe
          DEF set_cluster, init_recovery_peer_acc, init_computation_definition
<1> QED BY <1>1, ProgramIsMade DEF ProgramTransactions

\* Computations and claims that they failed.
LEMMA ComputationsTopic ==
  /\ \A tx \in ComputationTransactions : SafeTx(tx)
  /\ \A txs \in FailureClaims : txs # <<>> => SafeTx(Head(txs))
<1>1. ASSUME NEW w, NEW p, NEW o, NEW d, NEW n, NEW c, NEW data, NEW keys
      PROVE  /\ SafeTx(queue_computation(w, p, o, d, data))
             /\ SafeTx(Tx(<<queue_computation_ix(w, p, o, d, data)>>, keys))
             /\ SafeTx(Tx(<<callback_computation_ix(w, p, o, d, n, c),
                            callback_computation_ix_user(p, <<>>, d)>>, keys))
             /\ SafeTx(Single(reclaim_failure_rent_idempotent_ix(w, n, p, o), w))
  <2>1. Safe(callback_computation_ix_user(p, <<>>, d))
    BY NoEffect DEF callback_computation_ix_user, Ix
  <2>2. Safe(callback_computation_ix(w, p, o, d, n, c))
    BY EndingSteps
  <2>3. Safe(queue_computation_ix(w, p, o, d, data))
    BY MakingSteps
  <2>4. Safe(reclaim_failure_rent_idempotent_ix(w, n, p, o))
    BY QuietInstructions
  <2> QED BY <2>1, <2>2, <2>3, <2>4, OneSafe, TwoSafe, SingleSafe DEF queue_computation
<1>2. \A tx \in ComputationTransactions : SafeTx(tx)
  <2>1. \A w, p, o, d, data : SafeTx(queue_computation(w, p, o, d, data))
    BY <1>1
  <2>2. \A w, p, o, d, data, keys : SafeTx(Tx(<<queue_computation_ix(w, p, o, d, data)>>, keys))
    BY <1>1
  <2>3. \A w, p, o, d, n, c, keys :
           SafeTx(Tx(<<callback_computation_ix(w, p, o, d, n, c),
                       callback_computation_ix_user(p, <<>>, d)>>, keys))
    BY <1>1
  <2>4. \A w, n, p, o : SafeTx(Single(reclaim_failure_rent_idempotent_ix(w, n, p, o), w))
    BY <1>1
  <2> DEFINE A == {queue_computation(w, p, o, AnyDef, accounts[mxe_acc(p)]) :
                     w \in Wallets, p \in Initialized, o \in Offsets}
             B == {QueuedByProgram(w, p, o, AnyDef) :
                     w \in {Operator}, p \in Initialized, o \in Offsets}
             EndedBy(p, o) ==
               Tx(<<callback_computation_ix(Operator, p, o, AnyDef, TheNode, accounts[mxe_acc(p)].cluster),
                    callback_computation_ix_user(p, <<>>, AnyDef)>>, {Operator})
             C == {EndedBy(p, o) : p \in Initialized, o \in Offsets}
             D == {Single(reclaim_failure_rent_idempotent_ix(Operator, w, p, o), Operator) :
                     w \in {Operator}, p \in Initialized, o \in Offsets}
  <2>5. ComputationTransactions = UNION {A, B, C, D}
    BY DEF ComputationTransactions
  <2>6. \A tx \in A : SafeTx(tx)
    BY <2>1
  <2>7. \A tx \in B : SafeTx(tx)
    <3>1. \A w, p, o : SafeTx(QueuedByProgram(w, p, o, AnyDef))
      BY <2>2 DEF QueuedByProgram
    <3> QED BY <3>1
  <2>8. \A tx \in C : SafeTx(tx)
    <3>1. ASSUME NEW p, NEW o
          PROVE  SafeTx(EndedBy(p, o))
      BY <2>3, Zenon
    <3> HIDE DEF EndedBy
    <3> QED BY <3>1
  <2>9. \A tx \in D : SafeTx(tx)
    BY <2>4
  <2> HIDE DEF A, B, C, D
  <2> QED BY <2>5, <2>6, <2>7, <2>8, <2>9
<1>3. ASSUME NEW p \in Programs, NEW c, NEW d, NEW o, NEW n, NEW len,
             build_claim_failure_txs(Operator, p, c, d, o, n, len, 0) # <<>>
      PROVE  SafeTx(Head(build_claim_failure_txs(Operator, p, c, d, o, n, len, 0)))
  <2> DEFINE tx == Tx(<<claim_failure_init_ix(Operator, p, c, d, o, n, len),
                        claim_failure_append_ix(Operator, p, o, len, 0),
                        claim_failure_finalize_ix(Operator, p, c, o, n)>>, {Operator})
  <2>2. SafeTx(tx)
    BY ClaimSafe
  <2>3. build_claim_failure_txs(Operator, p, c, d, o, n, len, 0) = <<tx>>
    BY <1>3 DEF build_claim_failure_txs
  <2> HIDE DEF tx
  <2> QED BY <2>2, <2>3
<1>4. \A txs \in FailureClaims : txs # <<>> => SafeTx(Head(txs))
  BY <1>3 DEF FailureClaims, Initialized
<1> QED BY <1>2, <1>4

\* Keys.
LEMMA KeysTopic == \A tx \in KeyTransactions : SafeTx(tx)
<1>1. ASSUME NEW p, NEW c, NEW n, NEW o, NEW data
      PROVE  /\ SafeTx(requeue_mxe_keygen(Operator, p, data, c))
             /\ SafeTx(Single(queue_key_recovery_init_ix(Operator, p, c, o), Operator))
             /\ SafeTx(Single(set_mxe_keys_ix(Operator, p, n, c), Operator))
             /\ SafeTx(Single(set_mxe_recovery_keys_init_ix(Operator, p, n, c), Operator))
             /\ SafeTx(Single(extend_recovery_keyshares_ix(Operator, p, n, c), Operator))
             /\ SafeTx(Single(finalize_key_recovery_shares_upload_ix(Operator, p, n, c, o), Operator))
  <2>1. /\ Safe(set_mxe_keys_ix(Operator, p, n, c)) /\ Safe(set_mxe_recovery_keys_init_ix(Operator, p, n, c))
        /\ Safe(extend_recovery_keyshares_ix(Operator, p, n, c))
        /\ Safe(finalize_key_recovery_shares_upload_ix(Operator, p, n, c, o))
    BY NoEffect DEF set_mxe_keys_ix, set_mxe_recovery_keys_init_ix, extend_recovery_keyshares_ix,
                    finalize_key_recovery_shares_upload_ix, Ix
  <2> QED BY <2>1, OwnComputationQueued, SingleSafe DEF requeue_mxe_keygen
<1>2. \A p, c, data : SafeTx(requeue_mxe_keygen(Operator, p, data, c))
  BY <1>1
<1>3. \A p, c, o : SafeTx(Single(queue_key_recovery_init_ix(Operator, p, c, o), Operator))
  BY <1>1
<1>4. \A p, n, c : /\ SafeTx(Single(set_mxe_keys_ix(Operator, p, n, c), Operator))
                   /\ SafeTx(Single(set_mxe_recovery_keys_init_ix(Operator, p, n, c), Operator))
                   /\ SafeTx(Single(extend_recovery_keyshares_ix(Operator, p, n, c), Operator))
  BY <1>1
<1>5. \A p, n, c, o :
        SafeTx(Single(finalize_key_recovery_shares_upload_ix(Operator, p, n, c, o), Operator))
  BY <1>1
<1> QED BY <1>2, <1>3, <1>4, <1>5, OperatorsAreSafe DEF KeyTransactions, InitMxe, OperatorsTransactions

\* The recovery of a program.
LEMMA RecoveryTopic == \A tx \in RecoveryTransactions : SafeTx(tx)
<1>1. ASSUME NEW p, NEW q, NEW c, NEW n, NEW o, NEW k
      PROVE  /\ SafeTx(Single(recover_mxe_ix(Operator, p), Operator))
             /\ SafeTx(init_recovery_peer_acc(Operator, n))
             /\ SafeTx(submit_key_recovery_share(Operator, p, q, n))
             /\ SafeTx(Single(init_key_recovery_execution_part1_ix(Operator, Operator, p, q), Operator))
             /\ SafeTx(Single(init_key_recovery_execution_part2_ix(Operator, p, q), Operator))
             /\ SafeTx(Single(close_key_recovery_ix(Operator, p, q), Operator))
             /\ SafeTx(Single(finalize_key_recovery_execution_ix(Operator, Operator, p, q, c, o), Operator))
             /\ SafeTx(Single(requeue_key_recovery_finalize_ix(Operator, Operator, p, q, c, k, o), Operator))
             /\ SafeTx(Single(finalize_key_recovery_callback_ix(Operator, p, q, c, o, n), Operator))
  <2>1. Safe(submit_key_recovery_share_ix(Operator, p, q, n))
    BY NoEffect DEF submit_key_recovery_share_ix, Ix
  <2>2. /\ Safe(recover_mxe_ix(Operator, p)) /\ Safe(init_recovery_peer_acc_ix(Operator, n))
        /\ Safe(init_key_recovery_execution_part1_ix(Operator, Operator, p, q))
        /\ Safe(init_key_recovery_execution_part2_ix(Operator, p, q))
        /\ Safe(close_key_recovery_ix(Operator, p, q))
    BY ProgramSteps, QuietInstructions
  <2>3. /\ Safe(finalize_key_recovery_execution_ix(Operator, Operator, p, q, c, o))
        /\ Safe(requeue_key_recovery_finalize_ix(Operator, Operator, p, q, c, k, o))
        /\ Safe(finalize_key_recovery_callback_ix(Operator, p, q, c, o, n))
    BY MakingSteps, EndingSteps
  <2> QED BY <2>1, <2>2, <2>3, SingleSafe DEF init_recovery_peer_acc, submit_key_recovery_share
<1> QED BY <1>1 DEF RecoveryTransactions

\* Staking.
LEMMA StakingTopic == \A tx \in StakingTransactions : SafeTx(tx)
<1>1. ASSUME NEW w, NEW v, NEW u, NEW n, NEW k, NEW j
      PROVE  /\ SafeTx(init_arcium_token_mint(w)) /\ SafeTx(airdrop_arcium_token(w, v))
             /\ SafeTx(init_primary_stake_acc(w)) /\ SafeTx(activate_primary_stake_acc(w))
             /\ SafeTx(deactivate_primary_stake_acc(w, n))
             /\ SafeTx(Single(finalize_epoch_rewards_ix(w, v, n), w))
             /\ SafeTx(init_delegated_stake_master_acc(w, v)) /\ SafeTx(init_delegated_stake_acc(w, k))
             /\ SafeTx(delegate_stake(w, k, v)) /\ SafeTx(undelegate_stake(w, k, v))
             /\ SafeTx(split_delegated_stake_account(u, w, v, k, j))
             /\ SafeTx(merge_delegated_stake_account(u, w, v, k, j))
             /\ SafeTx(close_delegated_stake(w, v, k))
  <2>1. /\ Safe(activate_primary_stake_acc_ix(w)) /\ Safe(deactivate_primary_stake_acc_ix(w, n))
        /\ Safe(finalize_epoch_rewards_ix(w, v, n))
        /\ Safe(init_arcium_token_mint_ixs(w)[2]) /\ Safe(airdrop_arcium_token_ixs(w, v)[2])
    BY NoEffect DEF activate_primary_stake_acc_ix, deactivate_primary_stake_acc_ix,
                    finalize_epoch_rewards_ix, init_arcium_token_mint_ixs, airdrop_arcium_token_ixs, Ix
  <2>2. /\ Safe(init_arcium_token_mint_ixs(w)[1]) /\ Safe(airdrop_arcium_token_ixs(w, v)[1])
        /\ Safe(init_primary_stake_acc_ix(w)) /\ Safe(init_delegated_stake_master_acc_ix(w, v))
        /\ Safe(init_delegated_stake_acc_ix(w, k)) /\ Safe(delegate_stake_ix(w, k, v))
        /\ Safe(undelegate_stake_ix(w, k, v)) /\ Safe(close_delegated_stake_ix(w, v, k))
    BY QuietStaking
  <2>3. /\ Safe(split_delegated_stake_account_ix(u, w, v, k, j))
        /\ Safe(merge_delegated_stake_account_ix(u, w, v, k, j))
    BY QuietStaking
  <2>4. SafeTx(init_arcium_token_mint(w)) /\ SafeTx(airdrop_arcium_token(w, v))
    <3>1. /\ Len(init_arcium_token_mint_ixs(w)) = 2 /\ Len(airdrop_arcium_token_ixs(w, v)) = 2
      BY DEF init_arcium_token_mint_ixs, airdrop_arcium_token_ixs
    <3>2. \A n_ \in 1 .. 2 : /\ Safe(init_arcium_token_mint_ixs(w)[n_])
                            /\ Safe(airdrop_arcium_token_ixs(w, v)[n_])
      <4>1. \A n_ \in 1 .. 2 : n_ = 1 \/ n_ = 2
        OBVIOUS
      <4> QED BY <4>1, <2>1, <2>2
    <3> QED BY <3>1, <3>2, AllSafe DEF init_arcium_token_mint, airdrop_arcium_token
  <2>5. /\ SafeTx(init_primary_stake_acc(w)) /\ SafeTx(activate_primary_stake_acc(w))
        /\ SafeTx(deactivate_primary_stake_acc(w, n))
        /\ SafeTx(Single(finalize_epoch_rewards_ix(w, v, n), w))
    BY <2>1, <2>2, SingleSafe
       DEF init_primary_stake_acc, activate_primary_stake_acc, deactivate_primary_stake_acc
  <2>6. /\ SafeTx(init_delegated_stake_master_acc(w, v)) /\ SafeTx(init_delegated_stake_acc(w, k))
        /\ SafeTx(delegate_stake(w, k, v)) /\ SafeTx(undelegate_stake(w, k, v))
        /\ SafeTx(close_delegated_stake(w, v, k))
    BY <2>2, SingleSafe DEF init_delegated_stake_master_acc, init_delegated_stake_acc, delegate_stake,
                            undelegate_stake, close_delegated_stake
  <2>7. /\ SafeTx(split_delegated_stake_account(u, w, v, k, j))
        /\ SafeTx(merge_delegated_stake_account(u, w, v, k, j))
    BY <2>3, OneSafe DEF split_delegated_stake_account, merge_delegated_stake_account
  <2> QED BY <2>4, <2>5, <2>6, <2>7
<1>2. /\ \A w : SafeTx(init_arcium_token_mint(w)) /\ SafeTx(init_primary_stake_acc(w))
                 /\ SafeTx(activate_primary_stake_acc(w))
      /\ \A w, v : SafeTx(airdrop_arcium_token(w, v)) /\ SafeTx(init_delegated_stake_master_acc(w, v))
  BY <1>1
<1>3. /\ \A w, n : SafeTx(deactivate_primary_stake_acc(w, n))
      /\ \A w, v, n : SafeTx(Single(finalize_epoch_rewards_ix(w, v, n), w))
  BY <1>1
<1>4. /\ \A w, k : SafeTx(init_delegated_stake_acc(w, k))
      /\ \A w, v, k : /\ SafeTx(delegate_stake(w, k, v)) /\ SafeTx(undelegate_stake(w, k, v))
                      /\ SafeTx(close_delegated_stake(w, v, k))
  BY <1>1
<1>5. \A u, w, v, k, j : /\ SafeTx(split_delegated_stake_account(u, w, v, k, j))
                         /\ SafeTx(merge_delegated_stake_account(u, w, v, k, j))
  BY <1>1
<1> QED BY <1>2, <1>3, <1>4, <1>5 DEF StakingTransactions

-----------------------------------------------------------------------------
(* The steps of the chain. *)

\* A transaction that takes effect leads to a chain as it should be.
LEMMA SendKeeps ==
  ASSUME NEW tx, SafeTx(tx), Sound(accounts), Send(tx)
  PROVE  Goes(accounts, accounts')
BY DEF Send, SafeTx

\* The time that passes ends computations, and nodes start them; neither touches what
\* the computations are for.
LEMMA TimeKeepsPrograms ==
  ASSUME ChainInv(accounts), TimePasses \/ NodesTakeOne
  PROVE  Fact(accounts, accounts')
<1>0. FieldsKept(accounts)
  BY DEF ChainInv
<1>1. CASE TimePasses
  <2> DEFINE m == accounts[mempool_acc(TheCluster)]
             expired == {computation_acc(TheCluster, c.computation_offset) : c \in ToSet(Expiring(m))}
             advanced == Advance(m)
  <2>1. accounts' = [a \in DOMAIN accounts |->
                       IF a = mempool_acc(TheCluster) THEN advanced
                       ELSE IF a \in expired THEN [accounts[a] EXCEPT !.stage = "expired"]
                       ELSE accounts[a]]
    BY <1>1 DEF TimePasses
  <2>2. \A a \in expired : a[1] = "ComputationAccount"
    BY DEF computation_acc
  <2>3. mempool_acc(TheCluster)[1] = "Mempool"
    BY DEF mempool_acc
  <2> HIDE DEF expired, advanced
  <2>4. Keeps(accounts, accounts')
    BY <1>0, <2>1, <2>2, <2>3 DEF Keeps, FieldsKept
  <2> QED BY <2>4, KeepsIsSafe
<1>2. CASE NodesTakeOne
  <2> DEFINE m == accounts[mempool_acc(TheCluster)]
             x == accounts[execpool_acc(TheCluster)]
  <2>1. PICK c \in ToSet(computations_highest_prio(m)), k \in {j \in DOMAIN x : x[j] = Zeroed} :
          accounts' = [accounts EXCEPT
                         ![mempool_acc(TheCluster)] = TakeOut(m, c),
                         ![execpool_acc(TheCluster)] = [x EXCEPT ![k] = c],
                         ![computation_acc(TheCluster, c.computation_offset)].stage = "executing"]
    BY <1>2 DEF NodesTakeOne
  <2> DEFINE one == mempool_acc(TheCluster)
             two == execpool_acc(TheCluster)
             comp == computation_acc(TheCluster, c.computation_offset)
             pool == TakeOut(m, c)
             slots == [x EXCEPT ![k] = c]
  <2>2. one[1] = "Mempool" /\ two[1] = "Execpool" /\ comp[1] = "ComputationAccount"
    BY DEF mempool_acc, execpool_acc, computation_acc
  <2>3. accounts' = [accounts EXCEPT ![one] = pool, ![two] = slots, ![comp].stage = "executing"]
    BY <2>1
  <2> HIDE DEF one, two, comp, pool, slots
  <2>4. /\ DOMAIN accounts' = DOMAIN accounts
        /\ \A a \in DOMAIN accounts :
             /\ a \notin {one, two, comp} => accounts'[a] = accounts[a]
             /\ a = comp => accounts'[a] = [accounts[a] EXCEPT !.stage = "executing"]
    BY <2>2, <2>3
  <2>5. Keeps(accounts, accounts')
    BY <1>0, <2>2, <2>4 DEF Keeps, FieldsKept
  <2> QED BY <2>5, KeepsIsSafe
<1> QED BY <1>1, <1>2

\* Nor do they make a claim or change one.
LEMMA TimeLeavesClaims ==
  ASSUME TimePasses \/ NodesTakeOne PROVE NoNewClaims(accounts, accounts')
<1> DEFINE next == accounts'
<1>1. mempool_acc(TheCluster)[1] = "Mempool" /\ execpool_acc(TheCluster)[1] = "Execpool"
      /\ \A o : computation_acc(TheCluster, o)[1] = "ComputationAccount"
  BY QueueAddresses
<1>2. DOMAIN next = DOMAIN accounts /\ \A a \in DOMAIN accounts : IsClaim(a) => next[a] = accounts[a]
  <2>1. CASE TimePasses
    <3> DEFINE m == accounts[mempool_acc(TheCluster)]
               expired == {computation_acc(TheCluster, c.computation_offset) : c \in ToSet(Expiring(m))}
               advanced == Advance(m)
    <3>1. next = [a \in DOMAIN accounts |->
                    IF a = mempool_acc(TheCluster) THEN advanced
                    ELSE IF a \in expired THEN [accounts[a] EXCEPT !.stage = "expired"]
                    ELSE accounts[a]]
      BY <2>1 DEF TimePasses
    <3>2. \A a \in expired : a[1] = "ComputationAccount"
      BY <1>1
    <3> HIDE DEF expired, advanced, next
    <3> QED BY <1>1, <3>1, <3>2 DEF IsClaim
  <2>2. CASE NodesTakeOne
    <3> DEFINE m == accounts[mempool_acc(TheCluster)]
               x == accounts[execpool_acc(TheCluster)]
               one == mempool_acc(TheCluster)
               two == execpool_acc(TheCluster)
    <3>1. PICK c \in ToSet(computations_highest_prio(m)), k \in {j \in DOMAIN x : x[j] = Zeroed} :
            next = [accounts EXCEPT ![one] = TakeOut(m, c), ![two] = [x EXCEPT ![k] = c],
                                    ![computation_acc(TheCluster, c.computation_offset)].stage = "executing"]
      BY <2>2 DEF NodesTakeOne
    <3> DEFINE comp == computation_acc(TheCluster, c.computation_offset)
               pool == TakeOut(m, c)
               slots == [x EXCEPT ![k] = c]
    <3>2. next = [accounts EXCEPT ![one] = pool, ![two] = slots, ![comp].stage = "executing"]
      BY <3>1
    <3>3. one[1] = "Mempool" /\ two[1] = "Execpool" /\ comp[1] = "ComputationAccount"
      BY <1>1
    <3> HIDE DEF one, two, comp, pool, slots, next
    <3> QED BY <3>2, <3>3 DEF IsClaim
  <2> QED BY <2>1, <2>2
<1> QED BY <1>2 DEF NoNewClaims

\* They keep the chain as it should be.
LEMMA TimeKeeps ==
  ASSUME Sound(accounts), TimePasses \/ NodesTakeOne
  PROVE  Goes(accounts, accounts')
<1>1. Fact(accounts, accounts')
  BY TimeKeepsPrograms DEF Sound
<1>2. QueueFact(accounts, accounts')
  BY TimeKeepsQueues, NodesKeepQueues DEF Sound
<1>3. NoNewClaims(accounts, accounts')
  BY TimeLeavesClaims
<1> QED BY <1>1, <1>2, <1>3, ClaimsStay DEF Goes, Sound

\* Every step keeps the chain as it should be, and what is so for ever after.
LEMMA ChainStep == ASSUME Sound(accounts), [Next]_vars PROVE Goes(accounts, accounts')
<1>1. CASE UNCHANGED accounts
  BY <1>1, GoesItself
<1>2. CASE NodeCall
  BY <1>2, NodesTopic, SendKeeps DEF NodeCall
<1>3. CASE ClusterCall
  BY <1>3, NodesTopic, SendKeeps DEF ClusterCall
<1>4. CASE DiscoveryCall
  BY <1>4, DiscoveryTopic, SendKeeps DEF DiscoveryCall
<1>5. CASE ProgramCall
  BY <1>5, ProgramsTopic, SendKeeps DEF ProgramCall
<1>6. CASE ComputationCall
  BY <1>6, ComputationsTopic, SendKeeps DEF ComputationCall
<1>7. CASE claim_failure
  BY <1>7, ComputationsTopic, SendKeeps DEF claim_failure
<1>8. CASE KeyCall
  BY <1>8, KeysTopic, SendKeeps DEF KeyCall
<1>9. CASE RecoveryCall
  BY <1>9, RecoveryTopic, SendKeeps DEF RecoveryCall
<1>10. CASE StakingCall
  BY <1>10, StakingTopic, SendKeeps DEF StakingCall
<1>11. CASE TimePasses \/ NodesTakeOne
  BY <1>11, TimeKeeps
<1>12. \/ UNCHANGED accounts
       \/ NodeCall \/ ClusterCall \/ DiscoveryCall \/ ProgramCall \/ ComputationCall \/ claim_failure
       \/ KeyCall \/ RecoveryCall \/ StakingCall \/ TimePasses \/ NodesTakeOne
  BY DEF Next, vars, DiscoverClusters, LookUpCluster, CountMxes, CountFails, ReturnInfos
<1> QED BY <1>1, <1>2, <1>3, <1>4, <1>5, <1>6, <1>7, <1>8, <1>9, <1>10, <1>11, <1>12

\* The chain is as it should be, always.
LEMMA ChainHolds == Spec => []Sound(accounts)
<1>1. Init => Sound(accounts)
  BY SetUpSafe, NetworkAssumption DEF Init
<1>2. Sound(accounts) /\ [Next]_vars => Sound(accounts)'
  <2>1. ASSUME Sound(accounts), [Next]_vars PROVE Sound(accounts')
    BY <2>1, ChainStep, GoesIsSound
  <2> QED BY <2>1 DEF Sound, ChainInv, FieldsKept, MembersKept, Whole, QueueInv, RefsAt, ClaimsInv, ClaimIsWhole
<1> QED BY <1>1, <1>2, PTL DEF Spec

\* A program is initialized whole or not at all, whatever its programs, clusters and
\* offsets are and whoever else initializes a program in between.
THEOREM ProgramsAreWhole == Spec => []MxeIsWhole
<1>1. Sound(accounts) => MxeIsWhole
  BY DEF Sound, ChainInv, Whole, MxeIsWhole, Is
<1> QED BY <1>1, ChainHolds, PTL

\* A claim that a computation failed is on the chain with all of its data or not at all,
\* and the computation has ended with it, whatever else is sent.
\* (transactions.rs, claim_failure)
THEOREM ClaimsKeptWhole == Spec => []ClaimsAreWhole
<1>1. Sound(accounts) => ClaimsAreWhole
  BY DEF Sound, ClaimsInv, IsClaim, ClaimIsWhole, ClaimsAreWhole
<1> QED BY <1>1, ChainHolds, PTL

\* What a cluster's pools are to hold.
LEMMA PoolsOf ==
  ASSUME Sound(accounts), NEW c, Is(cluster_acc(c))
  PROVE  /\ Holds(accounts[mempool_acc(c)], RefsIn(c, "queued"))
         /\ Runs(accounts[execpool_acc(c)], RefsIn(c, "executing"))
<1>1. \A stage : RefsIn(c, stage) = RefsAt(accounts, c, stage)
  BY DEF RefsIn, RefsAt
<1>2. QueueInv(accounts) /\ cluster_acc(c) \in DOMAIN accounts
  BY DEF Sound, Is
<1> QED BY <1>1, <1>2 DEF QueueInv

\* Through every wrap of the circular buffer, whatever its size, the readers see each
\* computation that waits and each that runs exactly once and none that has expired or
\* ended.  (state.rs, MempoolWrapper and ExecpoolWrapper)
THEOREM QueueIsRead == Spec => []ReadersSeeQueue
<1>1. Sound(accounts) => ReadersSeeQueue
  <2> SUFFICES ASSUME Sound(accounts), NEW c \in Clusters, Is(cluster_acc(c))
               PROVE  LET waiting == computations(accounts[mempool_acc(c)])
                          running == executing(accounts[execpool_acc(c)])
                      IN  /\ IsInjective(waiting) /\ ToSet(waiting) = RefsIn(c, "queued") \ {Zeroed}
                          /\ IsInjective(running) /\ ToSet(running) = RefsIn(c, "executing") \ {Zeroed}
    BY DEF ReadersSeeQueue
  <2> QED BY PoolsOf, AllAreRead, AllThatRunsIsRead
<1> QED BY <1>1, ChainHolds, PTL

\* Unless a reference that is all zero waits too, one of the computations read as those
\* of the highest priority is as dear as any that waits.  (computations_highest_prio)
THEOREM DearestComesFirst == Spec => []DearestIsRead
<1>1. Sound(accounts) => DearestIsRead
  <2> SUFFICES ASSUME Sound(accounts), NEW c \in Clusters, Is(cluster_acc(c)),
                      Zeroed \notin RefsIn(c, "queued"), NEW waiting \in RefsIn(c, "queued")
               PROVE  \E first \in ToSet(computations_highest_prio(accounts[mempool_acc(c)])) :
                        first.priority_fee >= waiting.priority_fee
    BY DEF DearestIsRead
  <2>1. Holds(accounts[mempool_acc(c)], RefsIn(c, "queued"))
    BY PoolsOf
  <2> QED BY <2>1, FirstAreDearest
<1> QED BY <1>1, ChainHolds, PTL

-----------------------------------------------------------------------------
(* What a discovery knows stays true while the chain goes on. *)

\* The offset found for a cluster is its own, or a node that it listed has left it.
Own(c, offset) ==
  \/ offset = c
  \/ \E n \in discovery.clusters[c] : accounts[arx_acc(n)].cluster_membership # Active(c)

\* The programs of a cluster.
ProgramsOf(offset) == {p \in Programs : Is(mxe_acc(p)) /\ accounts[mxe_acc(p)].cluster = offset}

\* The clusters that are known are on the chain, with the nodes they listed.
KnownClusters ==
  /\ DOMAIN discovery.infos \subseteq DOMAIN discovery.clusters
  /\ DOMAIN discovery.clusters \subseteq Clusters
  /\ \A c \in DOMAIN discovery.clusters :
       Is(cluster_acc(c)) /\ discovery.clusters[c] \subseteq accounts[cluster_acc(c)].nodes

Answered(info, c) ==
  info.offset # None => /\ Own(c, info.offset)
                        /\ info.mxe_count \in Nat
                        /\ info.mxe_count <= Cardinality(ProgramsOf(info.offset))

DiscoveryInv ==
  /\ KnownClusters
  /\ discovery.pc = "count" =>
       discovery.at \in DOMAIN discovery.clusters /\ Own(discovery.at, discovery.offset)
  /\ \A c \in DOMAIN discovery.infos : Answered(discovery.infos[c], c)

\* They can be counted.
LEMMA ProgramsAreCounted ==
  ASSUME NEW offset
  PROVE  IsFiniteSet(ProgramsOf(offset)) /\ Cardinality(ProgramsOf(offset)) \in Nat
<1>1. ProgramsOf(offset) \subseteq Programs /\ IsFiniteSet(Programs)
  BY NetworkAssumption DEF ProgramsOf
<1> QED BY <1>1, FS_Subset, FS_CardinalityType

\* The chain goes on: what is known stays so.
LEMMA ChainGoesOn ==
  ASSUME DiscoveryInv, ChainInv(accounts), Fact(accounts, accounts'), UNCHANGED discovery
  PROVE  DiscoveryInv'
<1>1. Later(accounts, accounts')
  BY DEF Fact
<1>2. KnownClusters'
  BY <1>1 DEF DiscoveryInv, KnownClusters, Later, NodesStay, Is
<1>3. ASSUME NEW c \in DOMAIN discovery.clusters, NEW offset, Own(c, offset)
      PROVE  Own(c, offset)'
  <2>1. CASE offset = c
    BY <2>1 DEF Own
  <2>2. CASE offset # c
    <3>1. PICK n \in discovery.clusters[c] : accounts[arx_acc(n)].cluster_membership # Active(c)
      BY <1>3, <2>2 DEF Own
    <3>2. c \in Clusters /\ cluster_acc(c) \in DOMAIN accounts /\ n \in accounts[cluster_acc(c)].nodes
      BY DEF DiscoveryInv, KnownClusters, Is
    <3>3. accounts'[arx_acc(n)].cluster_membership # Active(c)
      BY <1>1, <3>1, <3>2 DEF Later, NodesStay
    <3> QED BY <3>3 DEF Own
  <2> QED BY <2>1, <2>2
<1>4. ASSUME NEW offset
      PROVE  /\ Cardinality(ProgramsOf(offset)) \in Nat /\ Cardinality(ProgramsOf(offset))' \in Nat
             /\ Cardinality(ProgramsOf(offset)) <= Cardinality(ProgramsOf(offset))'
  <2> DEFINE now == ProgramsOf(offset)
             then == {p \in Programs : mxe_acc(p) \in DOMAIN accounts'
                                       /\ accounts'[mxe_acc(p)].cluster = offset}
  <2>1. ProgramsOf(offset)' = then
    BY DEF ProgramsOf, Is
  <2>2. now \subseteq then
    BY <1>1 DEF Later, ProgramsOf, Is
  <2>3. then \subseteq Programs /\ IsFiniteSet(Programs)
    BY NetworkAssumption
  <2> HIDE DEF now, then
  <2>4. IsFiniteSet(then)
    BY <2>3, FS_Subset
  <2>5. IsFiniteSet(now) /\ Cardinality(now) <= Cardinality(then)
    BY <2>2, <2>4, FS_Subset
  <2>6. Cardinality(now) \in Nat /\ Cardinality(then) \in Nat
    BY <2>4, <2>5, FS_CardinalityType
  <2>7. Cardinality(ProgramsOf(offset))' = Cardinality(then)
    BY <2>1
  <2> QED BY <2>5, <2>6, <2>7 DEF now
<1>5. ASSUME NEW c \in DOMAIN discovery.infos
      PROVE  Answered(discovery.infos[c], c)'
  <2> DEFINE info == discovery.infos[c]
  <2>1. CASE info.offset = None
    BY <2>1 DEF Answered
  <2>2. CASE info.offset # None
    <3>1. /\ Own(c, info.offset) /\ info.mxe_count \in Nat
          /\ info.mxe_count <= Cardinality(ProgramsOf(info.offset))
      BY <2>2 DEF DiscoveryInv, Answered
    <3>2. Own(c, info.offset)'
      BY <1>3, <3>1 DEF DiscoveryInv, KnownClusters
    <3>3. info.mxe_count <= Cardinality(ProgramsOf(info.offset))'
      BY <1>4, <3>1
    <3> QED BY <3>1, <3>2, <3>3 DEF Answered
  <2> QED BY <2>1, <2>2
<1>6. discovery.pc = "count" => Own(discovery.at, discovery.offset)'
  BY <1>3 DEF DiscoveryInv
<1> QED BY <1>2, <1>5, <1>6 DEF DiscoveryInv

\* A cluster is looked up: what is found is its own, unless a node has left it.
LEMMA LookUpIsSound ==
  ASSUME DiscoveryInv, CountsOne, LookUpCluster
  PROVE  DiscoveryInv'
<1>a. PICK c \in DOMAIN discovery.clusters \ DOMAIN discovery.infos :
        \E offset \in find_cluster_offset_via_node(discovery.clusters[c]) :
          discovery' = IF offset = None
                         THEN [discovery EXCEPT !.infos = Entry(c, Info(None, 0)) ++ @]
                         ELSE [discovery EXCEPT !.pc = "count", !.at = c, !.offset = offset]
  BY DEF LookUpCluster
<1>1. PICK offset \in find_cluster_offset_via_node(discovery.clusters[c]) :
        discovery' = IF offset = None
                       THEN [discovery EXCEPT !.infos = Entry(c, Info(None, 0)) ++ @]
                       ELSE [discovery EXCEPT !.pc = "count", !.at = c, !.offset = offset]
  BY <1>a
<1>0. discovery.pc = "look" /\ accounts' = accounts
  BY DEF LookUpCluster
<1>2. CASE offset = None
  <2>1. /\ discovery'.pc = "look" /\ discovery'.clusters = discovery.clusters
        /\ discovery'.infos = Entry(c, Info(None, 0)) ++ discovery.infos
    BY <1>0, <1>1, <1>2 DEF CountsOne
  <2>2. /\ DOMAIN discovery'.infos = DOMAIN discovery.infos \cup {c}
        /\ \A d \in DOMAIN discovery.infos : discovery'.infos[d] = discovery.infos[d]
        /\ discovery'.infos[c] = Info(None, 0)
    BY <2>1 DEF Entry, ++
  <2>3. KnownClusters'
    BY <1>0, <2>1, <2>2 DEF DiscoveryInv, KnownClusters, Is
  <2>4. ASSUME NEW d \in DOMAIN discovery'.infos
        PROVE  Answered(discovery.infos[d], d)'
    <3>1. CASE d \in DOMAIN discovery.infos
      <4>1. Answered(discovery.infos[d], d)
        BY <3>1 DEF DiscoveryInv
      <4>2. discovery'.infos[d] = discovery.infos[d]
        BY <2>2, <3>1
      <4> QED BY <1>0, <2>1, <4>1, <4>2 DEF Answered, Own, ProgramsOf, Is
    <3>2. CASE d = c
      BY <2>2, <3>2 DEF Answered, Info
    <3> QED BY <2>2, <3>1, <3>2
  <2> QED BY <2>1, <2>3, <2>4 DEF DiscoveryInv
<1>3. CASE offset # None
  <2>1. /\ discovery'.pc = "count" /\ discovery'.clusters = discovery.clusters
        /\ discovery'.infos = discovery.infos
        /\ discovery'.at = c /\ discovery'.offset = offset
    BY <1>1, <1>3 DEF CountsOne
  <2>2. PICK n \in discovery.clusters[c] :
          /\ accounts[arx_acc(n)].cluster_membership.state = "Active"
          /\ accounts[arx_acc(n)].cluster_membership.cluster = offset
    BY <1>3 DEF find_cluster_offset_via_node
  <2>3. Own(c, offset)
    <3>1. CASE accounts[arx_acc(n)].cluster_membership = Active(c)
      BY <2>2, <3>1 DEF Active, Own
    <3>2. CASE accounts[arx_acc(n)].cluster_membership # Active(c)
      BY <3>2 DEF Own
    <3> QED BY <3>1, <3>2
  <2>4. KnownClusters'
    BY <1>0, <2>1 DEF DiscoveryInv, KnownClusters, Is
  <2>5. \A d \in DOMAIN discovery'.infos : Answered(discovery.infos[d], d)'
    BY <1>0, <2>1 DEF DiscoveryInv, Answered, Own, ProgramsOf, Is
  <2>6. discovery'.at \in DOMAIN discovery'.clusters /\ Own(discovery.at, discovery.offset)'
    BY <1>0, <2>1, <2>3 DEF Own
  <2> QED BY <2>4, <2>5, <2>6 DEF DiscoveryInv
<1> QED BY <1>2, <1>3

\* Its programs are counted.
LEMMA CountIsSound ==
  ASSUME DiscoveryInv, CountsOne, CountMxes
  PROVE  DiscoveryInv'
<1> DEFINE c == discovery.at
           info == Info(discovery.offset, get_mxe_count(discovery.offset))
<1>1. /\ discovery.pc = "count" /\ accounts' = accounts
      /\ discovery'.pc = "look" /\ discovery'.clusters = discovery.clusters
      /\ discovery'.infos = Entry(c, info) ++ discovery.infos
  BY DEF CountMxes, CountsOne
<1>2. c \in DOMAIN discovery.clusters /\ Own(c, discovery.offset)
  BY <1>1 DEF DiscoveryInv
<1>3. info.offset = discovery.offset /\ info.mxe_count = Cardinality(ProgramsOf(discovery.offset))
  BY DEF Info, get_mxe_count, ProgramsOf
<1>4. Answered(info, c)
  <2>1. /\ Cardinality(ProgramsOf(discovery.offset)) \in Nat
        /\ Cardinality(ProgramsOf(discovery.offset)) <= Cardinality(ProgramsOf(discovery.offset))
    BY ProgramsAreCounted
  <2> QED BY <1>2, <1>3, <2>1 DEF Answered
<1> HIDE DEF c, info
<1>5. /\ DOMAIN discovery'.infos = DOMAIN discovery.infos \cup {c}
      /\ \A d \in DOMAIN discovery.infos : discovery'.infos[d] = discovery.infos[d]
      /\ discovery'.infos[c] = info
      /\ \A d \in DOMAIN discovery'.infos : d \notin DOMAIN discovery.infos => d = c
      /\ c \notin DOMAIN discovery.infos
  BY <1>1 DEF Entry, ++, CountsOne, c
<1>6. KnownClusters'
  BY <1>1, <1>2, <1>5 DEF DiscoveryInv, KnownClusters, Is
<1>7. ASSUME NEW d \in DOMAIN discovery'.infos
      PROVE  Answered(discovery.infos[d], d)'
  <2>1. CASE d \in DOMAIN discovery.infos
    <3>1. discovery'.infos[d] = discovery.infos[d] /\ Answered(discovery.infos[d], d)
      BY <1>5, <2>1 DEF DiscoveryInv
    <3> QED BY <1>1, <3>1 DEF Answered, Own, ProgramsOf, Is
  <2>2. CASE d \notin DOMAIN discovery.infos
    <3>1. d = c /\ discovery'.infos[d] = info
      BY <1>5, <2>2
    <3> QED BY <1>1, <1>4, <3>1 DEF Answered, Own, ProgramsOf, Is
  <2> QED BY <2>1, <2>2
<1> QED BY <1>1, <1>6, <1>7 DEF DiscoveryInv

\* Every step keeps what a discovery knows.
LEMMA DiscoveryStep ==
  ASSUME DiscoveryInv, CountsOne, Sound(accounts), [Next]_vars
  PROVE  DiscoveryInv'
<1>1. CASE UNCHANGED discovery
  BY <1>1, ChainStep, ChainGoesOn DEF Goes, Sound
<1>2. CASE DiscoverClusters
  BY <1>2 DEF DiscoverClusters, DiscoveryInv, KnownClusters, Idle, Is, get_all_cluster_accounts
<1>3. CASE LookUpCluster
  BY <1>3, LookUpIsSound
<1>4. CASE CountMxes
  BY <1>4, CountIsSound
<1>5. CASE CountFails
  BY <1>5 DEF CountFails, DiscoveryInv, KnownClusters, Idle
<1>6. CASE ReturnInfos
  <2>1. /\ discovery'.pc = "returned" /\ discovery'.clusters = discovery.clusters
        /\ discovery'.infos = discovery.infos /\ accounts' = accounts
    BY <1>6 DEF ReturnInfos, CountsOne
  <2> QED BY <2>1 DEF DiscoveryInv, KnownClusters, Answered, Own, ProgramsOf, Is
<1> QED BY <1>1, <1>2, <1>3, <1>4, <1>5, <1>6, StepsOfDiscovery

\* What is reported of a cluster is its own, and counts no program that the cluster does
\* not have, however the chain goes on between and after the reads.
THEOREM ReportsAreSound == Spec => []DiscoveryIsSound
<1>1. Init => DiscoveryInv
  BY DEF Init, DiscoveryInv, KnownClusters, Idle
<1>2. Spec => []DiscoveryInv
  BY <1>1, DiscoveryStep, CountsOneHolds, ChainHolds, PTL DEF Spec
<1>3. DiscoveryInv => DiscoveryIsSound
  BY DEF DiscoveryInv, KnownClusters, Answered, Own, ProgramsOf, DiscoveryIsSound, get_mxe_count
<1> QED BY <1>2, <1>3, PTL
=============================================================================
