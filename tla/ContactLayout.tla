---------------------------- MODULE ContactLayout -----------------------------
(***************************************************************************)
(* The layouts in which contacts travel: the values the client encrypts    *)
(* (crypto.ts), the ciphertexts of the account (arcium-integration.ts), and *)
(* the inputs and outputs of the compiled circuit (build/compute_psi.ts).  *)
(* Encryption is left out: a ciphertext is the value in it.                *)
(***************************************************************************)
EXTENDS Integers, Sequences, SequencesExt

CONSTANTS MAX_CONTACTS,
          HALF            \* bytes of half a hash; 16 in the code

ASSUME LayoutAssumption == MAX_CONTACTS \in Nat \ {0} /\ HALF \in Nat \ {0}

-----------------------------------------------------------------------------
(* What the client sends. *)

\* The first byte is the least significant.
Word(bytes) == FoldRight(LAMBDA byte, rest : rest * 256 + byte, bytes, 0)

splitHash(hash) == [lo |-> Word(SubSeq(hash, 1, HALF)), hi |-> Word(SubSeq(hash, HALF + 1, 2 * HALF))]

\* Two values for each slot, then the count.
prepareContactsForEncryption(hashes) ==
  FlattenSeq([i \in 1 .. MAX_CONTACTS |->
                IF i <= Len(hashes) THEN <<splitHash(hashes[i]).lo, splitHash(hashes[i]).hi>>
                                    ELSE <<0, 0>>])
    \o <<Len(hashes)>>

\* The ciphertexts of an account are as many as there are slots: what is left over is cut off.
RegisteredCiphertexts(encryptedContacts) ==
  [i \in 1 .. MAX_CONTACTS |-> IF i <= Len(encryptedContacts) THEN encryptedContacts[i] ELSE 0]

\* Flags, then the hashes, then the count; indices start at zero.
parsePsiResult(decryptedValues) ==
  [matchIndices |-> SelectSeq([i \in 1 .. MAX_CONTACTS |-> i - 1],
                              LAMBDA i : decryptedValues[i + 1] # 0),
   matchCount   |-> decryptedValues[MAX_CONTACTS + MAX_CONTACTS * 2 + 1]]

-----------------------------------------------------------------------------
(* What the circuit takes and returns: the fields of its structures in order. *)

SetValues == 2 * MAX_CONTACTS + 1

ContactSetOf(values) ==
  [contacts |-> [i \in 1 .. MAX_CONTACTS |-> [lo |-> values[2 * i - 1], hi |-> values[2 * i]]],
   count    |-> values[SetValues]]

PsiResultValues(result) ==
  [i \in 1 .. MAX_CONTACTS |-> IF result.matches[i] THEN 1 ELSE 0]
    \o FlattenSeq([i \in 1 .. MAX_CONTACTS |->
                     <<result.matched_hashes[i].lo, result.matched_hashes[i].hi>>])
    \o <<result.match_count>>
=============================================================================
