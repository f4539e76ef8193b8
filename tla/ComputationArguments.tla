------------------------- MODULE ComputationArguments -------------------------
(***************************************************************************)
(* The arguments of a computation, as arcium-anchor builds them            *)
(* (arg_builder.rs) and compares them with the parameters of a circuit     *)
(* (arg_match_param.rs).  An argument that does not fit in its place is     *)
(* kept in a table and refers to it by an index of one byte.               *)
(***************************************************************************)
EXTENDS Integers, Sequences, SequencesExt, FiniteSetsExt

CONSTANT INDEX_VALUES   \* how many values an index has; 256 in the code

ASSUME IndexAssumption == INDEX_VALUES \in Nat \ {0}

Direct  == {"PlaintextBool", "PlaintextU8", "PlaintextI8"}
Numbers == {"PlaintextU16", "PlaintextU32", "PlaintextU64", "PlaintextI16", "PlaintextI32",
            "PlaintextI64", "PlaintextFloat"}
Wide    == {"PlaintextU128", "PlaintextI128"}
Encrypted == {"EncryptedBool", "EncryptedU8", "EncryptedU16", "EncryptedU32", "EncryptedU64",
              "EncryptedU128", "EncryptedI8", "EncryptedI16", "EncryptedI32", "EncryptedI64",
              "EncryptedI128", "EncryptedFloat"}

\* The table that values of a kind are kept in.
Table(kind) ==
  CASE kind \in Numbers -> "plaintext_numbers"
    [] kind \in Wide    -> "values_128_bit"
    [] OTHER            -> "byte_arrays"

-----------------------------------------------------------------------------
(* ArgBuilder. *)

new == [args |-> <<>>, byte_arrays |-> <<>>, plaintext_numbers |-> <<>>,
        values_128_bit |-> <<>>, accounts |-> <<>>]

\* An argument of a kind, and its value or the index of its value.
ArgumentRef(kind, at) == [kind |-> kind, at |-> at]

direct(list, kind, value) == [list EXCEPT !.args = Append(@, ArgumentRef(kind, value))]

indexed(list, kind, value) ==
  LET table == Table(kind)
  IN  [list EXCEPT !.args = Append(@, ArgumentRef(kind, Len(list[table]) % INDEX_VALUES)),
                   ![table] = Append(@, value)]

\* A signature takes two byte arrays and refers to the first.
arcis_ed25519_signature(list, lower, upper) ==
  [list EXCEPT !.args = Append(@, ArgumentRef("ArcisEd25519Signature",
                                              Len(list.byte_arrays) % INDEX_VALUES)),
               !.byte_arrays = @ \o <<lower, upper>>]

account(list, pubkey, offset, length) ==
  [list EXCEPT !.args = Append(@, ArgumentRef("Account", Len(list.accounts) % INDEX_VALUES)),
               !.accounts = Append(@, [pubkey |-> pubkey, offset |-> offset, length |-> length])]

add_shared_encrypted_struct(list, value) ==
  LET with[n \in 0 .. Len(value.ciphertexts)] ==
        IF n = 0 THEN indexed(indexed(list, "X25519Pubkey", value.encryption_key),
                              "PlaintextU128", value.nonce)
        ELSE indexed(with[n - 1], "PlaintextPoint", value.ciphertexts[n])
  IN  with[Len(value.ciphertexts)]

\* Mutant of PsiArguments: two lists joined with the indices they have alone.
PsiArgumentsJoined(set_a, set_b) ==
  LET list_a == add_shared_encrypted_struct(new, set_a)
      list_b == add_shared_encrypted_struct(new, set_b)
  IN  [table \in DOMAIN new |-> list_a[table] \o list_b[table]]

\* request_psi: the two sets, the requester's first.
PsiArguments(set_a, set_b) ==
  add_shared_encrypted_struct(add_shared_encrypted_struct(new, set_a), set_b)

-----------------------------------------------------------------------------
(* Matching with the parameters of a circuit. *)

arg_match_param(arg, param) ==
  CASE arg.kind \in Encrypted      -> param = "Ciphertext"
    [] arg.kind = "X25519Pubkey"   -> param = "ArcisX25519Pubkey"
    [] OTHER                       -> param = arg.kind

SIGNATURE_BYTES == 64

\* What the n-th argument does to the number of parameters matched so far.
MatchArgument(r, n, arg, accounts, parameters) ==
  LET error(what) == [r EXCEPT !.error = <<what, n>>]
      matches(k)  == r.param_idx + k <= Len(parameters)
      length      == accounts[arg.at + 1].length
      byte(k)     == matches(k) /\ parameters[r.param_idx + k] = "PlaintextU8"
      bad         == {k \in 1 .. SIGNATURE_BYTES : ~ byte(k)}
  IN  CASE arg.kind = "Account" ->
             IF length % 32 # 0 THEN error("AccountLenNotMultipleOf32")
             ELSE IF ~ matches(length \div 32) THEN error("AccountLenTooBig")
             ELSE [r EXCEPT !.param_idx = @ + length \div 32]
        [] arg.kind = "ArcisEd25519Signature" ->
             IF bad = {} THEN [r EXCEPT !.param_idx = @ + SIGNATURE_BYTES]
             ELSE error(IF matches(Min(bad)) THEN "ArgumentMismatch" ELSE "NotEnoughParams")
        [] OTHER ->
             IF ~ matches(1) THEN error("NotEnoughParams")
             ELSE IF ~ arg_match_param(arg, parameters[r.param_idx + 1]) THEN error("ArgumentMismatch")
             ELSE [r EXCEPT !.param_idx = @ + 1]

Ok == <<"Ok">>

\* The first error, with the number of its argument, or Ok.
args_match_params(arguments, accounts, parameters) ==
  LET matched[n \in 0 .. Len(arguments)] ==
        IF n = 0 THEN [param_idx |-> 0, error |-> Ok]
        ELSE IF matched[n - 1].error # Ok THEN matched[n - 1]
        ELSE MatchArgument(matched[n - 1], n, arguments[n], accounts, parameters)
      all == matched[Len(arguments)]
  IN  IF all.error # Ok THEN all.error
      ELSE IF all.param_idx < Len(parameters) THEN <<"NotEnoughArguments">> ELSE Ok

-----------------------------------------------------------------------------
\* How a node reads an argument that is one value.
ValueOf(list, arg) ==
  IF arg.kind \in Direct THEN arg.at ELSE list[Table(arg.kind)][arg.at + 1]
=============================================================================
