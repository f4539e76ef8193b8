------------------------- MODULE MCPrivaseeProgram -------------------------
(* Two wallets, two offsets and two encrypted sets: enough for a request to  *)
(* oneself, for two wallets choosing the same offset, for a set that is      *)
(* replaced while a computation is queued, and for the output of one         *)
(* computation to meet the request of another.  The sets are what two lists  *)
(* of contacts become, one shorter than the account and one that fills it.   *)
EXTENDS ProgramArguments, FiniteSets

MCUsers   == {"alice", "bob"}
MCOffsets == {1, 2}

MCHashes == {<<3, 7>>, <<7, 9>>}

\* Lists of at most MAX_CONTACTS different hashes.
MCLists == {l \in UNION {[1 .. n -> MCHashes] : n \in 0 .. MAX_CONTACTS} : IsInjective(l)}

MCSetOf(key, hashes) ==
  [encryption_key |-> key, nonce |-> Len(hashes),
   ciphertexts    |-> RegisteredCiphertexts(prepareContactsForEncryption(hashes))]

MCSets == {MCSetOf("keyX", <<<<3, 7>>>>), MCSetOf("keyY", <<<<7, 9>>, <<3, 7>>>>)}

-----------------------------------------------------------------------------
(* What the layouts come to, for every list. *)

\* The circuit would read the values the client prepares as the contacts,
\* padded, and their number: client and circuit agree on the layout of a set.
ASSUME LayoutsAgree ==
  \A l \in MCLists :
    ContactSetOf(prepareContactsForEncryption(l)) =
      [contacts |-> [i \in 1 .. MAX_CONTACTS |->
                       IF i <= Len(l) THEN splitHash(l[i]) ELSE [lo |-> 0, hi |-> 0]],
       count    |-> Len(l)]

\* Different lists stay different: neither the split nor the padding confuses two.
ASSUME LayoutKeepsLists ==
  \A k, l \in MCLists : prepareContactsForEncryption(k) = prepareContactsForEncryption(l) => k = l

\* The client reads the circuit's output as the flagged slots and the count.
ASSUME ResultIsParsed ==
  \A flags \in [1 .. MAX_CONTACTS -> BOOLEAN] :
    LET flagged == {i \in 1 .. MAX_CONTACTS : flags[i]}
        parsed  == parsePsiResult(PsiResultValues(
                     [matches        |-> flags,
                      matched_hashes |-> [i \in 1 .. MAX_CONTACTS |-> [lo |-> i, hi |-> i]],
                      match_count    |-> Cardinality(flagged)]))
    IN  /\ ToSet(parsed.matchIndices) = {i - 1 : i \in flagged}
        /\ parsed.matchCount = Len(parsed.matchIndices)

\* An account has room for half of the values of a full set: the other
\* contacts and the number of contacts are cut off.
ASSUME AccountsAreTooShort ==
  \A l \in MCLists :
    RegisteredCiphertexts(prepareContactsForEncryption(l))
      = SubSeq(prepareContactsForEncryption(l), 1, MAX_CONTACTS)

\* The program's arguments are not those of the compiled circuit: the first
\* ciphertext of the first set is sent as a point.
ASSUME ArgumentsDoNotMatchCircuit ==
  \A a, b \in MCSets :
    args_match_params(PsiArguments(a, b).args, <<>>, CircuitSetParameters \o CircuitSetParameters)
      = <<"ArgumentMismatch", 3>>

-----------------------------------------------------------------------------
(* Matching, against a definition that does not count: what each argument     *)
(* stands for, laid end to end, is what the circuit takes.                    *)

MCParameters == {"Ciphertext", "PlaintextU8", "PlaintextU128"}
MCAccounts   == [n \in 1 .. 4 |-> [pubkey |-> "account", offset |-> 0, length |-> <<0, 32, 64, 33>>[n]]]
MCArguments  == {ArgumentRef(k, 0) : k \in {"EncryptedU8", "PlaintextU8", "PlaintextU128"}}
                  \cup {ArgumentRef("Account", n) : n \in 0 .. 3}
                  \cup {ArgumentRef("ArcisEd25519Signature", 0)}

\* The parameters an argument may stand for, one set for each.
MCStandsFor(arg) ==
  CASE arg.kind = "Account" -> [n \in 1 .. MCAccounts[arg.at + 1].length \div 32 |-> MCParameters]
    [] arg.kind = "ArcisEd25519Signature" -> [n \in 1 .. SIGNATURE_BYTES |-> {"PlaintextU8"}]
    [] OTHER -> <<{IF arg.kind \in Encrypted THEN "Ciphertext" ELSE arg.kind}>>

\* Parameters up to three, alone or behind those of a signature.
MCParameterLists ==
  LET short == UNION {[1 .. n -> MCParameters] : n \in 0 .. 3}
  IN  short \cup {[n \in 1 .. SIGNATURE_BYTES |-> "PlaintextU8"] \o s : s \in short}

\* A list of arguments is accepted exactly if its accounts are whole and what
\* it stands for has the length and the kinds of the circuit's parameters.
ASSUME MatchingIsByPosition ==
  \A args \in UNION {[1 .. n -> MCArguments] : n \in 0 .. 3}, parameters \in MCParameterLists :
    LET needed == FlattenSeq([n \in 1 .. Len(args) |-> MCStandsFor(args[n])])
        whole  == \A n \in 1 .. Len(args) :
                    args[n].kind = "Account" => MCAccounts[args[n].at + 1].length % 32 = 0
    IN  args_match_params(args, MCAccounts, parameters) = Ok
          <=> /\ whole
              /\ Len(needed) = Len(parameters)
              /\ \A n \in 1 .. Len(needed) : parameters[n] \in needed[n]
=============================================================================
