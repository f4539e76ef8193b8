--------------------------- MODULE ProgramArguments ---------------------------
(***************************************************************************)
(* The computations of PrivaseeProgram with their arguments as they travel *)
(* from the program to a node: request_psi builds a list out of the two    *)
(* registered sets, and a node reads the list.                             *)
(***************************************************************************)
EXTENDS PrivaseeProgram, ComputationArguments, ContactLayout

\* The ciphertexts of a set fill its account, and no list has more arguments than an index
\* has values: there are 44.
ASSUME SetsAssumption ==
  /\ \A set \in Sets : set.ciphertexts = [i \in 1 .. MAX_CONTACTS |-> set.ciphertexts[i]]
  /\ 2 * (MAX_CONTACTS + 2) <= INDEX_VALUES

\* The list queued for computation o.
QueuedList(o) == PsiArguments(computation[o].args[1], computation[o].args[2])

\* The parameters the program's list is made for: each set is a key, a nonce and points.
SetParameters ==
  <<"ArcisX25519Pubkey", "PlaintextU128">> \o [i \in 1 .. MAX_CONTACTS |-> "PlaintextPoint"]

\* The parameters of the compiled circuit: each set is a key, a nonce and a ciphertext per value.
CircuitSetParameters ==
  <<"ArcisX25519Pubkey", "PlaintextU128">> \o [i \in 1 .. SetValues |-> "Ciphertext"]

\* The values of a set in the order of its parameters.
ValuesOf(set) == <<set.encryption_key, set.nonce>> \o set.ciphertexts

\* A node that reads the arguments of a computation finds the sets that were
\* queued: the requester's key, nonce and ciphertexts, then the target's, none
\* lost, moved or read from the place of another, whichever sets they are and
\* whatever was registered since; and the list has as many arguments, of the
\* kinds, as add_shared_encrypted_struct stands for.
ArgumentsCarrySets ==
  \A o \in DOMAIN computation :
    LET list == QueuedList(o)
        sets == computation[o].args
    IN  /\ args_match_params(list.args, list.accounts, SetParameters \o SetParameters) = Ok
        /\ [n \in 1 .. Len(list.args) |-> ValueOf(list, list.args[n])]
             = ValuesOf(sets[1]) \o ValuesOf(sets[2])
=============================================================================
