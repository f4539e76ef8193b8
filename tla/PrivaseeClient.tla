--------------------------- MODULE PrivaseeClient ---------------------------
(***************************************************************************)
(* The browser client: storeContactsOnChain and requestPsiDiscovery of     *)
(* app/utils/solana.ts with registerContactsArcium, requestPsiArcium and   *)
(* initializeComputationDefinition of app/utils/arcium-integration.ts,     *)
(* over one localStorage.                                                  *)
(*                                                                         *)
(* A call is one use of one of the functions by one wallet.  One action is *)
(* the code between two awaits of one call, so calls of several pages,     *)
(* tabs and wallets interleave where the code waits.  Whatever a call      *)
(* waits for may fail.  A contact list is the sequence the user entered;   *)
(* the hash of a string is the string, tagged; of a stored entry the set   *)
(* of hashes is kept.  A signature is a position in the ledger.            *)
(***************************************************************************)
EXTENDS Subsequences, FiniteSetsExt, SequencesExt

CONSTANTS
  MaxCalls,      \* bound: calls made in a behavior
  MAX_CONTACTS,  \* longest list storeContactsOnChain accepts
  Wallets,       \* addresses that are public keys of users
  Targets,       \* addresses a user may enter, not all of them public keys
  Contacts,      \* contact strings as entered
  Normal,        \* the trimmed lower-case form of each contact string
  Lists,         \* contact lists users enter
  NoMutual       \* the sentence that is returned in place of matches

ASSUME ClientAssumption ==
  /\ MaxCalls \in Nat
  /\ MAX_CONTACTS \in Nat
  /\ DOMAIN Normal = Contacts
  /\ \A x \in Contacts : Normal[x] \in Contacts => Normal[Normal[x]] = Normal[x]
  /\ Lists \subseteq Seq(Contacts) \ {<<>>}
  /\ NoMutual \notin Contacts

Calls == 1..MaxCalls

VARIABLES
  pc,         \* where each call is
  job,        \* the arguments of the calls made
  signature,  \* the signature a call holds
  reply,      \* what the finished calls have returned
  ledger,     \* the transactions on the chain, each by the call that sent it
  stored,     \* localStorage privasee_contacts, by wallet
  enc_key,    \* localStorage privasee_enc_<wallet>: the call that made the key
  unsaved     \* history: calls whose final save was swallowed

vars == <<pc, job, signature, reply, ledger, stored, enc_key, unsaved>>

Waiting == {"arcium_blockhash", "arcium_send", "arcium_stored", "arcium_delay",
            "memo_blockhash", "memo_send", "memo_confirm", "setup_blockhash", "setup_send"}

\* A partial function like f, with x mapped to y.
Put(f, x, y) == [z \in DOMAIN f \cup {x} |-> IF z = x THEN y ELSE f[z]]

Goto(c, label) == pc' = [pc EXCEPT ![c] = label]

-----------------------------------------------------------------------------
(* Hashes, stored entries and matching. *)

sha3_256(s) == <<"sha3", s>>

hashContact(x) == sha3_256(Normal[x])

\* registerContactsArcium stores the hashes of the strings as entered, without
\* a commitment; saveContactsToStorage stores hashContact of each and one.
RawEntry(c) ==
  [hashes |-> {sha3_256(x) : x \in Range(job[c].contacts)}, commitment |-> FALSE, by |-> c]

StoredContactData(c) ==
  [hashes |-> {hashContact(x) : x \in Range(job[c].contacts)}, commitment |-> TRUE, by |-> c]

TargetHashes(c) ==
  IF job[c].target \in DOMAIN stored THEN stored[job[c].target].hashes ELSE {}

\* requestPsiArcium hashes the strings as entered and never returns an empty list.
ArciumMatches(c) ==
  LET hits == Kept(job[c].contacts, {x \in Contacts : sha3_256(x) \in TargetHashes(c)})
  IN  IF hits = <<>> THEN <<NoMutual>> ELSE hits

\* The contacts whose normal form the target has registered.
Hits(c) == Kept(job[c].contacts, {x \in Contacts : hashContact(x) \in TargetHashes(c)})

\* Mutant of performClientSidePsi: positions in the filtered list are taken for
\* positions in the list of the user.
ShiftedClientSidePsi(c) ==
  [n \in DOMAIN Hits(c) |-> job[c].contacts[n]]

\* performClientSidePsi maps each matched hash back to the first contact of the
\* list that has it.
performClientSidePsi(c) ==
  LET mine == job[c].contacts
      same(x) == {m \in DOMAIN mine : hashContact(mine[m]) = hashContact(x)}
  IN  [n \in DOMAIN Hits(c) |-> mine[Min(same(Hits(c)[n]))]]

-----------------------------------------------------------------------------
Init ==
  /\ pc = [c \in Calls |-> "idle"]
  /\ job = [c \in {} |-> {}]
  /\ signature = [c \in {} |-> 0]
  /\ reply = [c \in {} |-> {}]
  /\ ledger = <<>>
  /\ stored = [w \in {} |-> {}]
  /\ enc_key = [w \in {} |-> 0]
  /\ unsaved = {}

\* Calls are numbered in the order in which they are made.
NextCall(c) == pc[c] = "idle" /\ \A d \in Calls : d < c => pc[d] # "idle"

\* Mutant of storeContactsOnChain: the contacts are persisted first.
StoreBeforeSigning(c, wallet, contacts) ==
  /\ NextCall(c)
  /\ Len(contacts) \in 1..MAX_CONTACTS
  /\ job' = Put(job, c, [kind |-> "register", wallet |-> wallet, contacts |-> contacts])
  /\ stored' = Put(stored, wallet,
                   [hashes |-> {hashContact(x) : x \in Range(contacts)},
                    commitment |-> TRUE, by |-> c])
  /\ Goto(c, "arcium_blockhash")
  /\ UNCHANGED <<signature, reply, ledger, enc_key, unsaved>>

\* storeContactsOnChain up to the first await, in registerContactsArcium.
storeContactsOnChain(c, wallet, contacts) ==
  /\ NextCall(c)
  /\ Len(contacts) \in 1..MAX_CONTACTS
  /\ job' = Put(job, c, [kind |-> "register", wallet |-> wallet, contacts |-> contacts])
  /\ Goto(c, "arcium_blockhash")
  /\ UNCHANGED <<signature, reply, ledger, stored, enc_key, unsaved>>

\* requestPsiDiscovery up to the first await: requestPsiArcium throws at once on
\* a target that is no public key, and sendDiscoveryMemo takes over.
requestPsiDiscovery(c, wallet, target, contacts) ==
  /\ NextCall(c)
  /\ job' = Put(job, c, [kind |-> "discover", wallet |-> wallet,
                         target |-> target, contacts |-> contacts])
  /\ Goto(c, IF target \in Wallets THEN "arcium_blockhash" ELSE "memo_blockhash")
  /\ UNCHANGED <<signature, reply, ledger, stored, enc_key, unsaved>>

\* initializeComputationDefinition up to the node's answer.
initializeComputationDefinition(c, wallet) ==
  /\ NextCall(c)
  /\ job' = Put(job, c, [kind |-> "setup", wallet |-> wallet])
  /\ Goto(c, "setup_blockhash")
  /\ UNCHANGED <<signature, reply, ledger, stored, enc_key, unsaved>>

\* getLatestBlockhash answers, or fails: then arcium mode falls back to the memo,
\* the memo itself and the setup give up.
GetLatestBlockhash(c) ==
  /\ \/ pc[c] = "arcium_blockhash" /\ \E l \in {"arcium_send", "memo_blockhash"} : Goto(c, l)
     \/ pc[c] = "memo_blockhash" /\ \E l \in {"memo_send", "failed"} : Goto(c, l)
     \/ pc[c] = "setup_blockhash" /\ \E l \in {"setup_send", "failed"} : Goto(c, l)
  /\ UNCHANGED <<job, signature, reply, ledger, stored, enc_key, unsaved>>

\* wallet.sendTransaction throws: the user refuses, or the transaction is sent
\* and its answer is lost.
SendThrows(c) ==
  /\ \/ pc[c] = "arcium_send" /\ Goto(c, "memo_blockhash")
     \/ pc[c] \in {"memo_send", "setup_send"} /\ Goto(c, "failed")
  /\ ledger' \in {ledger, Append(ledger, c)}
  /\ UNCHANGED <<job, signature, reply, stored, enc_key, unsaved>>

\* Mutant of Sent: the signature of the transaction before is held.
SentOffByOne(c) ==
  /\ ledger' = Append(ledger, c)
  /\ signature' = Put(signature, c, Len(ledger))

\* The transaction is on the chain and the call holds its signature.
Sent(c) ==
  /\ ledger' = Append(ledger, c)
  /\ signature' = Put(signature, c, Len(ledger'))

\* Mutant of ArciumRegistrationSent: the key is saved as soon as it is used.
ArciumKeySavedEarly(c) ==
  /\ pc[c] = "arcium_send" /\ job[c].kind = "register"
  /\ Sent(c)
  /\ enc_key' = Put(enc_key, job[c].wallet, c)
  /\ \/ stored' = Put(stored, job[c].wallet, RawEntry(c)) /\ Goto(c, "arcium_stored")
     \/ UNCHANGED stored /\ Goto(c, "memo_blockhash")
  /\ UNCHANGED <<job, reply, unsaved>>

\* registerContactsArcium after the await: it stores its own entry; when that
\* throws, the memo transaction is sent as well.
ArciumRegistrationSent(c) ==
  /\ pc[c] = "arcium_send" /\ job[c].kind = "register"
  /\ Sent(c)
  /\ \/ stored' = Put(stored, job[c].wallet, RawEntry(c)) /\ Goto(c, "arcium_stored")
     \/ UNCHANGED stored /\ Goto(c, "memo_blockhash")
  /\ UNCHANGED <<job, reply, enc_key, unsaved>>

\* requestPsiArcium waits two seconds after the transaction is sent.
ArciumDiscoverySent(c) ==
  /\ pc[c] = "arcium_send" /\ job[c].kind = "discover"
  /\ Sent(c)
  /\ Goto(c, "arcium_delay")
  /\ UNCHANGED <<job, reply, stored, enc_key, unsaved>>

Return(c, mode, matches) ==
  /\ reply' = Put(reply, c, [signature |-> signature'[c], mode |-> mode, matches |-> matches])
  /\ Goto(c, "done")

\* initializeComputationDefinition returns the signature, unconfirmed; the other
\* fields of its reply mean nothing.
SetupSent(c) ==
  /\ pc[c] = "setup_send"
  /\ Sent(c)
  /\ Return(c, "arcium", <<>>)
  /\ UNCHANGED <<job, stored, enc_key, unsaved>>

\* saveContactsToStorage replaces the entry of the wallet; errors are swallowed.
saveContactsToStorage(c) ==
  \/ stored' = Put(stored, job[c].wallet, StoredContactData(c)) /\ UNCHANGED unsaved
  \/ UNCHANGED stored /\ unsaved' = unsaved \cup {c}

\* Mutant of ArciumRegistrationDone: only the demo mode persists the contacts.
ArciumNotPersisted(c) ==
  /\ pc[c] = "arcium_stored"
  /\ enc_key' \in {enc_key, Put(enc_key, job[c].wallet, c)}
  /\ UNCHANGED <<job, signature, ledger, stored, unsaved>>
  /\ Return(c, "arcium", <<>>)

\* storeContactsOnChain in arcium mode: saves the key, or fails silently to, and
\* replaces the entry.
ArciumRegistrationDone(c) ==
  /\ pc[c] = "arcium_stored"
  /\ enc_key' \in {enc_key, Put(enc_key, job[c].wallet, c)}
  /\ saveContactsToStorage(c)
  /\ UNCHANGED <<job, signature, ledger>>
  /\ Return(c, "arcium", <<>>)

\* Mutant of ArciumDiscoveryDone: it waits for the target to register.
ArciumAwaitTarget(c) ==
  /\ pc[c] = "arcium_delay"
  /\ job[c].target \in DOMAIN stored
  /\ UNCHANGED <<job, signature, ledger, stored, enc_key, unsaved>>
  /\ Return(c, "arcium", ArciumMatches(c))

\* requestPsiArcium after its delay: compares with what is stored by then.
ArciumDiscoveryDone(c) ==
  /\ pc[c] = "arcium_delay"
  /\ UNCHANGED <<job, signature, ledger, stored, enc_key, unsaved>>
  /\ Return(c, "arcium", ArciumMatches(c))

\* Mutant of MemoSent: a signature from the attempt in arcium mode is kept.
MemoSentKeepingSignature(c) ==
  /\ pc[c] = "memo_send"
  /\ ledger' = Append(ledger, c)
  /\ signature' = IF c \in DOMAIN signature THEN signature
                  ELSE Put(signature, c, Len(ledger'))
  /\ Goto(c, "memo_confirm")
  /\ UNCHANGED <<job, reply, stored, enc_key, unsaved>>

\* sendMemoTransaction and sendDiscoveryMemo up to confirmTransaction.
MemoSent(c) ==
  /\ pc[c] = "memo_send"
  /\ Sent(c)
  /\ Goto(c, "memo_confirm")
  /\ UNCHANGED <<job, reply, stored, enc_key, unsaved>>

MemoRegistrationConfirmed(c) ==
  /\ pc[c] = "memo_confirm" /\ job[c].kind = "register"
  /\ saveContactsToStorage(c)
  /\ UNCHANGED <<job, signature, ledger, enc_key>>
  /\ Return(c, "demo", <<>>)

MemoDiscoveryConfirmed(c) ==
  /\ pc[c] = "memo_confirm" /\ job[c].kind = "discover"
  /\ UNCHANGED <<job, signature, ledger, stored, enc_key, unsaved>>
  /\ Return(c, "demo", performClientSidePsi(c))

\* confirmTransaction throws: the blockhash has expired or the node is gone.
MemoNotConfirmed(c) ==
  /\ pc[c] = "memo_confirm"
  /\ Goto(c, "failed")
  /\ UNCHANGED <<job, signature, reply, ledger, stored, enc_key, unsaved>>

\* The page is reloaded or closed: the call is gone, what it stored stays.
Reload(c) ==
  /\ pc[c] \in Waiting
  /\ Goto(c, "gone")
  /\ UNCHANGED <<job, signature, reply, ledger, stored, enc_key, unsaved>>

\* A call goes on when what it waits for answers.
Continue(c) ==
  \/ GetLatestBlockhash(c)
  \/ SendThrows(c)
  \/ ArciumRegistrationSent(c)
  \/ ArciumDiscoverySent(c)
  \/ ArciumRegistrationDone(c)
  \/ ArciumDiscoveryDone(c)
  \/ MemoSent(c)
  \/ MemoRegistrationConfirmed(c)
  \/ MemoDiscoveryConfirmed(c)
  \/ MemoNotConfirmed(c)
  \/ SetupSent(c)

Next ==
  \E c \in Calls :
    \/ \E w \in Wallets, l \in Lists : storeContactsOnChain(c, w, l)
    \/ \E w \in Wallets, t \in Targets, l \in Lists : requestPsiDiscovery(c, w, t, l)
    \/ \E w \in Wallets : initializeComputationDefinition(c, w)
    \/ Continue(c)
    \/ Reload(c)

Spec == Init /\ [][Next]_vars

\* Nodes answer or time out, and the user answers the prompts of the wallet.
FairSpec == Spec /\ \A c \in Calls : WF_vars(Continue(c))

-----------------------------------------------------------------------------
(* Properties. *)

Job == [kind : {"register"}, wallet : Wallets, contacts : Lists]
         \cup [kind : {"discover"}, wallet : Wallets, target : Targets, contacts : Lists]
         \cup [kind : {"setup"}, wallet : Wallets]

Hashes == {sha3_256(x) : x \in Contacts} \cup {hashContact(x) : x \in Contacts}

\* Every variable has its type.
TypeOK ==
  /\ pc \in [Calls -> Waiting \cup {"idle", "done", "failed", "gone"}]
  /\ DOMAIN job = {c \in Calls : pc[c] # "idle"}
  /\ \A c \in DOMAIN job : job[c] \in Job
  /\ DOMAIN reply = {c \in Calls : pc[c] = "done"}
  /\ DOMAIN reply \subseteq DOMAIN signature /\ DOMAIN signature \subseteq DOMAIN job
  /\ \A c \in DOMAIN signature : signature[c] \in 1..Len(ledger)
  /\ \A c \in DOMAIN reply :
       /\ reply[c].signature \in 1..Len(ledger)
       /\ reply[c].mode \in {"arcium", "demo"}
       /\ Range(reply[c].matches) \subseteq Contacts \cup {NoMutual}
  /\ Range(ledger) \subseteq Calls
  /\ DOMAIN stored \subseteq Wallets
  /\ \A w \in DOMAIN stored :
       stored[w] \in [hashes : SUBSET Hashes, commitment : BOOLEAN, by : Calls]
  /\ DOMAIN enc_key \subseteq Wallets
  /\ \A w \in DOMAIN enc_key : enc_key[w] \in Calls
  /\ unsaved \subseteq Calls

\* The transactions of a call.
SentBy(c) == {n \in DOMAIN ledger : ledger[n] = c}

\* A call that returns has been signed for by its wallet: its signature is that
\* of the last transaction it sent, also when an attempt in arcium mode had got
\* onto the chain before.  A fallback costs one transaction more, never two.
ReturnsAreSigned ==
  /\ \A c \in DOMAIN reply :
       /\ reply[c].signature \in SentBy(c)
       /\ \A n \in SentBy(c) : n <= reply[c].signature
       /\ reply[c].mode = "arcium" => Cardinality(SentBy(c)) = 1
  /\ \A c \in Calls : Cardinality(SentBy(c)) <= 2

\* Nothing is compared that its wallet has not signed for: a stored entry holds
\* the contacts of a registration of that wallet that is on the chain.
StoredWasSigned ==
  \A w \in DOMAIN stored :
    LET c == stored[w].by
    IN  /\ job[c].kind = "register" /\ job[c].wallet = w
        /\ stored[w] \in {RawEntry(c), StoredContactData(c)}
        /\ SentBy(c) # {}

\* Whatever ran in between, every contact reported is one of the user's and is,
\* up to case, in a list the target has registered.
MatchesAreMutual ==
  \A c \in DOMAIN reply :
    \A x \in Range(reply[c].matches) \ {NoMutual} :
      /\ x \in Range(job[c].contacts)
      /\ \E d \in DOMAIN job :
           /\ job[d].kind = "register" /\ job[d].wallet = job[c].target
           /\ \E y \in Range(job[d].contacts) : Normal[x] = Normal[y]

\* An entry in the format of registerContactsArcium is on its way to be replaced
\* by its own call, unless that was reloaded or could not save.
RawEntryIsTransient ==
  \A w \in DOMAIN stored :
    LET c == stored[w].by
    IN  ~stored[w].commitment => pc[c] \in {"arcium_stored", "gone"} \/ c \in unsaved

\* The key kept for decrypting results belongs to a registration of the wallet
\* that went through in arcium mode, never to one that fell back or was lost.
KeyIsOfArciumRegistration ==
  \A w \in DOMAIN enc_key :
    LET c == enc_key[w]
    IN  /\ c \in DOMAIN reply /\ reply[c].mode = "arcium"
        /\ job[c].kind = "register" /\ job[c].wallet = w

\* To a page a call is one of LibraryCalls: whatever fails and whatever else runs,
\* it ends, once, with a result or an error.
Library == INSTANCE LibraryCalls WITH
  outcome <- [c \in Calls |->
                CASE pc[c] = "idle" -> "none"
                  [] pc[c] \in Waiting -> "waiting"
                  [] pc[c] = "done" -> "returned"
                  [] pc[c] = "failed" -> "thrown"
                  [] pc[c] = "gone" -> "lost"],
  mode    <- [c \in Calls |-> IF c \in DOMAIN reply THEN reply[c].mode ELSE "none"]

ImplementsLibrary == Library!CallSpec

(* Claims of the code and its documents that do not hold. *)

\* "Only shows contacts that were found in BOTH users' contact lists."
OnlyMutualContacts ==
  \A c \in DOMAIN reply :
    job[c].kind = "discover" => Range(reply[c].matches) \subseteq Range(job[c].contacts)

\* "both on-chain (commitment) and in localStorage (hashes)": once a wallet's
\* registrations have all succeeded in demo mode, and every save has worked, the
\* stored contacts are those of the last registration on the chain.
LatestRegistrationIsStored ==
  \A w \in Wallets :
    LET calls == {c \in DOMAIN job : job[c].kind = "register" /\ job[c].wallet = w}
        sent  == {n \in DOMAIN ledger : ledger[n] \in calls}
    IN  (\A c \in calls : c \in DOMAIN reply /\ reply[c].mode = "demo" /\ c \notin unsaved) =>
          \A n \in sent : n = Max(sent) => stored[w].by = ledger[n]

\* "Synchronized with solana.ts format": a discovery in arcium mode reports every
\* contact it has in common with the completed registration that is stored for
\* the target, as entered by both.
RegisteredContactsAreFound ==
  [][\A c \in Calls :
       (pc[c] = "arcium_delay" /\ pc'[c] = "done" /\ job[c].target \in DOMAIN stored) =>
         LET d == stored[job[c].target].by
         IN  pc[d] = "done" =>
               Range(job[c].contacts) \cap Range(job[d].contacts)
                 \subseteq Range(reply'[c].matches)]_vars
=============================================================================
