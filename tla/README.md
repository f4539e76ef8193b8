# PrivaSee: TLA+ specifications, model checks and proofs

PrivaSee lets two wallets find the contacts they have in common. This directory
holds TLA+ modules translated from its code, TLC runs over small instances of
them, and proofs that TLAPS checks for every value of the constants. Paths below
are relative to the repository root (`src/...`).

Run a check with `tlc -config X.cfg M` inside this directory and a proof with
`tlapm M.tla`. `PROJECT.json` lists the runs, the line ranges every definition
stands for, the hazards, and for every property a mutation of the model that
violates it.

## 1. Inventory

| Component | Source | State it keeps | Operations |
|---|---|---|---|
| PSI circuit | `encrypted-ixs/src/lib.rs` | two input sets, loop counters, the result under construction | `compute_psi` with `hashes_equal`, `is_empty_hash` |
| On-chain program | `programs/privasee/src/lib.rs` | `ArciumSignerAccount`, `UserRegistry` per wallet, `PsiRequest` per wallet and offset | `init_compute_psi_comp_def`, `register_contacts`, `request_psi`, `compute_psi_callback` |
| Client library | `app/utils/{solana,arcium-integration,crypto}.ts` | localStorage: contacts by wallet, an encryption key by wallet | `storeContactsOnChain`, `requestPsiDiscovery`, `initializeComputationDefinition`; readers of localStorage |
| Discover page | `app/discover/page.tsx` | status, matches, transaction, error, mode of the result | `handleDiscover`, `handleSetupNetwork`, New Search |
| Register page, contact input | `app/register/page.tsx`, `app/components/ContactInput.tsx` | status, count, signature and mode of the result, notice of earlier contacts; the list being entered | `handleSubmit`, the effect on wallet and status, Register More; `addContact`, `handlePaste`, `removeContact` |
| arcium-anchor (vendored, patched) | `patched-arcium-anchor/src` | the argument list under construction | `queue_computation`, `init_comp_def`, `ArgBuilder`, `args_match_params` |
| arcium-client (vendored, patched) | `patched-arcium-client/src` | none between calls; reads Arcium's accounts | address derivations (`pda.rs`), about sixty instruction builders (`instruction.rs`), the transactions made of them (`transactions.rs`), readers of mempool and execution pool and `get_cluster_discovery_info` (`state.rs`) |
| Arcium program, cluster, relays | not in the repository; `patched-arcium-client/idls` describes its accounts | accounts of nodes, clusters, programs, computations, claims, stakes; a queue per cluster | checks of accounts and signers, execution, finalization, sending of callbacks |
| Presentation | the other components | none | rendering |

How they interact. The pages call the client library and await it. The library
asks a node for a blockhash, the wallet for a signature and again the node for a
confirmation, and reads and writes localStorage between those awaits. In arcium
mode (`PROGRAM_DEPLOYED`) it sends a memo in place of the program's
instructions and does not wait for its confirmation; if anything fails it falls
back to the demo mode, which sends a second memo and confirms it. The program
calls Arcium (`queue_computation`) in the transaction that creates a request;
the cluster runs the circuit on the queued arguments; a relay submits the
output to `compute_psi_callback`. The vendored client is what operators of nodes,
owners of programs and observers use against the same Arcium program: it derives
addresses, builds instructions from them, sends transactions and reads queues and
clusters back.

Behaviour that is hard to test, and what makes each part correct:

* Circuit: counts below and above the capacity, empty slots, repeated contacts,
  byte counters. Correct when the result is exactly the intersection, for the
  requester only, and when its work does not depend on the data.
* Program: wallets choose offsets independently; sets are replaced while a
  computation is queued; outputs come late, twice, out of order or with another
  request; a handler writes before it fails. Correct when requests and
  computations stay paired and completion is announced, backed by a
  computation, and final.
* Client library: every await can fail or be the last thing a page does; two
  tabs and two wallets share one localStorage; a fallback repeats what may have
  happened already. Correct when what is stored and what is returned was signed
  for, what is reported is mutual, and every call ends.
* Discover page: two handlers that overlap write one status; pages are left,
  opened again and reloaded; wallets change. Correct when what is shown is one
  result and the spinner stands for something that runs.
* Register page and contact input: a paste uses a list that is stale after its
  first address; the limit of 20 is tested in several places; the list, the
  wallet and the page change while a registration runs. Correct when the limit
  holds, one registration runs at a time, and number, signature and notice shown
  belong together.
* Arguments: a list with four tables, referred to by an index of one byte.
  Correct when a node reads from the list the sets that were registered.
* Vendored client: addresses derived in one place and checked in another, for
  accounts of several parties; transactions of two and three instructions that
  must not be half done; a circular buffer that wraps; a discovery that reads
  clusters, nodes and programs at different times while all of them change.
  Correct when what is built is what the Arcium program takes, whatever has
  happened before, and when the readers see what is there.

`PROJECT.json` lists these hazards one by one, at their lines, with the
properties that would catch them.

## 2. Modules and the code they stand for

```
PsiCircuit <- MCPsiCircuit, PsiCircuitProofs
PsiService <= PrivaseeProgram
              PrivaseeProgram, ComputationArguments, ContactLayout
                <- ProgramArguments <- MCPrivaseeProgram, PrivaseeProgramProofs
LibraryCalls <= PrivaseeClient <- MCPrivaseeClient, PrivaseeClientProofs
LibraryCalls <- DiscoverPage <- MCDiscoverPage, DiscoverPageProofs
LibraryCalls, ContactInput <- RegisterPage <- MCRegisterPage, RegisterPageProofs
ArciumAccounts <- ArciumInstructions
ArciumInstructions, Mempool <- ArciumProgram <- ArciumTransactions
                <- ArciumNetwork <- MCArciumNetwork, ArciumNetworkProofs
ArciumNetworkProofs <- ArciumChecksProofs
Subsequences <- PrivaseeClient, ContactInput, Mempool
Subsequences <- SubsequencesProofs <- PrivaseeClientProofs, RegisterPageProofs,
                                      PrivaseeProgramProofs, ArciumNetworkProofs
```
`<-` is EXTENDS, `<=` is "is implemented by", by INSTANCE under a refinement mapping.

**PsiCircuit** is `compute_psi`. One step is one iteration of the inner loop
(`CompareSlots`), the tail of one iteration of the outer loop (`RecordSlot`) or
the return (`ReturnResult`). Hashes keep their two halves, halves are abstract
words, `u8` wraps. `Init` ranges over every pair of sets of the type.

**PrivaseeProgram** is the program. One action is one transaction that commits.
Account constraints and `require!` are guards; `init` is "not in the domain",
`init_if_needed` is `Put`. The runtime restores all accounts when a handler
fails, so a transaction that fails in its constraints, in its arguments or in
the call to Arcium is no step. The callback is one: its handler writes status 2
and then returns an error, `CallbackBody` says what it writes and whether it
returns `Ok`, and `ComputePsiCallback` keeps the writes only then.
Encrypted sets are abstract and an output is identified with the pair of sets it
was computed from; PsiCircuit says what that output is. `Execute` (the cluster)
and the delivery of outputs are external: a relay submits only outputs of
finalized computations, since Arcium verifies them, but to any request, in any
order, any number of times, because no constraint relates `psi_request` and
`computation_account`. `Init` also allows a deployment whose signer account an
earlier version has created with the canonical bump, because under the present
`init_compute_psi_comp_def` no request can ever commit (see section 5).

**PsiService** is what the program promises: a user registers a set and may
replace it; a request pairs the two sets registered at that moment under a
number nobody has used; it is answered at most once. A request maps to a job
whose sets are the arguments of the computation under its offset, and is
answered when its status is 3.

**PrivaseeClient** is the library. A call is one use of one of the three
functions; `pc[c]` names the await where it is suspended, and one action is the
code between two awaits, which JavaScript runs without interruption (two tabs
share localStorage, whose access within one such stretch we take as atomic).
Every await may fail; a transaction may reach the chain although its answer is
lost; `localStorage.setItem` may throw, which `registerContactsArcium` passes on
and `saveContactsToStorage` swallows (`unsaved`); a page may be reloaded at any
await. A contact list is the sequence entered, a hash is the tagged string: of
the string as entered for `sha3_256`, of its trimmed lower-case form for
`hashContact`, because the two modules of the library use different ones. Calls
are numbered in the order they are made.

**LibraryCalls** is what a page sees of a call: it is made, waits, and then
returns in one mode or throws, or is lost with its page. `PrivaseeClient`
implements it, its fairness included, and `DiscoverPage` is built on it, so the
page is checked against a library that may do no more than the real one.

**DiscoverPage** is the page. A run is one execution of a handler and makes the
call with its number; `run[r].at` is the timer or call it awaits. All runs of a
page write one record `page`, as the `useState` setters do; runs of a page that
was left go on and write nothing. The form is there only in the states in which
the code renders it, the setup button always. The mode in which a call returns
is free, which stands for both values of `PROGRAM_DEPLOYED`. A setup has a
mode as well, which nothing reads.

**Subsequences** is the filter of a list by a set (`Kept`), written as a recursive
function because a proof can unfold one; the library and the page filter with it.

**ContactInput** is the list and what may become of it: an address typed, a text
pasted, an entry removed. Addresses are model values and every text that is no
address is `Invalid`. `handlePaste` filters by the list from before the paste and
then cuts to the room left, as the code does.

**RegisterPage** is the page around it, over `LibraryCalls`: `ClickRegister` is
`handleSubmit` up to its await, `ResumeRun` what follows it, with the number of
contacts of the closure. React renders between handlers, so whether the effect on
`[publicKey, status]` runs is decided in `Render`, and when it runs is a step of
its own (`effectDue`). `registered` is how many contacts localStorage holds for a
wallet; a call that returns may have failed to store them, which it swallows.

**ContactLayout** are the layouts in which contacts travel: the 41 values of
`prepareContactsForEncryption`, the ciphertexts `buildRegisterContactsIx` keeps,
the inputs and outputs of the generated circuit and `parsePsiResult`. A
ciphertext is the value in it; half a hash is a number, least byte first.

**ComputationArguments** is `ArgBuilder` and `args_match_params`. An argument
that does not fit in its place is appended to one of four tables and the argument
is its index there, modulo `INDEX_VALUES` (256). `ValueOf` is how a reader finds
it. **ProgramArguments** composes the two with `PrivaseeProgram`: the list
`request_psi` builds of two registered sets, in the order of the code.

**ArciumAccounts** gives every address of `pda.rs` as the tuple of its seeds.
**ArciumInstructions** has one operator per builder of `instruction.rs`: the
accounts by role and the arguments, with the address derivations where the code
makes them. Prices, keys, metadata and circuits are left out, and so are accounts
that are the same in every instruction. **ArciumTransactions** says which
instructions each function of `transactions.rs` puts into a transaction, in which
order, and who signs; `send_tx` panics unless the transaction is confirmed, so a
transaction that is refused is no step.

**ArciumProgram** (external) is the other side, from the IDLs and from what the
readers suppose. For each instruction `Expected` derives the addresses anew, not
from the builder but from the arguments and from what accounts on the chain hold;
it says who must sign, what must exist and not exist, and what changes.
`Outcome` applies the instructions of a transaction one after the other and
restores everything if one is refused, with the reason (`refusal`).

**Mempool** is the circular buffer and the execution pool with their readers
(`state.rs`); the writing side (`Push`, `Advance`, `TakeOut`) is external: a slot that
is reused keeps its old heap, and its valid bit is cleared until something is put
in it, which is why the reader tests the bit.

**ArciumNetwork** is all of this at work. The library's transactions touch
groups of accounts that have little to do with each other, so a behaviour is about
one `topic`: nodes and clusters, discovery, the setup of programs, computations
and claims, keys, recovery, staking. `SetUp` makes the chain a topic starts from
by applying the library's own transactions, never by writing accounts down.
Nodes take computations, time passes, and `get_cluster_discovery_info` runs as
`DiscoverClusters`, `LookUpCluster`, `CountMxes`/`CountFails`, `ReturnInfos` with
the chain changing in between. A caller passes what it can read: a program's
cluster, a node's cluster, the target of a stake.

## 3. Runs

| Run | Instance | Distinct states | What it shows |
|---|---|---|---|
| `circuit` | 2 slots, 2 values per half, counts 0..3, 2 owners | 131 072 | exact intersection for every pair of sets, exact count, data-independent schedule, it returns |
| `program` | 2 wallets, 2 offsets, 2 sets | 18 331 | pairing, uniqueness of offsets, announced and final completion, `PsiService` |
| `client` | 2 calls, 2 wallets, 2 targets (one no public key), contacts differing in case | 118 957 | signed returns and entries, mutual matches, formats and keys of entries, `LibraryCalls` |
| `discover_page` | 3 runs of any kind | 77 472 | one result shown, live spinner, overlap only through setup, spinner ends |
| `register_page` | 2 registrations, 2 wallets, 2 addresses, limit 2, pastes of up to 3 entries | 200 846 | the limit, one registration at a time, what is shown is one registration, the notice is the wallet's, spinner ends |
| `arcium_network` | 7 topics; 2 nodes, 2 clusters, 2 programs, 3 offsets, a buffer of 2 slots of 2 references | 100 057 | builders and program agree, no transaction is half done, readers see queue and clusters |
| six violation runs | as above | - | section 5 |

Why these bounds are enough. Circuit: two slots give a filled slot after an
empty one, a repetition, a count below, at and above the capacity; two values
per half give hashes that agree in one half only; the theorems cover every
capacity. Program: two wallets and two offsets give the collision of offsets, a
request to oneself and an output that meets the other request; two sets give a
replacement while a computation is queued; the theorems cover every size.
Client: two overlapping calls of any kinds give two registrations of a wallet, a
registration under a discovery of it, and a fallback inside either; the lists
contain contacts that are equal up to case, within one list and across lists,
and lists of length one and of the full `MAX_CONTACTS`. `MaxCalls` is the only
bound of that model. Page: two discoveries overlap only after a setup, so three
runs are the least that shows it. `OnlySetupOverlaps` speaks of
a setup *started before* the second discovery and not of one that still runs,
because the setup has already ended when it brings the form back.

Register page: two registrations overlap only when one is of a page that was
left; a list limited to two is filled by typing and overfilled by a paste of
three entries, with one address twice, one there already, or one invalid.
`MaxPaste` is the bound on a paste. Network: two of everything that can compete
for an address; the offset 0 without fee gives the reference that is all zeros
(only fees by offset are a choice of the instance); a buffer of two slots wraps
at every second step of time; claims just short enough and just too long for one
transaction. The accounts a topic does not use are not there.

With `program` TLC also evaluates the assumptions of `MCPrivaseeProgram` for every
list of up to two contacts with hashes of two bytes, and every list of up to
three arguments: `LayoutsAgree`, `LayoutKeepsLists`, `ResultIsParsed`,
`AccountsAreTooShort`, `ArgumentsDoNotMatchCircuit` (the last two are section 5's),
and `MatchingIsByPosition`, which compares `args_match_params` with a definition
that lays what each argument stands for end to end and counts nothing.

Deadlock is checked for `program`, `discover_page` and `register_page`. The
circuit stops when it has returned, the client when all calls of the bound are
made, and the network when everything of a topic exists, so those three runs
say `CHECK_DEADLOCK FALSE`.

Fairness. Circuit: weak fairness of the next step; the nodes run straight-line
code. Client: weak fairness of the continuation of each call: a node answers or
its request times out, and the user answers the prompt of the wallet, with a
signature or a rejection; it is not assumed that anything succeeds. Pages: weak
fairness of each run's continuation (timers fire, promises that have settled
resume their handler) and of the end of each call, which is what `LibraryCalls`
promises and the `client` run shows. No fairness is given to users, to wallets
being connected or to pages being left. The network has no fairness: all it
states is safety. `results_are_received` gives the cluster
weak fairness for executing and for sending every callback it was given.

## 4. Properties

*Circuit.* `LoopInv` summarises both loops; `ResultIsIntersection` relates the
output to the sets the inputs stand for; `CountIsExact` covers repetitions and
the byte; `ObliviousSchedule` fixes the number of comparisons at every point;
`Returns`.

*Program.* `RequestsMatchComputations`: request and computation exist together
and name the same wallet. `OffsetsAreUnique`: although the address of a request
contains its payer. `CompletionIsAnnounced`: status 3 exactly with an event,
whose result some computation has produced. `CompletedIsFinal`: an action
property. `ImplementsService`: the refinement, which also shows that a
replacement of a set after `request_psi` does not change what is compared.

`ArgumentsCarrySets`: from the list of 44 arguments of
a queued computation a node reads the two sets as they were registered, values
and owners in place.

*Client.* `ReturnsAreSigned`: the signature returned is of the call's last
transaction, and no call sends a third. `StoredWasSigned`, `MatchesAreMutual`,
`RawEntryIsTransient` (an entry without commitment is about to be replaced, or
its call was reloaded or could not save), `KeyIsOfArciumRegistration`,
`ImplementsLibrary`.

*Discover page.* `ShownIsOneResult`, `SpinnerIsLive`, `OnlySetupOverlaps`, `SpinnerEnds`.

*Register page.* `WithinLimit`; `NewToTheList`: an address is in the list twice
only when one paste had it twice; `OneRegistrationAtATime`;
`ShownIsOneRegistration`; `NoticeIsOfWallet`, except while the effect is due and
for a registration that ended after its page had been left; `SpinnerEnds`.

*Network.* `CheckedAsBuilt`: no transaction of a caller who passes what is on the
chain is refused for an address, and none for a signature but those of section 5.
`MxeIsWhole` and `ClaimsAreWhole`: transactions of several instructions leave
nothing half done, also when another program has taken one of their offsets.
`ReadersSeeQueue`: each waiting and each running computation is read once and no
other, through every wrap. `DearestIsRead`. `DiscoveryIsSound`: what is reported
although it is read at three times. `AvailableIsHealthy`: a cluster becomes
available only while all its listed nodes are active.

## 5. Where the code and what is said of it differ

Each is a run that TLC refutes, with a finding in `PROJECT.json`.

* `failure_is_recorded`: the callback stores status 2 and returns an error, so
  nothing is stored and a failed request stays at 1 (`lib.rs:76`).
* `signer_bump`: `init_compute_psi_comp_def` leaves the signer's bump at zero
  (`lib.rs:164`), which `request_psi` later signs with.
* `results_are_received`: requests are queued without a callback (`lib.rs:38`),
  so no result reaches the program by itself; the README says it does.
* `only_mutual_contacts`: an empty result in arcium mode is a list with one
  sentence, shown as a match (`arcium-integration.ts:481`).
* `latest_registration`: a late confirmation writes older contacts over newer
  ones (`solana.ts:146`).
* `contacts_are_found`: registration stores hashes of lower-case contacts and
  the discovery in arcium mode hashes them as entered (`arcium-integration.ts:474`).

Others are in the models and assumptions, without a run of their own:

* `request_psi` says "Construct arguments for the MPC circuit" (`lib.rs:28`) and
  sends 20 plaintext points per set; the generated circuit (`build/compute_psi.ts`)
  takes a key, a nonce and 41 ciphertexts per set. `ArgumentsDoNotMatchCircuit`
  evaluates `args_match_params` on the two; nothing in the repository calls it.
* `buildRegisterContactsIx` cuts the 41 prepared values to the 20 of the account
  (`arcium-integration.ts:205-214`), ten contacts and no count
  (`AccountsAreTooShort`). Nothing sends that instruction yet.
* `queue_computation` (`transactions.rs:371`), `init_arx_node_acc` (138, with an
  authority other than the operator), `split_delegated_stake_account` (770) and
  `merge_delegated_stake_account` (with a withdrawal authority other than the
  delegation authority) sign with fewer keys than their instructions require, so
  their transactions are always refused. `WronglySigned` names these cases.
* `build_claim_failure_txs` is `todo!()` for data that does not fit in one
  transaction (`transactions.rs:563`).
* `NoClusterMembership` is documented as "No cluster membership found for target
  cluster" (`state.rs:57`), but the search takes the first active membership of any
  listed node, whichever cluster it names; `DiscoveryIsSound` states what remains.
* A computation reference that is all zeros (offset 0, no fee, no accounts) stands
  for an empty place and is never read (`state.rs:710`).
* `computations_raw` (`state.rs:554`) indexes a vector it has only reserved;
  nothing calls it.
* A registration is shown as that of the connected wallet although the wallet may
  have been changed during the call.

The properties of section 4 hold with these behaviours in the models.

## 6. Proofs

`PsiCircuitProofs` assumes `CircuitAssumption` (a capacity of 1..255, zero among
the halves, counts that are bytes). Its inductive invariant `IInv` joins
`TypeOK`, `LoopInv`, and `ProgressInv`: where the loops are, that an output
exists only after the last slot and is the result, and that the comparisons
made are those of the slots passed. `LoopInv` alone is not inductive, because the
return needs to know that all slots were recorded, and `RecordSlot` needs that
the inner loop is at its end. Adding a slot to the marked ones adds one to their
number, which stays below 256 because the slots do. `ResultCorrect` follows from
`LoopInv` at the end of the outer loop; `CountCorrect` from a bijection
between marked slots and the intersection when set A repeats nothing.

`PrivaseeProgramProofs` assumes `ProgramAssumption`, and of the arguments
`SetsAssumption` and `IndexAssumption`; wallets, offsets and sets are arbitrary. `IInv` joins `TypeOK`, `RequestsMatchComputations`,
`CompletionIsAnnounced` and `StoredInv` (registries name their owner, no stored
status is 2). The pairing is needed to show that an event names the request it
is about, and that the fresh offset of a request is fresh for both.
`OffsetsUnique` follows from the pairing, since a computation has one payer.
`CompletionFinal` splits on the callback's outcome. `Implementation` maps each
action to a step of `PsiService` or to a stutter: `RegisterContacts` to
`Register`, `RequestPsi` to `Request`, the first successful callback to
`Answer`, a repeated one, a failed one and `Execute` to a stutter, the last
because the arguments of a computation never change.
`FreshNeverAsks` and `FailureNeverStored` say what two findings of section 5 come
to in every behaviour: where the present program has created the signer account no
request is ever stored, and no request ever says that it failed.

`PrivaseeClientProofs` assumes `ClientAssumption`; calls, wallets, targets, contacts and
lists are arbitrary. `Inv` joins the three properties of localStorage with
`CallInv`, which says by the place of a call what it has sent: nothing before an
attempt, exactly the held signature after it, one transaction at most when the
attempt has failed, and that one and the held signature at the confirmation.
`StoredWasSigned` needs it because an entry is written two awaits after its
transaction, and `ReturnsAreSigned` follows from it at the end.
What a step of one call leaves alone of the others is stated once (`OthersStay`,
`StorageStep`). `LibraryImplemented` is the safety half of `ImplementsLibrary`: a
step of a call maps to `Make`, `Returns`, `Throws`, `IsLost`, or to a stutter when the
call goes from one await to the next.

`DiscoverPageProofs` assumes `PageAssumption`. `Inv` adds to the properties of the page
that runs are numbered in order, that a run that decrypts has an answer, that
modes are known, and `FormIsBackBySetup`: a discovery under way with the form
visible means a setup was started on the page. `OnlySetupOverlaps` is not
inductive without it.

The types of the client and `MatchesAreMutual` need one more fact of `ClientAssumption`:
trimming and lower-casing twice is the same as once. `JobsTyped` says what a job
holds, and what either mode computes is then reportable because `Kept` returns
elements of its list and only those of its set.

`SubsequencesProofs` makes induction over data possible where the library's theorems
are not: they take an operator as a parameter, which no installed prover can
instantiate. `Least` is derived from the well-foundedness of the numbers, `Ind` and
`UpTo` state induction for a *set* of numbers, `Recursion` that a recursive function
over `0..N` exists and is what it says, and `KeptFacts` what a filter returns.
A definition by recursion is therefore written as a recursive function in these
modules (`Kept`, `Outcome`, `After`, `add_shared_encrypted_struct`,
`args_match_params`) where it could be a fold.

`RegisterPageProofs` assumes `PageAssumption` and `InputAssumption`; `Inv` joins its
three invariants with `Shape`, the domains of the records and that a call that waits
belongs to a run. Nothing is asked of the list there: `OneRegistration`, `ShownTogether`
and `NoticeOfWallet` hold whatever it does. `Types` adds the list. `LimitKept` and
`AddedIsNew` need the length of what a paste keeps, which is `KeptFacts`, and that
the cut comes after the filter.

The last part of `PrivaseeProgramProofs` is about arguments. `AddedIsRead` and
`EarlierAreKept` hold for every list whose tables have fewer values than an index can
tell apart, which is where the byte of the code would overflow. `ArgumentsCarried`
goes on from there: by induction over the ciphertexts of a set each value added is
read in its place and stays so while the others are added. It needs
`SetsAssumption` (a set has `MAX_CONTACTS` ciphertexts, and 44 arguments are fewer
than 256) and the types of `IInv` for what is queued.

`ArciumNetworkProofs` uses three assumptions. `SizesAssumption`: the buffer and its heaps
have room for at least one reference. `FeesAssumption`: a priority fee is a number, as
the `u64` of the code is. `NetworkAssumption`: the operator is a wallet, the names of
nodes, clusters and programs are finite sets (they have a fixed number of bytes), and the
topics are those of `SetUp`. Numbers and places of slots are inverse to each other modulo
the size; from this `EachSlotOnce`, `AdvanceDropsOldest` and `PushIsRead` say which places
the reader takes before and after each operation, for every start and size. What a
heap holds is kept in `Holds(mempool, W)`: the references `W` are in the slots that are
read, each in one of them, and no slot has a cheaper one before a dearer one. From it
`AllAreRead` (each reference is read once) and `FirstAreDearest` (what comes first in a
slot is its dearest) say what the two readers return, and `AllThatRunsIsRead` does for the
execution pool, whose references are `Runs(execpool, W)`.

`Sound` is the inductive invariant of the chain. It joins three parts, which are
proved together because they need each other:

* `ChainInv` joins `Whole`, which is what `MxeIsWhole` says, with the fields of the
  accounts that others depend on and `MembersKept`: a node listed by a cluster exists and
  is not asked to join it again.
* `QueueInv` ties three accounts together: a cluster has a buffer and an execution
  pool, the buffer `Holds` exactly what is queued on the chain and the pool `Runs`
  exactly what executes there. None of the readers' properties is inductive, because
  what they return says nothing of the slots they pass over.
* `ClaimsInv`: a claim is final, and the computation it names, found by the cluster of
  its program, has ended.

The argument goes from one instruction to a transaction, a topic and the behaviour:

* `Later` relates a chain to what it may become: clusters stay and lose no node, a
  node of a cluster that has left it does not come back, a program keeps its cluster.
  `EndedStay` says that a computation that has ended is there and stays so.
* `Safe(ix)`: an instruction the program accepts keeps `ChainInv` and the queues and
  makes no claim (`Safe` is `KeepsPrograms` and `Apart`). It is proved for each of the
  builders, from their effects (`Effects`), by what they make, close and change. Most
  leave the queue alone (`StaysApart`); the six that queue put one reference in the
  buffer and have its computation `queued` in the same step, and the three that end a
  computation take its reference out of where it is.
* Two transactions have parts that are not safe alone. The first part of `init_mxe`
  leaves half a program (`ProgramIsMade`, `BothPartsGo`: for any two offsets, taken or
  not and equal or not). The parts of a claim leave a header without its data
  (`AllPartsGo`, `ClaimSafe`).
* `SafeTx(tx)`: what leads from a `Sound` chain goes to a `Sound` one, whichever of the
  instructions is refused, by induction over them.
* Every topic sends only such transactions, and is set up by them (`SetUpSafe`). Nodes
  taking a computation and time passing are steps of the queue: a reference moves to
  the pool, or its slot expires and what is left in it expires with it. `ChainHolds` says
  that every chain of a behaviour is `Sound`.
* `ProgramsAreWhole`, `ClaimsKeptWhole`, `QueueIsRead` and `DearestComesFirst` follow.
  `ReportsAreSound` uses `Later`: what a discovery has read of a cluster stays true of it,
  whichever steps of the chain come between, and counts only grow. `HealthyWhenFound`
  needs only that a cluster is answered for once.

`ArciumChecksProofs` proves the other two invariants of the network, in the same
order: instruction, transaction, topic, behaviour. It uses one more assumption,
`InstanceAssumption`: the chains of `SetUp` exist (there are a node, a cluster, a
definition and two programs), and an offset is not the option that is not given.

* `NetworkTypes`. `Typed(acc)` gives every account what its kind holds, and says of
  a pool only that it is some cluster's. It is inductive by itself:
  `KeepsTypes(ix)` is proved for each builder from what it makes and changes
  (`TypesKept`), `TypedTx(tx)` for each transaction by induction over its
  instructions, whichever is refused, and so for every topic and its set up. The
  shape of the pools is not: an instruction that writes one writes what it finds, so
  it is taken from `QueueInv`, which says what a pool holds. What `TypeOK` says of a
  discovery needs `Counting`, that a cluster is being counted exactly while the
  place of the discovery says so, and the invariant of `ReportsAreSound` for the
  clusters it knows.
* `BuiltAsChecked`. `Right(acc, ix, keys)` says of a builder that what it names is
  what `Expected` derives, provided that the accounts other addresses follow from are
  there, and which keys it asks for. Most builders are right on any chain. The others
  are right when their caller passes what is on the chain: a program's cluster, a
  node's cluster, a claim's computation, a stake's target. `RunIsChecked` goes through
  a transaction with the chain changing under it, so a builder in a second or third
  place must be right on the chain its predecessors leave: the second part of
  `init_mxe` and the update of the epoch are right on any, and for the three
  instructions of a claim `ClaimLeavesPrograms` shows that the first two leave
  alone what the third refers to. `QueueChecked`, `NodeChecked` and `StakeChecked`
  treat the transactions of section 5 that are signed wrongly: they are refused for
  the signature and never for an address. Only staking needs an invariant, `Typed`,
  for the target of a stake is a primary stake or nothing.

So every safety property of the passing runs is proved, for every value of the
constants. Left to TLC are `Returns`, `SpinnerEnds` and the fairness in
`ImplementsLibrary`: liveness is out of the proof system's reach. What the filters of
the models keep is `Kept` of `Subsequences`, a recursive function about which
induction over a list is possible; no model a theorem is about uses `SelectSeq` or a
fold for what the theorem says.

## 7. Not modelled

* Rent, space, lamports, priority fees, and the content of transactions other
  than what is described above.
* Encryption: what leaves the client or the cluster encrypted is abstract
  (`x25519.rs` of the vendored client included).
* Arcium's program is modelled from its IDLs and from how the vendored client
  reads its accounts; what it does that neither shows (rewards, slashing, the
  multi-party protocol) is not there. In `PrivaseeProgram`, the constraint `init` on
  the definition account, which Arcium's own instruction creates as well, is
  taken as one creation; if the real one fails there, fewer behaviours are
  possible, none more.
* `verify_output_raw` and the signatures of nodes: an output that a relay submits is
  taken as verified.
* In `arcium-client`: `idl.rs` and the conversions of accounts from bytes, `utils.rs`
  (reading key files, retries of one RPC, printing), the display of states,
  `computations_raw`. They keep no state and no property is about what they format.
* In `arcium-anchor`: derive macros, error codes and traits, which only name things.
* The helpers of the library that nothing calls and that only serialize:
  `buildRequestPsiIx`, `isProgramDeployed`.
* The discover page's list of registered wallets and its inputs' text: they
  choose the arguments of a call, which are free in the model of the library. In
  the register page, what is being typed and the error beside the list.
* Presentation, generated circuits and IDLs, configuration, and the tests, which
  check hashing and set intersection in isolation.

## 8. Plan

Done, in this order: PsiCircuit with its proofs; PrivaseeProgram and PsiService
with theirs; PrivaseeClient; LibraryCalls; DiscoverPage; ContactInput and
RegisterPage with proofs; the accounts, instructions and transactions of
arcium-client with Mempool and ArciumNetwork, and the buffer's proofs;
ComputationArguments with proofs, ContactLayout and ProgramArguments; the proofs
of PrivaseeClient and DiscoverPage; induction for recursive functions, and with it
the types and lists of the client and of the register page and what arguments carry;
the chain of the network, its programs, queues, claims and discovery; the network's
types and what its transactions are checked for.

Left: the signatures of nodes on an output and `verify_output_raw`, with the callback
of `PrivaseeProgram` on top of `ArciumNetwork`'s computations, instead of the external
actions it has now.
