-------------------------- MODULE PrivaseeProgram --------------------------
(***************************************************************************)
(* The on-chain program programs/privasee/src/lib.rs, with the part of the *)
(* Arcium program and of its cluster that it relies on.                    *)
(*                                                                         *)
(* One action is one transaction that commits: account constraints are     *)
(* guards, and a handler that returns an error has no effect on any        *)
(* account, because the runtime then restores all of them.  A transaction  *)
(* that fails in its constraints or in the call to Arcium is therefore no  *)
(* step; the callback, whose handler writes before it fails, is one.       *)
(*                                                                         *)
(* An account is an element of a partial function: it exists when its      *)
(* address is in the domain.  Encrypted sets are abstract; what the        *)
(* cluster computes from a pair of sets is identified with the pair (the   *)
(* module PsiCircuit says what it is).                                     *)
(***************************************************************************)
EXTENDS Integers

CONSTANTS
  Users,           \* wallets
  Offsets,         \* computation offsets clients choose from
  Sets,            \* encrypted contact sets
  CANONICAL_BUMP   \* the bump the runtime derives for "ArciumSignerAccount"

ASSUME ProgramAssumption == CANONICAL_BUMP \in 1..255

VARIABLES
  signer_pda,     \* ArciumSignerAccount: {} or {the bump it stores}
  comp_def,       \* whether the computation definition of compute_psi exists
  user_registry,  \* UserRegistry accounts, by wallet
  psi_request,    \* PsiRequest accounts, by <<payer, computation_offset>>
  computation,    \* Arcium's computation accounts, by computation offset
  events,         \* the PsiCompletedEvents emitted
  failed          \* history: requests a failure output has been processed for

vars == <<signer_pda, comp_def, user_registry, psi_request, computation, events, failed>>

UserRegistry == [owner : Users, encrypted_contacts : Sets]

\* 1: computation queued, 2: failed, 3: completed.
PsiRequest == [requester : Users, computation_offset : Offsets, status : {1, 2, 3}]

Computation == [payer        : Users,
                args         : Sets \X Sets,
                callback_ixs : SUBSET {"compute_psi_callback"},
                status       : {"Queued", "Succeeded", "Failed"}]

PsiCompletedEvent == [requester : Users, computation_offset : Offsets, psi : Sets \X Sets]

\* A partial function like f, with x mapped to y.
Put(f, x, y) == [z \in DOMAIN f \cup {x} |-> IF z = x THEN y ELSE f[z]]

-----------------------------------------------------------------------------
\* A fresh deployment, or one whose signer account and definition were left by
\* an earlier version of the program that stored the canonical bump.
Init ==
  /\ \E upgraded \in BOOLEAN :
       /\ signer_pda = IF upgraded THEN {CANONICAL_BUMP} ELSE {}
       /\ comp_def = upgraded
  /\ user_registry = [u \in {} |-> {}]
  /\ psi_request = [k \in {} |-> {}]
  /\ computation = [o \in {} |-> {}]
  /\ events = {}
  /\ failed = {}

\* init_compute_psi_comp_def: both accounts are created here or the transaction
\* fails.  The bump of the new signer account is never assigned and stays zero.
InitComputePsiCompDef ==
  /\ signer_pda = {}
  /\ ~comp_def
  /\ signer_pda' = {0}
  /\ comp_def' = TRUE
  /\ UNCHANGED <<user_registry, psi_request, computation, events, failed>>

\* register_contacts: creates the payer's registry or overwrites it.
RegisterContacts(payer, encrypted_set) ==
  /\ user_registry' =
       Put(user_registry, payer, [owner |-> payer, encrypted_contacts |-> encrypted_set])
  /\ UNCHANGED <<signer_pda, comp_def, psi_request, computation, events, failed>>

\* The constraints of RequestPsi: the request is new, the first registry is the
\* payer's, and the target registry is found by the owner it names itself.
RequestAccountsValid(payer, target, offset) ==
  /\ <<payer, offset>> \notin DOMAIN psi_request
  /\ payer \in DOMAIN user_registry
  /\ target \in DOMAIN user_registry
  /\ user_registry[target].owner = target
  /\ signer_pda # {}

\* Mutant of QueueAccepts: an existing computation account is not refused.
QueueAcceptsAny(offset) ==
  /\ CANONICAL_BUMP \in signer_pda
  /\ comp_def

\* The call to Arcium signs with the stored bump, which must reproduce the
\* address of the signer account; it refuses an unknown definition and an
\* offset whose computation account exists, whoever created that.
QueueAccepts(offset) ==
  /\ CANONICAL_BUMP \in signer_pda
  /\ comp_def
  /\ offset \notin DOMAIN computation

\* Mutant of QueuedArgs: the two sets change places.
QueuedArgsSwapped(payer, target) ==
  <<user_registry[target].encrypted_contacts, user_registry[payer].encrypted_contacts>>

\* request_psi passes the two sets as they are registered now ...
QueuedArgs(payer, target) ==
  <<user_registry[payer].encrypted_contacts, user_registry[target].encrypted_contacts>>

\* ... and vec![], no callback instruction.
CallbackInstructions == {}

\* Mutant of RequestPsi: the status is left at the zero of a new account.
RequestPsiStatusUnset(payer, target, offset) ==
  /\ RequestAccountsValid(payer, target, offset)
  /\ QueueAccepts(offset)
  /\ computation' =
       Put(computation, offset,
           [payer |-> payer, args |-> QueuedArgs(payer, target),
            callback_ixs |-> CallbackInstructions, status |-> "Queued"])
  /\ psi_request' =
       Put(psi_request, <<payer, offset>>,
           [requester |-> payer, computation_offset |-> offset, status |-> 0])
  /\ UNCHANGED <<signer_pda, comp_def, user_registry, events, failed>>

\* Mutant of RequestPsi: the target is recorded as the requester.
RequestPsiForTarget(payer, target, offset) ==
  /\ RequestAccountsValid(payer, target, offset)
  /\ QueueAccepts(offset)
  /\ computation' =
       Put(computation, offset,
           [payer |-> payer, args |-> QueuedArgs(payer, target),
            callback_ixs |-> CallbackInstructions, status |-> "Queued"])
  /\ psi_request' =
       Put(psi_request, <<payer, offset>>,
           [requester |-> target, computation_offset |-> offset, status |-> 1])
  /\ UNCHANGED <<signer_pda, comp_def, user_registry, events, failed>>

RequestPsi(payer, target, offset) ==
  /\ RequestAccountsValid(payer, target, offset)
  /\ QueueAccepts(offset)
  /\ computation' =
       Put(computation, offset,
           [payer |-> payer, args |-> QueuedArgs(payer, target),
            callback_ixs |-> CallbackInstructions, status |-> "Queued"])
  /\ psi_request' =
       Put(psi_request, <<payer, offset>>,
           [requester |-> payer, computation_offset |-> offset, status |-> 1])
  /\ UNCHANGED <<signer_pda, comp_def, user_registry, events, failed>>

\* The cluster executes a queued computation and finalizes it, with an output
\* or with a failure.
Execute(offset) ==
  /\ offset \in DOMAIN computation
  /\ computation[offset].status = "Queued"
  /\ \E outcome \in {"Succeeded", "Failed"} :
       computation' = [computation EXCEPT ![offset].status = outcome]
  /\ UNCHANGED <<signer_pda, comp_def, user_registry, psi_request, events, failed>>

\* Mutant of CallbackBody: a failure output is taken for a success.
CallbackBodyUnchecked(request, comp) ==
  [request |-> [request EXCEPT !.status = 3],
   emitted |-> {[requester          |-> request.requester,
                 computation_offset |-> request.computation_offset,
                 psi                |-> comp.args]},
   ok      |-> TRUE]

\* Mutant of CallbackBody: Ok is returned after a failure, so status 2 stays.
CallbackBodyReturningOk(request, comp) ==
  IF comp.status = "Succeeded"
  THEN [request |-> [request EXCEPT !.status = 3],
        emitted |-> {[requester          |-> request.requester,
                      computation_offset |-> request.computation_offset,
                      psi                |-> comp.args]},
        ok      |-> TRUE]
  ELSE [request |-> [request EXCEPT !.status = 2], emitted |-> {}, ok |-> TRUE]

\* What the body of compute_psi_callback does to the request it is given: the
\* request afterwards, the event it emits and whether it returns Ok.
CallbackBody(request, comp) ==
  IF comp.status = "Succeeded"
  THEN [request |-> [request EXCEPT !.status = 3],
        emitted |-> {[requester          |-> request.requester,
                      computation_offset |-> request.computation_offset,
                      psi                |-> comp.args]},
        ok      |-> TRUE]
  ELSE [request |-> [request EXCEPT !.status = 2],
        emitted |-> {},
        ok      |-> FALSE]

\* compute_psi_callback, submitted with the request account k and the output of
\* the finalized computation at offset: at any time, any number of times and in
\* any order.  The program does not compare k with the computation.
ComputePsiCallback(k, offset) ==
  /\ k \in DOMAIN psi_request
  /\ offset \in DOMAIN computation
  /\ computation[offset].status # "Queued"
  /\ LET body == CallbackBody(psi_request[k], computation[offset])
     IN  /\ psi_request' = IF body.ok THEN [psi_request EXCEPT ![k] = body.request]
                           ELSE psi_request
         /\ events' = IF body.ok THEN events \cup body.emitted ELSE events
         /\ failed' = IF body.ok THEN failed ELSE failed \cup {k}
  /\ UNCHANGED <<signer_pda, comp_def, user_registry, computation>>

Next ==
  \/ InitComputePsiCompDef
  \/ \E u \in Users, s \in Sets : RegisterContacts(u, s)
  \/ \E u, t \in Users, o \in Offsets : RequestPsi(u, t, o)
  \/ \E o \in Offsets : Execute(o)
  \/ \E u \in Users, o, c \in Offsets : ComputePsiCallback(<<u, o>>, c)

Spec == Init /\ [][Next]_vars

\* The cluster runs what is queued and sends the callbacks it was given.
ClusterReports(k) ==
  /\ k[2] \in DOMAIN computation
  /\ computation[k[2]].callback_ixs # {}
  /\ psi_request[k].status # 3
  /\ ComputePsiCallback(k, k[2])

FairSpec ==
  /\ Spec
  /\ \A o \in Offsets : WF_vars(Execute(o))
  /\ \A k \in Users \X Offsets : WF_vars(k \in DOMAIN psi_request /\ ClusterReports(k))

-----------------------------------------------------------------------------
(* Properties. *)

\* Every account has its type.
TypeOK ==
  /\ signer_pda \in SUBSET {0, CANONICAL_BUMP}
  /\ comp_def \in BOOLEAN
  /\ DOMAIN user_registry \subseteq Users
  /\ \A u \in DOMAIN user_registry : user_registry[u] \in UserRegistry
  /\ DOMAIN psi_request \subseteq Users \X Offsets
  /\ \A k \in DOMAIN psi_request : psi_request[k] \in PsiRequest
  /\ DOMAIN computation \subseteq Offsets
  /\ \A o \in DOMAIN computation : computation[o] \in Computation
  /\ events \subseteq PsiCompletedEvent
  /\ failed \subseteq Users \X Offsets

\* Requests and queued computations come in pairs, created together or not at
\* all: a request names its own address, the computation under its offset was
\* queued by the same wallet, and no computation is without its request.
RequestsMatchComputations ==
  /\ \A k \in DOMAIN psi_request :
       /\ k = <<psi_request[k].requester, psi_request[k].computation_offset>>
       /\ k[2] \in DOMAIN computation
       /\ computation[k[2]].payer = k[1]
  /\ \A o \in DOMAIN computation : <<computation[o].payer, o>> \in DOMAIN psi_request

\* Offsets are chosen by clients that know nothing of each other, yet no two
\* requests share one: the second wallet's transaction fails as a whole.
OffsetsAreUnique ==
  \A k, l \in DOMAIN psi_request : k[2] = l[2] => k = l

\* A request is completed exactly when an event has announced it, and what the
\* event carries was computed by the cluster.
CompletionIsAnnounced ==
  /\ \A k \in DOMAIN psi_request :
       psi_request[k].status = 3 <=>
         \E e \in events : <<e.requester, e.computation_offset>> = k
  /\ \A e \in events :
       /\ <<e.requester, e.computation_offset>> \in DOMAIN psi_request
       /\ \E o \in DOMAIN computation :
            computation[o].status = "Succeeded" /\ computation[o].args = e.psi

\* No transaction, however late, repeated or out of order its output, takes a
\* completed request back: also not the failure output of a computation.
CompletedIsFinal ==
  [][\A k \in DOMAIN psi_request :
       psi_request[k].status = 3 =>
         k \in DOMAIN psi_request' /\ psi_request'[k] = psi_request[k]]_vars

Service == INSTANCE PsiService WITH
  registered <- [u \in DOMAIN user_registry |-> user_registry[u].encrypted_contacts],
  jobs       <- [k \in DOMAIN psi_request |->
                   [sets     |-> computation[k[2]].args,
                    answered |-> psi_request[k].status = 3]]

\* The program keeps the promises of PsiService: a queued computation works on
\* the sets registered when it was queued, requester's first, even if either
\* party registers another set before it is executed; an offset is used once;
\* a request is answered at most once.
ImplementsService == Service!Spec

(* Claims of the code and its documents that do not hold. *)

\* "PSI computation failed or aborted": status 2 is stored for the request.
FailureIsRecorded ==
  \A k \in failed : psi_request[k].status \in {2, 3}

\* The bump the signer account stores is the one its address is derived with.
SignerBumpIsCanonical == signer_pda \subseteq {CANONICAL_BUMP}

\* "compute_psi_callback receives verified results from MPC cluster".
ResultsAreReceived ==
  \A k \in Users \X Offsets :
    (k \in DOMAIN psi_request /\ computation[k[2]].status = "Succeeded")
      ~> (k \in DOMAIN psi_request /\ psi_request[k].status = 3)
=============================================================================
