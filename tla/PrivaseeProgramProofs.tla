----------------------- MODULE PrivaseeProgramProofs -----------------------
(***************************************************************************)
(* Proofs about PrivaseeProgram, for any number of wallets, offsets and    *)
(* contact sets: types, the pairing of requests and computations, the      *)
(* meaning of completion, its finality, that the program implements        *)
(* PsiService, and that a node reads the two sets that were queued from    *)
(* the list the program makes, whatever the sets are and however long.     *)
(***************************************************************************)
EXTENDS ProgramArguments, SubsequencesProofs

-----------------------------------------------------------------------------
(* What the handlers compute. *)

\* What the callback does to a request: a success completes it and announces
\* it, anything else returns an error.
LEMMA CallbackOutcome ==
  ASSUME NEW r \in PsiRequest, NEW c \in Computation
  PROVE  LET body == CallbackBody(r, c) IN
         /\ body.request.requester = r.requester
         /\ body.request.computation_offset = r.computation_offset
         /\ body.request \in PsiRequest
         /\ body.emitted \subseteq PsiCompletedEvent
         /\ body.ok <=> c.status = "Succeeded"
         /\ body.ok => /\ body.request.status = 3
                       /\ body.emitted = {[requester          |-> r.requester,
                                           computation_offset |-> r.computation_offset,
                                           psi                |-> c.args]}
BY DEF CallbackBody, PsiRequest, Computation, PsiCompletedEvent

-----------------------------------------------------------------------------
(* The inductive invariant. *)

\* A registry belongs to the wallet it is filed under, and no request is ever
\* stored with the status of a failure.
StoredInv ==
  /\ \A u \in DOMAIN user_registry : user_registry[u].owner = u
  /\ \A k \in DOMAIN psi_request : psi_request[k].status \in {1, 3}

\* The induction hypothesis.  The pairing of requests and computations is
\* needed with the types to show that an event names its request.
IInv ==
  /\ TypeOK
  /\ RequestsMatchComputations
  /\ CompletionIsAnnounced
  /\ StoredInv

\* The initial state satisfies the invariant.
LEMMA InitIInv == Init => IInv
<1> SUFFICES ASSUME Init PROVE IInv
  OBVIOUS
<1>1. /\ DOMAIN user_registry = {} /\ DOMAIN psi_request = {}
      /\ DOMAIN computation = {} /\ events = {} /\ failed = {}
      /\ signer_pda \in SUBSET {0, CANONICAL_BUMP} /\ comp_def \in BOOLEAN
  BY DEF Init
<1>2. QED
  BY <1>1 DEF IInv, TypeOK, RequestsMatchComputations, CompletionIsAnnounced, StoredInv

\* The definition of the computation is created.
LEMMA InitCompDefIInv ==
  ASSUME IInv, InitComputePsiCompDef
  PROVE  IInv'
BY DEF InitComputePsiCompDef, IInv, TypeOK, RequestsMatchComputations,
       CompletionIsAnnounced, StoredInv

\* A set is registered or replaced.
LEMMA RegisterIInv ==
  ASSUME IInv, NEW u \in Users, NEW s \in Sets, RegisterContacts(u, s)
  PROVE  IInv'
<1> DEFINE r == [owner |-> u, encrypted_contacts |-> s]
<1>1. /\ DOMAIN user_registry' = DOMAIN user_registry \cup {u}
      /\ user_registry'[u] = r
      /\ \A v \in DOMAIN user_registry : v # u => user_registry'[v] = user_registry[v]
  <2>1. user_registry' = Put(user_registry, u, r)
    BY DEF RegisterContacts
  <2>2. QED
    BY <2>1 DEF Put
<1>2. r \in UserRegistry /\ r.owner = u
  BY DEF UserRegistry
<1>3. UNCHANGED <<signer_pda, comp_def, psi_request, computation, events, failed>>
  BY DEF RegisterContacts
<1>4. \A v \in DOMAIN user_registry' :
        user_registry'[v] \in UserRegistry /\ user_registry'[v].owner = v
  BY <1>1, <1>2 DEF IInv, TypeOK, StoredInv
<1>5. TypeOK' /\ StoredInv'
  BY <1>1, <1>3, <1>4 DEF IInv, TypeOK, StoredInv
<1>6. RequestsMatchComputations' /\ CompletionIsAnnounced'
  BY <1>3 DEF IInv, RequestsMatchComputations, CompletionIsAnnounced
<1>7. QED
  BY <1>5, <1>6 DEF IInv

\* A request that commits adds one request and its computation, under an
\* offset that neither had before.
LEMMA RequestIInv ==
  ASSUME IInv, NEW u \in Users, NEW t \in Users, NEW o \in Offsets, RequestPsi(u, t, o)
  PROVE  IInv'
<1> DEFINE k == <<u, o>>
           r == [requester |-> u, computation_offset |-> o, status |-> 1]
           c == [payer |-> u, args |-> QueuedArgs(u, t),
                 callback_ixs |-> CallbackInstructions, status |-> "Queued"]
<1>1. /\ k \notin DOMAIN psi_request /\ o \notin DOMAIN computation
      /\ u \in DOMAIN user_registry /\ t \in DOMAIN user_registry
  BY DEF RequestPsi, RequestAccountsValid, QueueAccepts
<1>2. /\ DOMAIN psi_request' = DOMAIN psi_request \cup {k}
      /\ psi_request'[k] = r
      /\ \A l \in DOMAIN psi_request : psi_request'[l] = psi_request[l]
  <2>1. psi_request' = Put(psi_request, k, r)
    BY DEF RequestPsi
  <2>2. QED
    BY <1>1, <2>1 DEF Put
<1>3. /\ DOMAIN computation' = DOMAIN computation \cup {o}
      /\ computation'[o] = c
      /\ \A p \in DOMAIN computation : computation'[p] = computation[p]
  <2>1. computation' = Put(computation, o, c)
    BY DEF RequestPsi
  <2>2. QED
    BY <1>1, <2>1 DEF Put
<1>4. UNCHANGED <<signer_pda, comp_def, user_registry, events, failed>>
  BY DEF RequestPsi
<1>5. r \in PsiRequest /\ c \in Computation
  <2>1. QueuedArgs(u, t) \in Sets \X Sets
    BY <1>1 DEF QueuedArgs, IInv, TypeOK, UserRegistry
  <2>2. QED
    BY <2>1 DEF PsiRequest, Computation, CallbackInstructions
<1>6. TypeOK'
  BY <1>2, <1>3, <1>4, <1>5 DEF IInv, TypeOK
<1>7. RequestsMatchComputations'
  <2>1. ASSUME NEW l \in DOMAIN psi_request'
        PROVE  /\ l = <<psi_request'[l].requester, psi_request'[l].computation_offset>>
               /\ l[2] \in DOMAIN computation'
               /\ computation'[l[2]].payer = l[1]
    <3>1. CASE l = k
      BY <3>1, <1>2, <1>3
    <3>2. CASE l \in DOMAIN psi_request
      <4>1. /\ l = <<psi_request[l].requester, psi_request[l].computation_offset>>
            /\ l[2] \in DOMAIN computation /\ computation[l[2]].payer = l[1]
        BY <3>2 DEF IInv, RequestsMatchComputations
      <4>2. QED
        BY <3>2, <4>1, <1>2, <1>3
    <3>3. QED
      BY <3>1, <3>2, <1>2
  <2>2. ASSUME NEW p \in DOMAIN computation'
        PROVE  <<computation'[p].payer, p>> \in DOMAIN psi_request'
    BY <1>2, <1>3 DEF IInv, RequestsMatchComputations
  <2>3. QED
    BY <2>1, <2>2 DEF RequestsMatchComputations
<1>8. CompletionIsAnnounced'
  <2>1. ASSUME NEW e \in events
        PROVE  /\ <<e.requester, e.computation_offset>> \in DOMAIN psi_request
               /\ \E p \in DOMAIN computation :
                    computation[p].status = "Succeeded" /\ computation[p].args = e.psi
    BY DEF IInv, CompletionIsAnnounced
  <2>2. ASSUME NEW l \in DOMAIN psi_request'
        PROVE  psi_request'[l].status = 3 <=>
                 \E e \in events : <<e.requester, e.computation_offset>> = l
    <3>1. CASE l = k
      BY <3>1, <1>1, <1>2, <2>1
    <3>2. CASE l # k
      BY <3>2, <1>2 DEF IInv, CompletionIsAnnounced
    <3>3. QED
      BY <3>1, <3>2
  <2>3. QED
    BY <1>2, <1>3, <1>4, <2>1, <2>2 DEF CompletionIsAnnounced
<1>9. StoredInv'
  BY <1>2, <1>4 DEF IInv, StoredInv
<1>10. QED
  BY <1>6, <1>7, <1>8, <1>9 DEF IInv

\* Finalizing a computation changes nothing but its status.
LEMMA ExecuteIInv ==
  ASSUME IInv, NEW o \in Offsets, Execute(o)
  PROVE  IInv'
<1>1. PICK outcome \in {"Succeeded", "Failed"} :
        computation' = [computation EXCEPT ![o].status = outcome]
  BY DEF Execute
<1>2. /\ o \in DOMAIN computation /\ computation[o].status = "Queued"
      /\ UNCHANGED <<signer_pda, comp_def, user_registry, psi_request, events, failed>>
  BY DEF Execute
<1>3. /\ DOMAIN computation' = DOMAIN computation
      /\ \A p \in DOMAIN computation :
           /\ computation'[p] \in Computation
           /\ computation'[p].payer = computation[p].payer
           /\ computation'[p].args = computation[p].args
           /\ p # o => computation'[p] = computation[p]
  BY <1>1, <1>2 DEF IInv, TypeOK, Computation
<1>4. TypeOK' /\ RequestsMatchComputations' /\ StoredInv'
  BY <1>2, <1>3 DEF IInv, TypeOK, RequestsMatchComputations, StoredInv
<1>5. CompletionIsAnnounced'
  <2>1. ASSUME NEW p \in DOMAIN computation, computation[p].status = "Succeeded"
        PROVE  computation'[p] = computation[p]
    BY <2>1, <1>2, <1>3
  <2>2. QED
    BY <2>1, <1>2, <1>3 DEF IInv, CompletionIsAnnounced
<1>6. QED
  BY <1>4, <1>5 DEF IInv

\* A callback completes and announces the request it is given, or, the output
\* being a failure, leaves every account as it was.
LEMMA CallbackIInv ==
  ASSUME IInv, NEW k \in Users \X Offsets, NEW o \in Offsets, ComputePsiCallback(k, o)
  PROVE  IInv'
<1> DEFINE body == CallbackBody(psi_request[k], computation[o])
           event == [requester          |-> psi_request[k].requester,
                     computation_offset |-> psi_request[k].computation_offset,
                     psi                |-> computation[o].args]
<1>1. /\ k \in DOMAIN psi_request /\ o \in DOMAIN computation
      /\ UNCHANGED <<signer_pda, comp_def, user_registry, computation>>
      /\ psi_request' = IF body.ok THEN [psi_request EXCEPT ![k] = body.request]
                        ELSE psi_request
      /\ events' = IF body.ok THEN events \cup body.emitted ELSE events
      /\ failed' = IF body.ok THEN failed ELSE failed \cup {k}
  BY DEF ComputePsiCallback
<1>2. psi_request[k] \in PsiRequest /\ computation[o] \in Computation
  BY <1>1 DEF IInv, TypeOK
<1>3. /\ body.request.requester = psi_request[k].requester
      /\ body.request.computation_offset = psi_request[k].computation_offset
      /\ body.request \in PsiRequest
      /\ body.emitted \subseteq PsiCompletedEvent
      /\ body.ok => /\ computation[o].status = "Succeeded"
                    /\ body.request.status = 3
                    /\ body.emitted = {event}
  BY <1>2, CallbackOutcome
<1>4. k = <<psi_request[k].requester, psi_request[k].computation_offset>>
  BY <1>1 DEF IInv, RequestsMatchComputations
<1>5. CASE body.ok
  <2>1. /\ DOMAIN psi_request' = DOMAIN psi_request
        /\ psi_request'[k] = body.request
        /\ \A l \in DOMAIN psi_request : l # k => psi_request'[l] = psi_request[l]
        /\ events' = events \cup {event}
        /\ failed' = failed
    BY <1>1, <1>3, <1>5
  <2>2. TypeOK'
    BY <1>1, <1>3, <1>5, <2>1 DEF IInv, TypeOK
  <2>3. RequestsMatchComputations'
    BY <1>1, <1>3, <2>1 DEF IInv, RequestsMatchComputations
  <2>4. StoredInv'
    BY <1>1, <1>3, <1>5, <2>1 DEF IInv, StoredInv
  <2>5. CompletionIsAnnounced'
    <3>1. <<event.requester, event.computation_offset>> = k
      BY <1>4
    <3>2. ASSUME NEW l \in DOMAIN psi_request'
          PROVE  psi_request'[l].status = 3 <=>
                   \E e \in events' : <<e.requester, e.computation_offset>> = l
      <4>1. CASE l = k
        BY <4>1, <1>3, <1>5, <2>1, <3>1
      <4>2. CASE l # k
        BY <4>2, <2>1, <3>1 DEF IInv, CompletionIsAnnounced
      <4>3. QED
        BY <4>1, <4>2
    <3>3. ASSUME NEW e \in events'
          PROVE  /\ <<e.requester, e.computation_offset>> \in DOMAIN psi_request'
                 /\ \E p \in DOMAIN computation' :
                      computation'[p].status = "Succeeded" /\ computation'[p].args = e.psi
      <4>1. CASE e = event
        BY <4>1, <1>1, <1>3, <1>5, <2>1, <3>1
      <4>2. CASE e \in events
        BY <4>2, <1>1, <2>1 DEF IInv, CompletionIsAnnounced
      <4>3. QED
        BY <4>1, <4>2, <2>1
    <3>4. QED
      BY <3>2, <3>3 DEF CompletionIsAnnounced
  <2>6. QED
    BY <2>2, <2>3, <2>4, <2>5 DEF IInv
<1>6. CASE ~body.ok
  <2>1. psi_request' = psi_request /\ events' = events /\ failed' = failed \cup {k}
    BY <1>1, <1>6
  <2>2. QED
    BY <1>1, <2>1 DEF IInv, TypeOK, RequestsMatchComputations,
                      CompletionIsAnnounced, StoredInv
<1>7. QED
  BY <1>5, <1>6

\* Every transaction and every step of the cluster keeps the invariant.
LEMMA StepIInv == IInv /\ [Next]_vars => IInv'
<1> SUFFICES ASSUME IInv, [Next]_vars PROVE IInv'
  OBVIOUS
<1>1. CASE InitComputePsiCompDef
  BY <1>1, InitCompDefIInv
<1>2. ASSUME NEW u \in Users, NEW s \in Sets, RegisterContacts(u, s) PROVE IInv'
  BY <1>2, RegisterIInv
<1>3. ASSUME NEW u \in Users, NEW t \in Users, NEW o \in Offsets, RequestPsi(u, t, o)
      PROVE  IInv'
  BY <1>3, RequestIInv
<1>4. ASSUME NEW o \in Offsets, Execute(o) PROVE IInv'
  BY <1>4, ExecuteIInv
<1>5. ASSUME NEW u \in Users, NEW o \in Offsets, NEW c \in Offsets,
             ComputePsiCallback(<<u, o>>, c)
      PROVE  IInv'
  BY <1>5, CallbackIInv
<1>6. CASE UNCHANGED vars
  BY <1>6 DEF vars, IInv, TypeOK, RequestsMatchComputations, CompletionIsAnnounced, StoredInv
<1>7. QED
  BY <1>1, <1>2, <1>3, <1>4, <1>5, <1>6 DEF Next

-----------------------------------------------------------------------------
(* The theorems. *)

\* The program keeps its types, the pairing of requests and computations, the
\* meaning of completion, and stores no failure.
THEOREM InvariantHolds == Spec => []IInv
<1>1. Init => IInv
  BY InitIInv
<1>2. IInv /\ [Next]_vars => IInv'
  BY StepIInv
<1>3. QED
  BY <1>1, <1>2, PTL DEF Spec

\* Type correctness, for any wallets, offsets and sets.
THEOREM TypeCorrect == Spec => []TypeOK
<1>1. IInv => TypeOK
  BY DEF IInv
<1>2. QED
  BY <1>1, InvariantHolds, PTL

\* Requests and computations are created together or not at all.
THEOREM RequestsPaired == Spec => []RequestsMatchComputations
<1>1. IInv => RequestsMatchComputations
  BY DEF IInv
<1>2. QED
  BY <1>1, InvariantHolds, PTL

\* No two requests, of whatever wallets, share an offset.
THEOREM OffsetsUnique == Spec => []OffsetsAreUnique
<1>1. IInv => OffsetsAreUnique
  <2> SUFFICES ASSUME IInv,
                      NEW k \in DOMAIN psi_request, NEW l \in DOMAIN psi_request,
                      k[2] = l[2]
               PROVE  k = l
    BY DEF OffsetsAreUnique
  <2>1. k \in Users \X Offsets /\ l \in Users \X Offsets
    BY DEF IInv, TypeOK
  <2>2. computation[k[2]].payer = k[1] /\ computation[l[2]].payer = l[1]
    BY DEF IInv, RequestsMatchComputations
  <2>3. k[1] = l[1]
    BY <2>2
  <2>4. QED
    BY <2>1, <2>3
<1>2. QED
  BY <1>1, InvariantHolds, PTL

\* A request is completed exactly when an event has announced it.
THEOREM CompletionAnnounced == Spec => []CompletionIsAnnounced
<1>1. IInv => CompletionIsAnnounced
  BY DEF IInv
<1>2. QED
  BY <1>1, InvariantHolds, PTL

\* A callback leaves every request but its own as it is, and its own it leaves
\* or completes.
LEMMA CallbackEffect ==
  ASSUME IInv, NEW k \in Users \X Offsets, NEW o \in Offsets, ComputePsiCallback(k, o)
  PROVE  /\ k \in DOMAIN psi_request
         /\ \/ psi_request' = psi_request
            \/ psi_request' = [psi_request EXCEPT ![k].status = 3]
<1>1. k \in DOMAIN psi_request /\ o \in DOMAIN computation
  BY DEF ComputePsiCallback
<1>2. CASE computation[o].status = "Succeeded"
  BY <1>1, <1>2 DEF ComputePsiCallback, CallbackBody
<1>3. CASE computation[o].status # "Succeeded"
  BY <1>1, <1>3 DEF ComputePsiCallback, CallbackBody
<1>4. QED
  BY <1>1, <1>2, <1>3

\* Nothing takes a completed request back.
THEOREM CompletionFinal == Spec => CompletedIsFinal
<1> DEFINE Final == \A k \in DOMAIN psi_request :
                      psi_request[k].status = 3 =>
                        k \in DOMAIN psi_request' /\ psi_request'[k] = psi_request[k]
<1>1. IInv /\ [Next]_vars => Final
  <2> SUFFICES ASSUME IInv, [Next]_vars, NEW k \in DOMAIN psi_request,
                      psi_request[k].status = 3
               PROVE  k \in DOMAIN psi_request' /\ psi_request'[k] = psi_request[k]
    OBVIOUS
  <2>1. CASE UNCHANGED psi_request
    BY <2>1
  <2>2. ASSUME NEW u \in Users, NEW t \in Users, NEW o \in Offsets, RequestPsi(u, t, o)
        PROVE  k \in DOMAIN psi_request' /\ psi_request'[k] = psi_request[k]
    <3>1. k # <<u, o>>
      BY <2>2 DEF RequestPsi, RequestAccountsValid
    <3>2. QED
      BY <2>2, <3>1 DEF RequestPsi, Put
  <2>3. ASSUME NEW u \in Users, NEW o \in Offsets, NEW c \in Offsets,
               ComputePsiCallback(<<u, o>>, c)
        PROVE  k \in DOMAIN psi_request' /\ psi_request'[k] = psi_request[k]
    <3>1. \/ psi_request' = psi_request
          \/ psi_request' = [psi_request EXCEPT ![<<u, o>>].status = 3]
      BY <2>3, CallbackEffect
    <3>2. psi_request[k] \in PsiRequest
      BY DEF IInv, TypeOK
    <3>3. [psi_request[k] EXCEPT !.status = 3] = psi_request[k]
      BY <3>2 DEF PsiRequest
    <3>4. QED
      BY <3>1, <3>3
  <2>4. QED
    BY <2>1, <2>2, <2>3
       DEF Next, vars, InitComputePsiCompDef, RegisterContacts, Execute
<1>2. QED
  BY <1>1, InvariantHolds, PTL DEF Spec, CompletedIsFinal

-----------------------------------------------------------------------------
(* What two disagreements of code and comments come to. *)

\* Nothing has been asked.
NothingAsked ==
  CANONICAL_BUMP \notin signer_pda /\ DOMAIN psi_request = {} /\ events = {}

\* In a deployment whose signer account the present init_compute_psi_comp_def creates,
\* no request is ever stored and no result announced, whoever registers and asks: the
\* bump is written once, as zero, and request_psi signs with it. (lib.rs:164)
THEOREM FreshNeverAsks ==
  Spec /\ signer_pda = {} => [](DOMAIN psi_request = {} /\ events = {})
<1>1. Init /\ signer_pda = {} => NothingAsked
  BY DEF Init, NothingAsked
<1>2. NothingAsked /\ [Next]_vars => NothingAsked'
  <2> SUFFICES ASSUME NothingAsked, [Next]_vars PROVE NothingAsked'
    OBVIOUS
  <2> USE DEF NothingAsked
  <2>1. CASE UNCHANGED vars
    BY <2>1 DEF vars
  <2>2. CASE InitComputePsiCompDef
    BY <2>2, ProgramAssumption DEF InitComputePsiCompDef
  <2>3. ASSUME NEW u \in Users, NEW s \in Sets, RegisterContacts(u, s)
        PROVE  NothingAsked'
    BY <2>3 DEF RegisterContacts
  <2>4. ASSUME NEW u \in Users, NEW t \in Users, NEW o \in Offsets, RequestPsi(u, t, o)
        PROVE  FALSE
    BY <2>4 DEF RequestPsi, QueueAccepts
  <2>5. ASSUME NEW o \in Offsets, Execute(o)
        PROVE  NothingAsked'
    BY <2>5 DEF Execute
  <2>6. ASSUME NEW u \in Users, NEW o \in Offsets, NEW c \in Offsets,
               ComputePsiCallback(<<u, o>>, c)
        PROVE  FALSE
    BY <2>6 DEF ComputePsiCallback
  <2>7. QED
    BY <2>1, <2>2, <2>3, <2>4, <2>5, <2>6 DEF Next
<1>3. NothingAsked => DOMAIN psi_request = {} /\ events = {}
  BY DEF NothingAsked
<1>4. QED
  BY <1>1, <1>2, <1>3, PTL DEF Spec

\* No request is ever stored as failed, although the callback writes that status: the
\* error it returns with takes the write back. (lib.rs:76)
THEOREM FailureNeverStored == Spec => [](\A k \in DOMAIN psi_request : psi_request[k].status # 2)
<1>1. IInv => \A k \in DOMAIN psi_request : psi_request[k].status # 2
  BY DEF IInv, StoredInv
<1>2. QED
  BY <1>1, InvariantHolds, PTL

-----------------------------------------------------------------------------
(* The program implements PsiService. *)

\* The abstract state of a program state.
Registered == [u \in DOMAIN user_registry |-> user_registry[u].encrypted_contacts]

Jobs == [k \in DOMAIN psi_request |->
           [sets     |-> computation[k[2]].args,
            answered |-> psi_request[k].status = 3]]

\* The initial states are those of the service.
LEMMA InitRefines == Init => Service!Init
BY DEF Init, Service!Init

\* Registering a set is registering it abstractly.
LEMMA RegisterRefines ==
  ASSUME IInv, NEW u \in Users, NEW s \in Sets, RegisterContacts(u, s)
  PROVE  Service!Register(u, s)
<1>1. Registered' = Put(Registered, u, s)
  BY DEF Registered, RegisterContacts, Put
<1>2. Jobs' = Jobs
  BY DEF Jobs, RegisterContacts
<1>3. QED
  BY <1>1, <1>2 DEF Service!Register, Service!Put, Registered, Jobs, Put

\* A committed request is an abstract request: the sets are those registered
\* now, and no earlier job has its offset.
LEMMA RequestRefines ==
  ASSUME IInv, NEW u \in Users, NEW t \in Users, NEW o \in Offsets, RequestPsi(u, t, o)
  PROVE  Service!Request(u, t, o)
<1> DEFINE k == <<u, o>>
<1>1. /\ k \notin DOMAIN psi_request /\ o \notin DOMAIN computation
      /\ u \in DOMAIN user_registry /\ t \in DOMAIN user_registry
      /\ user_registry' = user_registry
  BY DEF RequestPsi, RequestAccountsValid, QueueAccepts
<1>2. \A l \in DOMAIN psi_request : l[2] \in DOMAIN computation /\ l[2] # o /\ l # k
  BY <1>1 DEF IInv, RequestsMatchComputations
<1>3. /\ DOMAIN psi_request' = DOMAIN psi_request \cup {k}
      /\ psi_request'[k].status = 1
      /\ \A l \in DOMAIN psi_request : psi_request'[l] = psi_request[l]
  BY <1>1 DEF RequestPsi, Put
<1>4. /\ computation'[o].args = <<Registered[u], Registered[t]>>
      /\ \A p \in DOMAIN computation : computation'[p] = computation[p]
  BY <1>1 DEF RequestPsi, Put, QueuedArgs, Registered
<1>5. Jobs' = Put(Jobs, k, [sets |-> <<Registered[u], Registered[t]>>, answered |-> FALSE])
  <2>1. DOMAIN Jobs' = DOMAIN Jobs \cup {k}
    BY <1>3 DEF Jobs
  <2>2. Jobs'[k] = [sets |-> <<Registered[u], Registered[t]>>, answered |-> FALSE]
    <3>1. k \in DOMAIN psi_request' /\ k[2] = o /\ (psi_request'[k].status = 3) = FALSE
      BY <1>3
    <3>2. Jobs'[k] = [sets |-> computation'[o].args, answered |-> FALSE]
      BY <3>1 DEF Jobs
    <3>3. QED
      BY <3>2, <1>4
  <2>3. ASSUME NEW l \in DOMAIN Jobs
        PROVE  Jobs'[l] = Jobs[l] /\ l # k
    BY <1>2, <1>3, <1>4 DEF Jobs
  <2>4. Jobs' = [l \in DOMAIN Jobs' |-> Jobs'[l]]
    BY DEF Jobs
  <2>5. QED
    BY <2>1, <2>2, <2>3, <2>4 DEF Put
<1>6. /\ {u, t} \subseteq DOMAIN Registered
      /\ \A l \in DOMAIN Jobs : l[2] # o
      /\ Registered' = Registered
  BY <1>1, <1>2 DEF Registered, Jobs
<1>7. QED
  BY <1>5, <1>6 DEF Service!Request, Service!Put, Registered, Jobs, Put

\* Executing a computation is not visible.
LEMMA ExecuteRefines ==
  ASSUME IInv, NEW o \in Offsets, Execute(o)
  PROVE  UNCHANGED Service!vars
<1>1. /\ psi_request' = psi_request /\ user_registry' = user_registry
      /\ DOMAIN computation' = DOMAIN computation
      /\ \A p \in DOMAIN computation : computation'[p].args = computation[p].args
  BY DEF Execute, IInv, TypeOK, Computation
<1>2. Jobs' = Jobs /\ Registered' = Registered
  BY <1>1 DEF Jobs, Registered, IInv, RequestsMatchComputations
<1>3. QED
  BY <1>2 DEF Service!vars, Jobs, Registered

\* A callback answers its job or is not visible.
LEMMA CallbackRefines ==
  ASSUME IInv, NEW k \in Users \X Offsets, NEW o \in Offsets, ComputePsiCallback(k, o)
  PROVE  (k \in DOMAIN Jobs /\ Service!Answer(k)) \/ UNCHANGED Service!vars
<1>1. UNCHANGED <<user_registry, computation>>
  BY DEF ComputePsiCallback
<1>2. /\ k \in DOMAIN psi_request
      /\ \/ psi_request' = psi_request
         \/ psi_request' = [psi_request EXCEPT ![k].status = 3]
  BY CallbackEffect
<1>3. psi_request[k] \in PsiRequest
  BY <1>2 DEF IInv, TypeOK
<1>4. Registered' = Registered
  BY <1>1 DEF Registered
<1>5. CASE psi_request' = psi_request
  <2>1. Jobs' = Jobs
    BY <1>1, <1>5 DEF Jobs
  <2>2. QED
    BY <1>4, <2>1 DEF Service!vars, Jobs, Registered
<1>6. CASE psi_request' = [psi_request EXCEPT ![k].status = 3]
  <2>1. Jobs' = [Jobs EXCEPT ![k].answered = TRUE]
    BY <1>1, <1>2, <1>3, <1>6 DEF Jobs, PsiRequest
  <2>2. CASE psi_request[k].status = 3
    <3>1. /\ DOMAIN psi_request' = DOMAIN psi_request
          /\ \A l \in DOMAIN psi_request :
               (psi_request'[l].status = 3) = (psi_request[l].status = 3)
      BY <1>2, <1>3, <1>6, <2>2 DEF PsiRequest
    <3>2. Jobs' = Jobs
      BY <1>1, <3>1 DEF Jobs
    <3>3. QED
      BY <1>4, <3>2 DEF Service!vars, Jobs, Registered
  <2>3. CASE psi_request[k].status # 3
    <3>1. k \in DOMAIN Jobs /\ ~Jobs[k].answered
      BY <1>2, <2>3 DEF Jobs
    <3>2. QED
      BY <1>4, <2>1, <3>1 DEF Service!Answer, Jobs, Registered
  <2>4. QED
    BY <2>2, <2>3
<1>7. QED
  BY <1>2, <1>5, <1>6

\* A queued computation works on the sets registered when it was queued; the
\* program does nothing its users were not promised.
THEOREM Implementation == Spec => ImplementsService
<1>1. Init => Service!Init
  BY InitRefines
<1>2. IInv /\ [Next]_vars => [Service!Next]_(Service!vars)
  <2> SUFFICES ASSUME IInv, [Next]_vars PROVE [Service!Next]_(Service!vars)
    OBVIOUS
  <2>1. CASE InitComputePsiCompDef
    BY <2>1 DEF InitComputePsiCompDef, Service!vars
  <2>2. ASSUME NEW u \in Users, NEW s \in Sets, RegisterContacts(u, s)
        PROVE  [Service!Next]_(Service!vars)
    BY <2>2, RegisterRefines DEF Service!Next
  <2>3. ASSUME NEW u \in Users, NEW t \in Users, NEW o \in Offsets, RequestPsi(u, t, o)
        PROVE  [Service!Next]_(Service!vars)
    BY <2>3, RequestRefines DEF Service!Next
  <2>4. ASSUME NEW o \in Offsets, Execute(o)
        PROVE  [Service!Next]_(Service!vars)
    BY <2>4, ExecuteRefines
  <2>5. ASSUME NEW u \in Users, NEW o \in Offsets, NEW c \in Offsets,
               ComputePsiCallback(<<u, o>>, c)
        PROVE  [Service!Next]_(Service!vars)
    BY <2>5, CallbackRefines DEF Service!Next, Jobs
  <2>6. CASE UNCHANGED vars
    BY <2>6 DEF vars, Service!vars
  <2>7. QED
    BY <2>1, <2>2, <2>3, <2>4, <2>5, <2>6 DEF Next
<1>3. QED
  BY <1>1, <1>2, InvariantHolds, PTL DEF Spec, ImplementsService, Service!Spec

-----------------------------------------------------------------------------
(* The arguments of computations: what a node reads from any list. *)

\* The tables of a list.
Tables == {"byte_arrays", "plaintext_numbers", "values_128_bit"}

\* The kinds of arguments.
Kinds == Direct \cup Numbers \cup Wide \cup Encrypted
           \cup {"X25519Pubkey", "PlaintextPoint", "ArcisEd25519Signature", "Account"}

\* Lists of values of V.
Lists(V) ==
  [args : Seq([kind : Kinds, at : Nat]), byte_arrays : Seq(V), plaintext_numbers : Seq(V),
   values_128_bit : Seq(V), accounts : Seq([pubkey : STRING, offset : Nat, length : Nat])]

\* Every indexed argument refers to a value of its table.
IndicesInTables(list) ==
  \A n \in 1 .. Len(list.args) :
    list.args[n].kind \notin Direct => list.args[n].at < Len(list[Table(list.args[n].kind)])

\* An index below their number is itself,
LEMMA IndexFits == ASSUME NEW n \in Nat, n < INDEX_VALUES PROVE n % INDEX_VALUES = n
BY IndexAssumption

\* and is a number in any case.
LEMMA IndexIsNat == ASSUME NEW n \in Nat PROVE n % INDEX_VALUES \in Nat
BY IndexAssumption

\* An element of a list.
LEMMA ElementOf == ASSUME NEW S, NEW s \in Seq(S), NEW n \in 1 .. Len(s) PROVE s[n] \in S
OBVIOUS

\* Each kind has one of the tables.
LEMMA TableInTables == ASSUME NEW kind \in Kinds PROVE Table(kind) \in Tables
BY DEF Table, Tables

\* What indexed does to a list whose table has room: the argument refers to the
\* place of the value, and the other tables stay.
LEMMA IndexedList ==
  ASSUME NEW V, NEW list \in Lists(V), NEW kind \in Kinds, NEW value \in V,
         Len(list[Table(kind)]) < INDEX_VALUES
  PROVE  LET l == indexed(list, kind, value)
         IN  /\ l \in Lists(V)
             /\ l.args = Append(list.args, ArgumentRef(kind, Len(list[Table(kind)])))
             /\ l[Table(kind)] = Append(list[Table(kind)], value)
             /\ \A t \in Tables \ {Table(kind)} : l[t] = list[t]
<1> DEFINE table == Table(kind)
           arg   == ArgumentRef(kind, Len(list[table]) % INDEX_VALUES)
           l     == indexed(list, kind, value)
<1>1. table \in Tables
  BY TableInTables
<1>2. Len(list[table]) \in Nat
  BY <1>1 DEF Tables, Lists
<1>3. Len(list[table]) % INDEX_VALUES = Len(list[table])
  BY <1>2, IndexFits
<1>4. arg \in [kind : Kinds, at : Nat] /\ arg = ArgumentRef(kind, Len(list[table]))
  BY <1>2, <1>3 DEF ArgumentRef
<1>a. Append(list.args, arg) \in Seq([kind : Kinds, at : Nat])
  BY <1>4 DEF Lists
<1>b. Append(list[table], value) \in Seq(V)
  BY <1>1 DEF Lists, Tables
<1>c. l = [list EXCEPT !.args = Append(list.args, arg), ![table] = Append(list[table], value)]
  BY DEF indexed
<1>5. CASE table = "byte_arrays"
  BY <1>4, <1>5, <1>a, <1>b, <1>c DEF Lists, Tables
<1>6. CASE table = "plaintext_numbers"
  BY <1>4, <1>6, <1>a, <1>b, <1>c DEF Lists, Tables
<1>7. CASE table = "values_128_bit"
  BY <1>4, <1>7, <1>a, <1>b, <1>c DEF Lists, Tables
<1> QED
  BY <1>1, <1>5, <1>6, <1>7 DEF Tables

\* An argument that has just been added is read as the value it was added with,
\* as long as its table has no more values than an index of one byte can tell apart.
THEOREM AddedIsRead ==
  ASSUME NEW V, NEW list \in Lists(V), NEW kind \in Kinds \ Direct, NEW value \in V,
         Len(list[Table(kind)]) < INDEX_VALUES
  PROVE  LET l == indexed(list, kind, value)
         IN  ValueOf(l, l.args[Len(list.args) + 1]) = value
<1> DEFINE l == indexed(list, kind, value)
<1>1. /\ l.args = Append(list.args, ArgumentRef(kind, Len(list[Table(kind)])))
      /\ l[Table(kind)] = Append(list[Table(kind)], value)
  BY IndexedList
<1> HIDE DEF l
<1>2. list.args \in Seq([kind : Kinds, at : Nat]) /\ list[Table(kind)] \in Seq(V)
  BY TableInTables DEF Lists, Tables
<1>3. l.args[Len(list.args) + 1] = ArgumentRef(kind, Len(list[Table(kind)]))
  BY <1>1, <1>2
<1>4. l[Table(kind)][Len(list[Table(kind)]) + 1] = value
  BY <1>1, <1>2
<1>5. ValueOf(l, l.args[Len(list.args) + 1]) = value
  BY <1>3, <1>4 DEF ValueOf, ArgumentRef
<1> QED
  BY <1>5 DEF l

\* Adding an argument changes what none of the arguments before it is read as,
\* and leaves every index inside its table.
THEOREM EarlierAreKept ==
  ASSUME NEW V, NEW list \in Lists(V), NEW kind \in Kinds \ Direct, NEW value \in V,
         Len(list[Table(kind)]) < INDEX_VALUES, IndicesInTables(list)
  PROVE  LET l == indexed(list, kind, value)
         IN  /\ IndicesInTables(l)
             /\ \A n \in 1 .. Len(list.args) :
                  l.args[n] = list.args[n] /\ ValueOf(l, l.args[n]) = ValueOf(list, list.args[n])
<1> DEFINE l == indexed(list, kind, value)
           new_arg == ArgumentRef(kind, Len(list[Table(kind)]))
<1>1. /\ l \in Lists(V)
      /\ l.args = Append(list.args, new_arg)
      /\ l[Table(kind)] = Append(list[Table(kind)], value)
      /\ \A t \in Tables \ {Table(kind)} : l[t] = list[t]
  BY IndexedList
<1> HIDE DEF l
<1>2. /\ list.args \in Seq([kind : Kinds, at : Nat])
      /\ \A t \in Tables : list[t] \in Seq(V) /\ l[t] \in Seq(V)
  BY <1>1 DEF Lists, Tables
<1>3. /\ Len(l.args) = Len(list.args) + 1
      /\ \A n \in 1 .. Len(list.args) : l.args[n] = list.args[n]
      /\ l.args[Len(list.args) + 1] = new_arg
  BY <1>1, <1>2
<1>4. ASSUME NEW t \in Tables, NEW k \in 1 .. Len(list[t])
      PROVE  l[t][k] = list[t][k] /\ k <= Len(l[t])
  <2>1. CASE t = Table(kind)
    <3>1. list[t] \in Seq(V) /\ l[t] = Append(list[t], value) /\ value \in V
      BY <1>1, <1>2, <2>1
    <3> QED BY <3>1, AppendProperties
  <2>2. CASE t # Table(kind)
    BY <1>1, <1>2, <2>2
  <2> QED
    BY <2>1, <2>2
<1>5. ASSUME NEW n \in 1 .. Len(list.args)
      PROVE  /\ ValueOf(l, l.args[n]) = ValueOf(list, list.args[n])
             /\ l.args[n].kind \notin Direct => l.args[n].at < Len(l[Table(l.args[n].kind)])
  <2> DEFINE arg == list.args[n]
  <2>1. l.args[n] = arg
    BY <1>3
  <2>2. arg \in [kind : Kinds, at : Nat]
    BY <1>2, ElementOf
  <2>3. CASE arg.kind \in Direct
    BY <2>1, <2>3 DEF ValueOf
  <2>4. CASE arg.kind \notin Direct
    <3> DEFINE t == Table(arg.kind)
    <3>1. t \in Tables
      BY <2>2, TableInTables
    <3>2. arg.at < Len(list[t])
      BY <2>4 DEF IndicesInTables
    <3>3. Len(list[t]) \in Nat /\ Len(l[t]) \in Nat
      BY <1>2, <3>1
    <3> HIDE DEF t
    <3>4. arg.at + 1 \in 1 .. Len(list[t])
      BY <2>2, <3>2, <3>3
    <3>5. l[t][arg.at + 1] = list[t][arg.at + 1] /\ arg.at < Len(l[t])
      BY <1>4, <2>2, <3>1, <3>3, <3>4
    <3> QED
      BY <2>1, <2>4, <3>5 DEF ValueOf, t
  <2> QED
    BY <2>3, <2>4
<1>6. new_arg.at < Len(l[Table(new_arg.kind)])
  <2>1. Table(kind) \in Tables
    BY TableInTables
  <2>2. Len(l[Table(kind)]) = Len(list[Table(kind)]) + 1 /\ Len(list[Table(kind)]) \in Nat
    BY <1>1, <1>2, <2>1
  <2> QED
    BY <2>2 DEF ArgumentRef
<1>7. IndicesInTables(l)
  <2> SUFFICES ASSUME NEW n \in 1 .. Len(l.args), l.args[n].kind \notin Direct
               PROVE  l.args[n].at < Len(l[Table(l.args[n].kind)])
    BY DEF IndicesInTables
  <2>1. Len(list.args) \in Nat
    BY <1>2
  <2>2. CASE n \in 1 .. Len(list.args)
    BY <1>5, <2>2
  <2>3. CASE n = Len(list.args) + 1
    BY <1>3, <1>6, <2>3
  <2> QED
    BY <1>3, <2>1, <2>2, <2>3
<1> QED
  BY <1>3, <1>5, <1>7 DEF l

-----------------------------------------------------------------------------
(* The list of a computation. *)

\* The kinds of the arguments that an encrypted set is passed in.
SetKinds == {"X25519Pubkey", "PlaintextU128", "PlaintextPoint"}

\* The first k arguments of a list match the first parameters, and a node reads the first
\* values from them.
Holds(list, k, parameters, values) ==
  /\ Len(list.args) = k /\ IndicesInTables(list)
  /\ Len(list.byte_arrays) <= k /\ Len(list.values_128_bit) <= k
  /\ \A n \in 1 .. k : /\ list.args[n].kind \in SetKinds
                       /\ arg_match_param(list.args[n], parameters[n])
                       /\ ValueOf(list, list.args[n]) = values[n]

\* One argument more, while the tables have room.
LEMMA HoldsOneMore ==
  ASSUME NEW V, NEW list \in Lists(V), NEW k \in Nat, NEW parameters, NEW values,
         Holds(list, k, parameters, values), k < INDEX_VALUES,
         NEW kind \in SetKinds, values[k + 1] \in V,
         kind = "X25519Pubkey" => parameters[k + 1] = "ArcisX25519Pubkey",
         kind # "X25519Pubkey" => parameters[k + 1] = kind
  PROVE  LET l == indexed(list, kind, values[k + 1])
         IN  l \in Lists(V) /\ Holds(l, k + 1, parameters, values)
<1> DEFINE value == values[k + 1]
           l == indexed(list, kind, value)
<1>1. kind \in Kinds \ Direct /\ Table(kind) \in {"byte_arrays", "values_128_bit"}
  <2>1. CASE kind = "X25519Pubkey"
    BY <2>1 DEF Kinds, Direct, Table, Numbers, Wide
  <2>2. CASE kind = "PlaintextU128"
    BY <2>2 DEF Kinds, Direct, Table, Numbers, Wide
  <2>3. CASE kind = "PlaintextPoint"
    BY <2>3 DEF Kinds, Direct, Table, Numbers, Wide
  <2> QED BY <2>1, <2>2, <2>3 DEF SetKinds
<1>2. /\ list.args \in Seq([kind : Kinds, at : Nat])
      /\ list.byte_arrays \in Seq(V) /\ list.values_128_bit \in Seq(V)
  BY DEF Lists
<1>3. Len(list[Table(kind)]) < INDEX_VALUES /\ Len(list[Table(kind)]) <= k
  <2>1. Len(list[Table(kind)]) \in Nat /\ Len(list[Table(kind)]) <= k
    BY <1>1, <1>2 DEF Holds
  <2> QED BY <2>1, IndexAssumption
<1>4. /\ l \in Lists(V)
      /\ l.args = Append(list.args, ArgumentRef(kind, Len(list[Table(kind)])))
      /\ l[Table(kind)] = Append(list[Table(kind)], value)
      /\ \A t \in Tables \ {Table(kind)} : l[t] = list[t]
  BY <1>1, <1>3, IndexedList
<1>5. ValueOf(l, l.args[Len(list.args) + 1]) = value
  BY <1>1, <1>3, AddedIsRead
<1>6. /\ IndicesInTables(l)
      /\ \A n \in 1 .. Len(list.args) :
           l.args[n] = list.args[n] /\ ValueOf(l, l.args[n]) = ValueOf(list, list.args[n])
  BY <1>1, <1>3, EarlierAreKept DEF Holds
<1> HIDE DEF l
<1>7. Len(l.args) = k + 1 /\ l.args[k + 1] = ArgumentRef(kind, Len(list[Table(kind)]))
  BY <1>2, <1>4 DEF Holds
<1>8. Len(l.byte_arrays) <= k + 1 /\ Len(l.values_128_bit) <= k + 1
  <2>1. /\ Len(list.byte_arrays) \in Nat /\ Len(list.byte_arrays) <= k
        /\ Len(list.values_128_bit) \in Nat /\ Len(list.values_128_bit) <= k
    BY <1>2 DEF Holds
  <2>2. CASE Table(kind) = "byte_arrays"
    <3>1. Len(l.byte_arrays) = Len(list.byte_arrays) + 1 /\ l.values_128_bit = list.values_128_bit
      BY <2>2, <1>2, <1>4 DEF Tables
    <3> QED BY <2>1, <3>1
  <2>3. CASE Table(kind) = "values_128_bit"
    <3>1. Len(l.values_128_bit) = Len(list.values_128_bit) + 1 /\ l.byte_arrays = list.byte_arrays
      BY <2>3, <1>2, <1>4 DEF Tables
    <3> QED BY <2>1, <3>1
  <2> QED BY <1>1, <2>2, <2>3
<1>9. arg_match_param(l.args[k + 1], parameters[k + 1]) /\ l.args[k + 1].kind = kind
  BY <1>7 DEF arg_match_param, ArgumentRef, SetKinds, Encrypted
<1>10. ASSUME NEW n \in 1 .. k + 1
       PROVE  /\ l.args[n].kind \in SetKinds
              /\ arg_match_param(l.args[n], parameters[n])
              /\ ValueOf(l, l.args[n]) = values[n]
  <2>1. CASE n = k + 1
    BY <2>1, <1>5, <1>9 DEF Holds
  <2>2. CASE n # k + 1
    <3>1. n \in 1 .. k /\ k = Len(list.args)
      BY <2>2 DEF Holds
    <3> QED BY <3>1, <1>6 DEF Holds
  <2> QED BY <2>1, <2>2
<1> QED BY <1>4, <1>6, <1>7, <1>8, <1>10 DEF Holds, l

\* Where a set stands among parameters and values.
StandsAt(k, set, parameters, values) ==
  /\ parameters[k + 1] = "ArcisX25519Pubkey" /\ values[k + 1] = set.encryption_key
  /\ parameters[k + 2] = "PlaintextU128" /\ values[k + 2] = set.nonce
  /\ \A i \in 1 .. MAX_CONTACTS :
       parameters[k + 2 + i] = "PlaintextPoint" /\ values[k + 2 + i] = set.ciphertexts[i]

\* A set is added: its key, its nonce and, by induction on their number, its points.
LEMMA HoldsSet ==
  ASSUME NEW V, NEW list \in Lists(V), NEW k \in Nat, NEW parameters, NEW values,
         Holds(list, k, parameters, values), NEW set, StandsAt(k, set, parameters, values),
         set.ciphertexts \in Seq(V), Len(set.ciphertexts) = MAX_CONTACTS,
         set.encryption_key \in V, set.nonce \in V,
         k + 2 + MAX_CONTACTS <= INDEX_VALUES
  PROVE  LET l == add_shared_encrypted_struct(list, set)
         IN  l \in Lists(V) /\ Holds(l, k + 2 + MAX_CONTACTS, parameters, values)
<1> DEFINE N == MAX_CONTACTS
           U == Lists(V)
           keyed == indexed(list, "X25519Pubkey", set.encryption_key)
           base == indexed(keyed, "PlaintextU128", set.nonce)
           Add(n, l) == indexed(l, "PlaintextPoint", set.ciphertexts[n])
           Is(with) == with = [n \in 0 .. N |-> IF n = 0 THEN base ELSE Add(n, with[n - 1])]
           W == [n \in 0 .. N |-> {l \in U : Holds(l, k + 2 + n, parameters, values)}]
<1>1. N \in Nat /\ INDEX_VALUES \in Nat
  BY LayoutAssumption, IndexAssumption
<1>2. keyed \in U /\ Holds(keyed, k + 1, parameters, values)
  <2>1. values[k + 1] = set.encryption_key /\ parameters[k + 1] = "ArcisX25519Pubkey"
    BY DEF StandsAt
  <2> QED BY <1>1, <2>1, HoldsOneMore DEF SetKinds
<1> HIDE DEF keyed
<1>3. base \in U /\ Holds(base, k + 2, parameters, values)
  <2> DEFINE m == k + 1
  <2>1. m \in Nat /\ m + 1 = k + 2 /\ m < INDEX_VALUES
    BY <1>1
  <2>2. values[m + 1] = set.nonce /\ parameters[m + 1] = "PlaintextU128"
    BY <2>1 DEF StandsAt
  <2>3. Holds(keyed, m, parameters, values)
    BY <1>2
  <2> HIDE DEF m
  <2>4. base \in U /\ Holds(base, m + 1, parameters, values)
    BY <1>2, <2>1, <2>2, <2>3, HoldsOneMore DEF SetKinds
  <2> QED BY <2>1, <2>4
<1> HIDE DEF base
<1>4. ASSUME NEW n \in 1 .. N, NEW l \in U PROVE Add(n, l) \in U
  <2>1. set.ciphertexts[n] \in V
    BY <1>1
  <2>2. Table("PlaintextPoint") = "byte_arrays" /\ l.byte_arrays \in Seq(V)
    BY DEF Table, Numbers, Wide, Lists
  <2>3. Len(l.byte_arrays) % INDEX_VALUES \in Nat
    <3>1. Len(l.byte_arrays) \in Nat
      BY <2>2
    <3> QED BY <3>1, IndexIsNat
  <2>4. Add(n, l) = [l EXCEPT !.args = Append(l.args, ArgumentRef("PlaintextPoint",
                                                        Len(l.byte_arrays) % INDEX_VALUES)),
                              !.byte_arrays = Append(l.byte_arrays, set.ciphertexts[n])]
    BY <2>2 DEF indexed
  <2>5. Append(l.args, ArgumentRef("PlaintextPoint", Len(l.byte_arrays) % INDEX_VALUES))
          \in Seq([kind : Kinds, at : Nat])
    <3>1. ArgumentRef("PlaintextPoint", Len(l.byte_arrays) % INDEX_VALUES) \in [kind : Kinds, at : Nat]
      BY <2>3 DEF ArgumentRef, Kinds
    <3>2. l.args \in Seq([kind : Kinds, at : Nat])
      BY DEF Lists
    <3> HIDE DEF U
    <3> QED BY <3>1, <3>2, AppendProperties
  <2>6. Append(l.byte_arrays, set.ciphertexts[n]) \in Seq(V)
    BY <2>1, <2>2
  <2> QED BY <2>4, <2>5, <2>6 DEF Lists
<1>5. ASSUME NEW n \in 1 .. N, NEW l \in U, Holds(l, k + 2 + (n - 1), parameters, values)
      PROVE  Holds(Add(n, l), k + 2 + n, parameters, values)
  <2> DEFINE m == k + 2 + (n - 1)
  <2>1. m \in Nat /\ m + 1 = k + 2 + n /\ m < INDEX_VALUES
    BY <1>1
  <2>2. values[m + 1] = set.ciphertexts[n] /\ parameters[m + 1] = "PlaintextPoint"
    BY <2>1 DEF StandsAt
  <2>3. values[m + 1] \in V
    BY <1>1, <2>2
  <2> HIDE DEF m
  <2>4. Holds(l, m, parameters, values)
    BY <1>5 DEF m
  <2>5. Holds(indexed(l, "PlaintextPoint", values[m + 1]), m + 1, parameters, values)
    BY <2>1, <2>2, <2>3, <2>4, HoldsOneMore DEF SetKinds
  <2> QED BY <2>1, <2>2, <2>5
<1> DEFINE step == [p \in (1 .. N) \X U |-> Add(p[1], p[2])]
<1> HIDE DEF N, U, Add
<1>6. step \in Steps(N, U) /\ \A n \in 1 .. N : \A l \in U : step[<<n, l>>] = Add(n, l)
  BY <1>4 DEF Steps
<1> HIDE DEF step
<1>7. PICK f \in [0 .. N -> U] : Follows(f, N, base, step)
  BY <1>1, <1>3, <1>6, Recursion
<1>8. Is(f)
  <2> SUFFICES ASSUME NEW n \in 0 .. N, n # 0 PROVE f[n] = Add(n, f[n - 1])
    BY <1>7 DEF Follows
  <2>1. n \in 1 .. N /\ n - 1 \in 0 .. N
    BY <1>1
  <2> QED BY <2>1, <1>6, <1>7 DEF Follows
<1> DEFINE with == CHOOSE g : Is(g)
<1>9. Is(with)
  BY <1>8
<1>10. add_shared_encrypted_struct(list, set) = with[N]
  BY DEF add_shared_encrypted_struct, N, Add, base, keyed
<1> HIDE DEF with
<1>11. with[0] \in W[0]
  BY <1>1, <1>3, <1>9
<1>12. ASSUME NEW n \in 1 .. N, with[n - 1] \in W[n - 1] PROVE with[n] \in W[n]
  <2>1. n \in 0 .. N /\ n - 1 \in 0 .. N /\ n # 0
    BY <1>1
  <2> QED BY <2>1, <1>4, <1>5, <1>9, <1>12
<1>13. with[N] \in W[N]
  <2> HIDE DEF W
  <2>1. \A n \in 0 .. N : with[n] \in W[n]
    BY <1>1, <1>11, <1>12, UpTo
  <2> QED BY <2>1, <1>1
<1> QED BY <1>1, <1>10, <1>13 DEF N, U

\* A list whose arguments match all of the parameters is accepted.
LEMMA AllMatched ==
  ASSUME NEW list, NEW K \in Nat, NEW parameters, NEW values,
         Len(parameters) = K, Holds(list, K, parameters, values)
  PROVE  args_match_params(list.args, list.accounts, parameters) = Ok
<1> DEFINE at(n) == [param_idx |-> n, error |-> Ok]
           Next_(n, r) == IF r.error # Ok THEN r
                          ELSE MatchArgument(r, n, list.args[n], list.accounts, parameters)
           Is(f) == f = [n \in 0 .. Len(list.args) |->
                           IF n = 0 THEN at(0)
                           ELSE IF f[n - 1].error # Ok THEN f[n - 1]
                           ELSE MatchArgument(f[n - 1], n, list.args[n], list.accounts, parameters)]
           all == [n \in 0 .. K |-> at(n)]
           matched == CHOOSE f : Is(f)
<1>1. Len(list.args) = K
  BY DEF Holds
<1>2. ASSUME NEW n \in 1 .. K
      PROVE  MatchArgument(at(n - 1), n, list.args[n], list.accounts, parameters) = at(n)
  <2>1. /\ list.args[n].kind \in SetKinds
        /\ arg_match_param(list.args[n], parameters[n])
    BY DEF Holds
  <2>2. list.args[n].kind # "Account" /\ list.args[n].kind # "ArcisEd25519Signature"
    BY <2>1 DEF SetKinds
  <2>3. at(n - 1).param_idx + 1 = n /\ n <= Len(parameters)
    OBVIOUS
  <2>4. [at(n - 1) EXCEPT !.param_idx = @ + 1] = at(n)
    OBVIOUS
  <2> HIDE DEF at
  <2> QED BY <2>1, <2>2, <2>3, <2>4 DEF MatchArgument
<1>3. Is(all)
  <2> SUFFICES ASSUME NEW n \in 0 .. K, n # 0
               PROVE  all[n] = MatchArgument(all[n - 1], n, list.args[n], list.accounts, parameters)
                      /\ all[n - 1].error = Ok
    BY <1>1
  <2>1. n \in 1 .. K /\ n - 1 \in 0 .. K /\ all[n] = at(n) /\ all[n - 1] = at(n - 1)
    OBVIOUS
  <2> QED BY <2>1, <1>2
<1>4. Is(matched)
  <2> HIDE DEF Is, all
  <2> QED BY <1>3
<1>5. args_match_params(list.args, list.accounts, parameters)
        = IF matched[Len(list.args)].error # Ok THEN matched[Len(list.args)].error
          ELSE IF matched[Len(list.args)].param_idx < Len(parameters)
               THEN <<"NotEnoughArguments">> ELSE Ok
  BY DEF args_match_params
<1> HIDE DEF matched
<1> DEFINE W == [n \in 0 .. K |-> {at(n)}]
<1>6. matched[0] \in W[0]
  BY <1>1, <1>4
<1>7. ASSUME NEW n \in 1 .. K, matched[n - 1] \in W[n - 1] PROVE matched[n] \in W[n]
  <2>1. n \in 0 .. K /\ n - 1 \in 0 .. K /\ n # 0 /\ matched[n - 1] = at(n - 1)
    BY <1>7
  <2>2. matched[n] = MatchArgument(matched[n - 1], n, list.args[n], list.accounts, parameters)
    BY <2>1, <1>1, <1>4
  <2> QED BY <2>1, <2>2, <1>2
<1>8. matched[K] = at(K)
  <2> HIDE DEF W
  <2>1. \A n \in 0 .. K : matched[n] \in W[n]
    BY <1>6, <1>7, UpTo
  <2>2. matched[K] \in W[K]
    BY <2>1
  <2> QED BY <2>2 DEF W
<1> QED BY <1>1, <1>5, <1>8

\* The parameters and the values of two sets: the first set stands at the front, the second
\* after it.
LEMMA TwoSets ==
  ASSUME NEW a \in Sets, NEW b \in Sets
  PROVE  LET parameters == SetParameters \o SetParameters
             values     == ValuesOf(a) \o ValuesOf(b)
         IN  /\ Len(parameters) = 2 * (MAX_CONTACTS + 2)
             /\ Len(values) = 2 * (MAX_CONTACTS + 2)
             /\ values = [n \in 1 .. Len(values) |-> values[n]]
             /\ StandsAt(0, a, parameters, values)
             /\ StandsAt(MAX_CONTACTS + 2, b, parameters, values)
<1> DEFINE N == MAX_CONTACTS
           P == SetParameters
           V(set) == ValuesOf(set)
<1>1. N \in Nat
  BY LayoutAssumption
<1>2. /\ Len(P) = N + 2 /\ P[1] = "ArcisX25519Pubkey" /\ P[2] = "PlaintextU128"
      /\ \A i \in 1 .. N : P[2 + i] = "PlaintextPoint"
      /\ \E T : P \in Seq(T)
  <2> DEFINE T == {"ArcisX25519Pubkey", "PlaintextU128", "PlaintextPoint"}
             head == <<"ArcisX25519Pubkey", "PlaintextU128">>
             tail == [i \in 1 .. N |-> "PlaintextPoint"]
  <2>1. head \in Seq(T) /\ Len(head) = 2 /\ head[1] = "ArcisX25519Pubkey" /\ head[2] = "PlaintextU128"
    OBVIOUS
  <2>2. tail \in Seq(T) /\ Len(tail) = N /\ \A i \in 1 .. N : tail[i] = "PlaintextPoint"
    BY <1>1
  <2>3. P = head \o tail
    BY DEF SetParameters
  <2> HIDE DEF head, tail, P, T
  <2>a. /\ head \o tail \in Seq(T) /\ Len(head \o tail) = Len(head) + Len(tail)
        /\ \A i \in 1 .. Len(head) + Len(tail) :
             (head \o tail)[i] = IF i <= Len(head) THEN head[i] ELSE tail[i - Len(head)]
    BY <2>1, <2>2, ConcatProperties
  <2>4. /\ P \in Seq(T) /\ Len(P) = 2 + N
        /\ \A i \in 1 .. 2 + N : P[i] = IF i <= 2 THEN head[i] ELSE tail[i - 2]
    BY <2>1, <2>2, <2>3, <2>a
  <2>5. ASSUME NEW i \in 1 .. N PROVE P[2 + i] = "PlaintextPoint"
    BY <1>1, <2>2, <2>4
  <2> QED BY <1>1, <2>1, <2>4, <2>5
<1>3. ASSUME NEW set \in Sets
      PROVE  /\ Len(V(set)) = N + 2
             /\ V(set)[1] = set.encryption_key /\ V(set)[2] = set.nonce
             /\ \A i \in 1 .. N : V(set)[2 + i] = set.ciphertexts[i]
             /\ \E T : V(set) \in Seq(T)
  <2> DEFINE T == {set.encryption_key, set.nonce} \cup {set.ciphertexts[i] : i \in 1 .. N}
             head == <<set.encryption_key, set.nonce>>
             tail == set.ciphertexts
  <2>1. /\ head \in Seq(T) /\ Len(head) = 2
        /\ head[1] = set.encryption_key /\ head[2] = set.nonce
    OBVIOUS
  <2>2. tail \in Seq(T) /\ Len(tail) = N
    <3>1. tail = [i \in 1 .. N |-> tail[i]]
      BY SetsAssumption
    <3>2. \A i \in 1 .. N : tail[i] \in T
      OBVIOUS
    <3> HIDE DEF tail, T
    <3> QED BY <1>1, <3>1, <3>2
  <2>3. V(set) = head \o tail
    BY DEF ValuesOf
  <2> HIDE DEF head, T, V
  <2> HIDE DEF tail
  <2>a. /\ head \o tail \in Seq(T) /\ Len(head \o tail) = Len(head) + Len(tail)
        /\ \A i \in 1 .. Len(head) + Len(tail) :
             (head \o tail)[i] = IF i <= Len(head) THEN head[i] ELSE tail[i - Len(head)]
    BY <2>1, <2>2, ConcatProperties
  <2>4. /\ V(set) \in Seq(T) /\ Len(V(set)) = 2 + N
        /\ \A i \in 1 .. 2 + N : V(set)[i] = IF i <= 2 THEN head[i] ELSE tail[i - 2]
    BY <2>1, <2>2, <2>3, <2>a
  <2>5. ASSUME NEW i \in 1 .. N PROVE V(set)[2 + i] = tail[i]
    BY <1>1, <2>4
  <2> QED BY <1>1, <2>1, <2>4, <2>5 DEF tail
<1> HIDE DEF P, V, N
<1>4. ASSUME NEW s, NEW t, NEW S, NEW T, s \in Seq(S), t \in Seq(T), Len(s) = N + 2, Len(t) = N + 2
      PROVE  /\ Len(s \o t) = 2 * (N + 2)
             /\ \A i \in 1 .. N + 2 : (s \o t)[i] = s[i]
             /\ \A i \in 1 .. N + 2 : (s \o t)[N + 2 + i] = t[i]
             /\ s \o t = [i \in 1 .. Len(s \o t) |-> (s \o t)[i]]
  <2>1. s \in Seq(S \cup T) /\ t \in Seq(S \cup T)
    BY <1>4
  <2>2. /\ Len(s \o t) = Len(s) + Len(t)
        /\ \A i \in 1 .. Len(s) + Len(t) : (s \o t)[i] = IF i <= Len(s) THEN s[i] ELSE t[i - Len(s)]
    BY <2>1, ConcatProperties
  <2>3. ASSUME NEW i \in 1 .. N + 2 PROVE (s \o t)[N + 2 + i] = t[i]
    BY <1>1, <1>4, <2>2
  <2>4. s \o t = [i \in 1 .. Len(s \o t) |-> (s \o t)[i]]
    <3>1. s \o t \in Seq(S \cup T)
      BY <2>1, ConcatProperties
    <3>2. \A r \in Seq(S \cup T) : r = [i \in 1 .. Len(r) |-> r[i]]
      OBVIOUS
    <3> QED BY <3>1, <3>2
  <2> QED BY <1>1, <1>4, <2>2, <2>3, <2>4
<1>5. /\ Len(P \o P) = 2 * (N + 2)
      /\ \A i \in 1 .. N + 2 : (P \o P)[i] = P[i] /\ (P \o P)[N + 2 + i] = P[i]
  BY <1>2, <1>4
<1>6. /\ Len(V(a) \o V(b)) = 2 * (N + 2)
      /\ \A i \in 1 .. N + 2 : (V(a) \o V(b))[i] = V(a)[i] /\ (V(a) \o V(b))[N + 2 + i] = V(b)[i]
      /\ V(a) \o V(b) = [i \in 1 .. Len(V(a) \o V(b)) |-> (V(a) \o V(b))[i]]
  BY <1>3, <1>4
<1>7. StandsAt(0, a, P \o P, V(a) \o V(b))
  <2>1. 1 \in 1 .. N + 2 /\ 2 \in 1 .. N + 2 /\ \A i \in 1 .. N : 2 + i \in 1 .. N + 2
    BY <1>1
  <2>2. 0 + 1 = 1 /\ 0 + 2 = 2 /\ \A i \in 1 .. N : 0 + 2 + i = 2 + i
    OBVIOUS
  <2> QED BY <1>2, <1>3, <1>5, <1>6, <2>1, <2>2 DEF StandsAt, N
<1>8. StandsAt(N + 2, b, P \o P, V(a) \o V(b))
  <2>1. 1 \in 1 .. N + 2 /\ 2 \in 1 .. N + 2 /\ \A i \in 1 .. N : 2 + i \in 1 .. N + 2
    BY <1>1
  <2>2. N + 2 + 1 = N + 2 + 1 /\ \A i \in 1 .. N : (N + 2) + 2 + i = (N + 2) + (2 + i)
    BY <1>1
  <2>3. /\ (P \o P)[N + 2 + 1] = P[1] /\ (P \o P)[N + 2 + 2] = P[2]
        /\ (V(a) \o V(b))[N + 2 + 1] = V(b)[1] /\ (V(a) \o V(b))[N + 2 + 2] = V(b)[2]
    BY <1>5, <1>6, <2>1
  <2>4. ASSUME NEW i \in 1 .. N
        PROVE  /\ (P \o P)[(N + 2) + 2 + i] = P[2 + i]
               /\ (V(a) \o V(b))[(N + 2) + 2 + i] = V(b)[2 + i]
    BY <1>5, <1>6, <2>1, <2>2
  <2> QED BY <1>2, <1>3, <2>3, <2>4 DEF StandsAt, N
<1> QED BY <1>5, <1>6, <1>7, <1>8 DEF P, V, N

\* What a node reads from the list made of two sets, whichever they are.
LEMMA ListOfSets ==
  ASSUME NEW a \in Sets, NEW b \in Sets
  PROVE  LET list == PsiArguments(a, b)
         IN  /\ args_match_params(list.args, list.accounts, SetParameters \o SetParameters) = Ok
             /\ [n \in 1 .. Len(list.args) |-> ValueOf(list, list.args[n])]
                  = ValuesOf(a) \o ValuesOf(b)
<1> DEFINE N == MAX_CONTACTS
           K == 2 * (N + 2)
           parameters == SetParameters \o SetParameters
           values == ValuesOf(a) \o ValuesOf(b)
           All(set) == {set.encryption_key, set.nonce} \cup {set.ciphertexts[i] : i \in 1 .. N}
           V == All(a) \cup All(b)
           first == add_shared_encrypted_struct(new, a)
           list == add_shared_encrypted_struct(first, b)
<1>1. N \in Nat /\ K \in Nat /\ K <= INDEX_VALUES /\ INDEX_VALUES \in Nat
  BY LayoutAssumption, SetsAssumption, IndexAssumption
<1>2. /\ Len(parameters) = K /\ Len(values) = K
      /\ values = [n \in 1 .. Len(values) |-> values[n]]
      /\ StandsAt(0, a, parameters, values) /\ StandsAt(N + 2, b, parameters, values)
  BY TwoSets
<1>3. ASSUME NEW set \in {a, b}
      PROVE  /\ set.ciphertexts \in Seq(V) /\ Len(set.ciphertexts) = N
             /\ set.encryption_key \in V /\ set.nonce \in V
  <2> DEFINE points == set.ciphertexts
  <2>1. points = [i \in 1 .. N |-> points[i]]
    BY SetsAssumption
  <2>2. \A i \in 1 .. N : points[i] \in V
    OBVIOUS
  <2>3. set.encryption_key \in V /\ set.nonce \in V
    OBVIOUS
  <2> HIDE DEF points, V, N
  <2>4. points \in Seq(V) /\ Len(points) = N
    BY <1>1, <2>1, <2>2
  <2> QED BY <2>3, <2>4 DEF points
<1>4. new \in Lists(V) /\ Holds(new, 0, parameters, values)
  BY DEF new, Lists, Holds, IndicesInTables
<1> HIDE DEF parameters, values, V
<1>5. first \in Lists(V) /\ Holds(first, N + 2, parameters, values)
  <2> HIDE DEF K
  <2>0. 0 \in Nat /\ 0 + 2 + N <= INDEX_VALUES
    BY <1>1 DEF K
  <2>1. first \in Lists(V) /\ Holds(first, 0 + 2 + N, parameters, values)
    BY <2>0, <1>2, <1>3, <1>4, HoldsSet
  <2>2. 0 + 2 + N = N + 2
    BY <1>1
  <2> QED BY <2>1, <2>2
<1> HIDE DEF first
<1>6. Holds(list, K, parameters, values)
  <2> DEFINE m == N + 2
  <2>1. m \in Nat /\ m + 2 + N = K
    BY <1>1
  <2>2. Holds(first, m, parameters, values) /\ StandsAt(m, b, parameters, values)
    BY <1>2, <1>5
  <2> HIDE DEF m, K
  <2>3. Holds(list, m + 2 + N, parameters, values)
    BY <1>1, <1>3, <1>5, <2>1, <2>2, HoldsSet
  <2> QED BY <2>1, <2>3
<1>7. list = PsiArguments(a, b)
  BY DEF PsiArguments, first
<1> HIDE DEF list, K
<1>8. args_match_params(list.args, list.accounts, parameters) = Ok
  BY <1>1, <1>2, <1>6, AllMatched
<1>9. [n \in 1 .. Len(list.args) |-> ValueOf(list, list.args[n])] = values
  <2>1. Len(list.args) = K /\ \A n \in 1 .. K : ValueOf(list, list.args[n]) = values[n]
    BY <1>6 DEF Holds
  <2>2. values = [n \in 1 .. K |-> values[n]]
    BY <1>2
  <2> QED BY <2>1, <2>2
<1> QED BY <1>7, <1>8, <1>9 DEF parameters, values

\* A node reads the sets that were queued, for every number of contacts and all sets.
THEOREM ArgumentsCarried == Spec => []ArgumentsCarrySets
<1>1. TypeOK => ArgumentsCarrySets
  <2> SUFFICES ASSUME TypeOK, NEW o \in DOMAIN computation
               PROVE  LET list == QueuedList(o)
                          sets == computation[o].args
                      IN  /\ args_match_params(list.args, list.accounts,
                                               SetParameters \o SetParameters) = Ok
                          /\ [n \in 1 .. Len(list.args) |-> ValueOf(list, list.args[n])]
                               = ValuesOf(sets[1]) \o ValuesOf(sets[2])
    BY DEF ArgumentsCarrySets
  <2>1. computation[o].args[1] \in Sets /\ computation[o].args[2] \in Sets
    BY DEF TypeOK, Computation
  <2> QED BY <2>1, ListOfSets DEF QueuedList
<1> QED BY <1>1, TypeCorrect, PTL
=============================================================================
