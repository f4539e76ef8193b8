---------------------------- MODULE ArciumNetwork -----------------------------
(***************************************************************************)
(* arcium-client at work: its callers send the transactions of             *)
(* transactions.rs, and those it has no function for with the instructions *)
(* of instruction.rs; nodes and time go on; a program queues computations; *)
(* and one caller discovers clusters (state.rs), which takes several reads *)
(* between which the chain goes on.                                        *)
(*                                                                         *)
(* A behaviour is about one topic, with what the topic needs set up.       *)
(***************************************************************************)
EXTENDS ArciumTransactions, FiniteSets, FiniteSetsExt

CONSTANTS Nodes, Clusters, Offsets, Stakes,   \* what is named by an offset
          Definitions, Chunks,                \* circuits and the accounts they are cut into
          Operator,                           \* the wallet that sets things up
          Topics

\* Names are of a fixed number of bytes; the topics are those of SetUp.
ASSUME NetworkAssumption ==
  /\ Operator \in Wallets
  /\ IsFiniteSet(Nodes) /\ IsFiniteSet(Clusters) /\ IsFiniteSet(Programs)
  /\ Topics \subseteq {"nodes", "discovery", "programs", "computations", "keys", "recovery", "staking"}

\* There is what the topics set up, and a backup is another program than the original.
\* An offset is a number, and not the option that is not given.
ASSUME InstanceAssumption ==
  /\ Nodes # {} /\ Clusters # {} /\ Definitions # {}
  /\ \E p, q \in Programs : p # q
  /\ None \notin Clusters

VARIABLES topic,       \* what the behaviour is about
          accounts,    \* the chain
          discovery    \* the call of get_cluster_discovery_info

vars == <<topic, accounts, discovery>>

Is(a) == a \in DOMAIN accounts

\* The node, cluster and programs of the topics that need only one, or two.
TheNode    == CHOOSE n \in Nodes : TRUE
TheCluster == CHOOSE c \in Clusters : TRUE
Original   == CHOOSE p \in Programs : TRUE
Backup     == CHOOSE p \in Programs : p # Original

-----------------------------------------------------------------------------
(* Setting up. *)

After(acc, txs) ==
  LET chain[n \in 0 .. Len(txs)] == IF n = 0 THEN acc ELSE Outcome(chain[n - 1], txs[n]).acc
  IN  chain[Len(txs)]

Network == After(<<>>, <<init_network_program(Operator), init_node_operator_acc(Operator)>>)

\* A cluster of one active node.
OneCluster ==
  After(Network,
    <<init_cluster(Operator, Operator, TheCluster), init_arx_node_acc(Operator, Operator, TheNode),
      Single(activate_arx_ix(Operator, TheNode), Operator),
      propose_join_cluster(Operator, TheCluster, TheNode),
      join_cluster(Operator, TheCluster, TheNode, TRUE), activate_cluster(Operator, TheCluster)>>)

\* The other cluster and the other nodes are there, and not at work.
TwoClusters ==
  After(OneCluster,
        SetToSeq({init_arx_node_acc(Operator, Operator, n) : n \in Nodes \ {TheNode}}
                   \union {init_cluster(Operator, Operator, c) : c \in Clusters \ {TheCluster}}))

\* The offsets of a program's own computations.
KeygenOffset(p)       == IF p = Original THEN 11 ELSE 12
RecoveryInitOffset(p) == IF p = Original THEN 13 ELSE 14
InitMxe(p, c) == init_mxe(Operator, p, KeygenOffset(p), RecoveryInitOffset(p), c, 0)

\* The computations that are under way come to an end, and the pools are empty.
AllEnded(acc) ==
  [a \in DOMAIN acc |->
     CASE a = mempool_acc(TheCluster) -> NewMempool
       [] a[1] = "ComputationAccount" /\ a[2] = TheCluster /\ acc[a].stage = "queued" ->
            [acc[a] EXCEPT !.stage = "final"]
       [] OTHER -> acc[a]]

TwoPrograms == AllEnded(After(OneCluster, <<InitMxe(Original, TheCluster),
                                            InitMxe(Backup, TheCluster)>>))

\* Each program has one complete definition.
AnyDef == CHOOSE d \in Definitions : TRUE

CompleteDefinition(p) ==
  <<init_computation_definition(Operator, AnyDef, p, 0),
    Single(init_raw_circuit_acc_ix(Operator, AnyDef, p, 0), Operator),
    Single(finalize_computation_definition_ix(Operator, AnyDef, p), Operator)>>

ReadyToCompute == After(After(TwoPrograms, CompleteDefinition(Original)), CompleteDefinition(Backup))

SetUp(t) ==
  CASE t = "nodes"        -> After(Network, <<init_cluster(Operator, Operator, TheCluster)>>)
    [] t = "discovery"    -> TwoClusters
    [] t = "programs"     -> OneCluster
    [] t = "computations" -> ReadyToCompute
    [] t = "keys"         -> OneCluster
    [] t = "recovery"     -> After(TwoPrograms, <<finalize_mxe_keys(Operator, Original, TheCluster),
                                                  finalize_mxe_keys(Operator, Backup, TheCluster)>>)
    [] t = "staking"      -> <<>>

-----------------------------------------------------------------------------
(* The transactions of each topic.  A caller passes what it reads in the chain: *)
(* a program's cluster and offsets, a node's cluster, the target of a stake.    *)

NodeTransactions ==
  UNION {{init_arx_node_acc(Operator, w, n) : w \in Wallets, n \in Nodes},
         {Single(activate_arx_ix(Operator, n), Operator) : n \in Nodes},
         {set_arx_node_metadata(Operator, n) : n \in Nodes},
         {Single(set_arx_node_config_ix(Operator, n), Operator) : n \in Nodes},
         {Single(deactivate_arx_ix(Operator, n, accounts[arx_acc(n)].cluster_membership.cluster),
                 Operator) : n \in {m \in Nodes : Is(arx_acc(m))}},
         {submit_aggregated_bls_pubkey(Operator, c, n) : c \in Clusters, n \in Nodes},
         {propose_fee(Operator, c, n) : c \in Clusters, n \in Nodes},
         {vote_fee(Operator, c, n) : c \in Clusters, n \in Nodes},
         {claim_node_fees(Operator, c, n, w) : c \in Clusters, n \in Nodes, w \in Wallets},
         {join_cluster(Operator, c, n, join) : c \in Clusters, n \in Nodes, join \in BOOLEAN}}

ClusterTransactions ==
  UNION {{init_cluster(Operator, w, c) : c \in Clusters, w \in Wallets},
         {increase_mempool_size(Operator, c) : c \in Clusters},
         {Single(set_cluster_authority_ix(Operator, c), Operator) : c \in Clusters},
         {Tx(<<bump_epoch_cluster_ix(c), update_current_epoch_idempotent_ix>>, {}) : c \in Clusters},
         {activate_cluster(Operator, c) : c \in Clusters},
         {Single(deactivate_cluster_ix(Operator, c), Operator) : c \in Clusters},
         {propose_join_cluster(Operator, c, n) : c \in Clusters, n \in Nodes}}

\* What changes the answer of a discovery; most of them are among the two sets above.
DiscoveryTransactions ==
  UNION {{Single(activate_arx_ix(Operator, n), Operator) : n \in Nodes},
         {Single(deactivate_arx_ix(Operator, n, accounts[arx_acc(n)].cluster_membership.cluster),
                 Operator) : n \in Nodes},
         {propose_join_cluster(Operator, c, n) : c \in Clusters, n \in Nodes},
         {join_cluster(Operator, c, n, TRUE) : c \in Clusters, n \in Nodes},
         {Single(deactivate_cluster_ix(Operator, c), Operator) : c \in Clusters},
         {InitMxe(Original, c) : c \in Clusters}}

\* The offsets of a new program's own computations may be taken.
ProgramTransactions ==
  UNION {{init_mxe(Operator, p, k, r, TheCluster, 0) : p \in Programs, k \in Offsets, r \in Offsets},
         {set_cluster(Operator, p, c) : p \in Programs, c \in {TheCluster}},
         {init_recovery_peer_acc(Operator, n) : n \in {TheNode}},
         {init_computation_definition(Operator, d, p, 0) : d \in Definitions, p \in Programs},
         UNION {{Single(init_raw_circuit_acc_ix(Operator, d, p, k), Operator),
                 Single(embiggen_raw_circuit_acc_ix(Operator, d, p, k), Operator),
                 Single(upload_circuit_ix(Operator, p, d, k), Operator),
                 Single(finalize_computation_definition_ix(Operator, d, p), Operator)} :
                  d \in Definitions, p \in {Original}, k \in Chunks}}

\* The programs whose accounts a caller can read.
Initialized == {p \in Programs : Is(mxe_acc(p))}

\* A program queues through a call of its own that signs for its signer account.
QueuedByProgram(w, p, comp, def) ==
  Tx(<<queue_computation_ix(w, p, comp, def, accounts[mxe_acc(p)])>>, {w, signer_acc(p)})

ComputationTransactions ==
  UNION {{queue_computation(w, p, o, AnyDef, accounts[mxe_acc(p)]) :
            w \in Wallets, p \in Initialized, o \in Offsets},
         {QueuedByProgram(w, p, o, AnyDef) : w \in {Operator}, p \in Initialized, o \in Offsets},
         {Tx(<<callback_computation_ix(Operator, p, o, AnyDef, TheNode, accounts[mxe_acc(p)].cluster),
               callback_computation_ix_user(p, <<>>, AnyDef)>>, {Operator}) :
            p \in Initialized, o \in Offsets},
         {Single(reclaim_failure_rent_idempotent_ix(Operator, w, p, o), Operator) :
            w \in {Operator}, p \in Initialized, o \in Offsets}}

\* The data of a claim just fits, or just does not.
ClaimLengths == {MAX_SINGLE_TX_FAILURE_CLAIM_DATA_SIZE + k : k \in 0 .. 1}

FailureClaims ==
  {build_claim_failure_txs(Operator, p, accounts[mxe_acc(p)].cluster,
                           accounts[computation_acc(accounts[mxe_acc(p)].cluster, o)].def,
                           o, TheNode, len, 0) :
     p \in Initialized, len \in ClaimLengths,
     o \in {q \in Offsets : Is(computation_acc(TheCluster, q))}}

KeyTransactions ==
  LET mxe(p) == accounts[mxe_acc(p)]
  IN  UNION {{InitMxe(p, TheCluster) : p \in Programs},
             {requeue_mxe_keygen(Operator, p, mxe(p), mxe(p).cluster) : p \in Initialized},
             {finalize_mxe_keys(Operator, p, mxe(p).cluster) : p \in Initialized},
             {Single(queue_key_recovery_init_ix(Operator, p, mxe(p).cluster,
                                                mxe(p).key_recovery_init_offset), Operator) :
                p \in Initialized},
             UNION {{Single(set_mxe_keys_ix(Operator, p, TheNode, mxe(p).cluster), Operator),
                     Single(set_mxe_recovery_keys_init_ix(Operator, p, TheNode, mxe(p).cluster),
                            Operator),
                     Single(extend_recovery_keyshares_ix(Operator, p, TheNode, mxe(p).cluster),
                            Operator),
                     Single(finalize_key_recovery_shares_upload_ix(
                              Operator, p, TheNode, mxe(p).cluster,
                              mxe(p).key_recovery_init_offset), Operator)} : p \in Initialized}}

RecoveryTransactions ==
  LET c == accounts[mxe_acc(Backup)].cluster
      account == mxe_recovery_acc(Backup, Original)
      stored == IF Is(account) THEN {accounts[account].key_recovery_finalize_offset} ELSE {}
      one(ix) == Single(ix, Operator)
  IN  UNION {{one(recover_mxe_ix(Operator, p)) : p \in {Original}},
             {init_recovery_peer_acc(Operator, TheNode),
              submit_key_recovery_share(Operator, Original, Backup, TheNode),
              one(init_key_recovery_execution_part1_ix(Operator, Operator, Original, Backup)),
              one(init_key_recovery_execution_part2_ix(Operator, Original, Backup)),
              one(close_key_recovery_ix(Operator, Original, Backup))},
             {one(finalize_key_recovery_execution_ix(Operator, Operator, Original, Backup, c, o)) :
                o \in stored},
             {one(requeue_key_recovery_finalize_ix(Operator, Operator, Original, Backup, c, new, o)) :
                o \in stored, new \in Offsets},
             {one(finalize_key_recovery_callback_ix(Operator, Original, Backup, c, o, TheNode)) :
                o \in stored}}

StakingTransactions ==
  LET delegated == {s \in Stakes : /\ Is(delegated_stake_acc(s))
                                   /\ accounts[delegated_stake_acc(s)].delegation_target # <<None>>}
      \* A stake is delegated to a primary stake, whose address has its owner.
      target(s) == accounts[delegated_stake_acc(s)].delegation_target[2]
  IN  UNION {{init_arcium_token_mint(Operator)},
             {airdrop_arcium_token(Operator, w) : w \in Wallets},
             {init_primary_stake_acc(w) : w \in Wallets},
             {activate_primary_stake_acc(w) : w \in Wallets},
             {deactivate_primary_stake_acc(w, TheNode) : w \in Wallets},
             {Single(finalize_epoch_rewards_ix(Operator, w, TheNode), Operator) : w \in Wallets},
             {init_delegated_stake_master_acc(Operator, w) : w \in Wallets},
             {init_delegated_stake_acc(w, s) : w \in Wallets, s \in Stakes},
             {delegate_stake(w, s, v) : w \in Wallets, s \in Stakes, v \in Wallets},
             {undelegate_stake(Operator, s, target(s)) : s \in delegated},
             {split_delegated_stake_account(target(s), w, v, s, new) :
                w \in Wallets, v \in Wallets, s \in delegated, new \in Stakes},
             {merge_delegated_stake_account(target(s), w, v, s, other) :
                w \in Wallets, v \in Wallets, s \in delegated, other \in Stakes},
             {close_delegated_stake(w, v, s) : w \in Wallets, v \in Wallets, s \in Stakes}}

-----------------------------------------------------------------------------
(* Actions. *)

\* send_tx: the transaction takes effect, or the call panics and nothing has happened.
Send(tx) ==
  LET outcome == Outcome(accounts, tx)
  IN  outcome.refusal = "none" /\ accounts' = outcome.acc /\ UNCHANGED <<topic, discovery>>

NodeCall        == topic = "nodes" /\ \E tx \in NodeTransactions : Send(tx)
ClusterCall     == topic = "nodes" /\ \E tx \in ClusterTransactions : Send(tx)
DiscoveryCall   == topic = "discovery" /\ \E tx \in DiscoveryTransactions : Send(tx)
ProgramCall     == topic = "programs" /\ \E tx \in ProgramTransactions : Send(tx)
ComputationCall == topic = "computations" /\ \E tx \in ComputationTransactions : Send(tx)
KeyCall         == topic = "keys" /\ \E tx \in KeyTransactions : Send(tx)
RecoveryCall    == topic = "recovery" /\ \E tx \in RecoveryTransactions : Send(tx)
StakingCall     == topic = "staking" /\ \E tx \in StakingTransactions : Send(tx)

\* Sends the transactions of a claim; there is one, or the call panics.
claim_failure ==
  /\ topic = "computations"
  /\ \E txs \in FailureClaims : txs # <<>> /\ Send(Head(txs))

\* Nodes start the first computation of a slot.
NodesTakeOne ==
  /\ topic \in {"computations", "keys", "recovery"} /\ Is(mempool_acc(TheCluster))
  /\ LET m == accounts[mempool_acc(TheCluster)]
         x == accounts[execpool_acc(TheCluster)]
     IN  \E c \in ToSet(computations_highest_prio(m)), k \in {j \in DOMAIN x : x[j] = Zeroed} :
           accounts' = [accounts EXCEPT
                          ![mempool_acc(TheCluster)] = TakeOut(m, c),
                          ![execpool_acc(TheCluster)] = [x EXCEPT ![k] = c],
                          ![computation_acc(TheCluster, c.computation_offset)].stage = "executing"]
  /\ UNCHANGED <<topic, discovery>>

\* A slot of time passes; what was in the oldest slot has expired.
TimePasses ==
  /\ topic \in {"computations", "keys", "recovery"} /\ Is(mempool_acc(TheCluster))
  /\ LET m == accounts[mempool_acc(TheCluster)]
         expired == {computation_acc(TheCluster, c.computation_offset) : c \in ToSet(Expiring(m))}
     IN  accounts' = [a \in DOMAIN accounts |->
                        IF a = mempool_acc(TheCluster) THEN Advance(m)
                        ELSE IF a \in expired THEN [accounts[a] EXCEPT !.stage = "expired"]
                        ELSE accounts[a]]
  /\ UNCHANGED <<topic, discovery>>

-----------------------------------------------------------------------------
(* get_cluster_discovery_info. *)

\* The cluster that is looked up and the offset found for it are kept while its
\* programs are counted.
Idle == [pc |-> "idle", clusters |-> <<>>, infos |-> <<>>, at |-> None, offset |-> None]

Info(offset, mxe_count) == [offset |-> offset, mxe_count |-> mxe_count]

\* The nodes each cluster lists.
get_all_cluster_accounts ==
  LET listed == {c \in Clusters : Is(cluster_acc(c))}
  IN  [c \in listed |-> accounts[cluster_acc(c)].nodes]

get_mxe_count(c) ==
  Cardinality({p \in Programs : Is(mxe_acc(p)) /\ accounts[mxe_acc(p)].cluster = c})

\* Mutant: the nodes may be inactive.
FindOffsetOfAnyNode(nodes) ==
  {accounts[arx_acc(n)].cluster_membership.cluster :
     n \in {m \in nodes : accounts[arx_acc(m)].cluster_membership.state = "Active"}} \union {None}

\* The offsets that may be found for a cluster that listed these nodes; None if it
\* is unavailable, as it is when the read fails.
find_cluster_offset_via_node(nodes) ==
  LET memberships == {accounts[arx_acc(n)].cluster_membership : n \in nodes}
      found == {m.cluster : m \in {f \in memberships : f.state = "Active"}}
      healthy == nodes # {} /\ \A n \in nodes : accounts[arx_acc(n)].is_active
  IN  IF healthy THEN found \union {None} ELSE {None}

DiscoverClusters ==
  /\ topic = "discovery" /\ discovery.pc = "idle"
  /\ discovery' = [Idle EXCEPT !.pc = "look", !.clusters = get_all_cluster_accounts]
  /\ UNCHANGED <<topic, accounts>>

\* The clusters come in no order.
LookUpCluster ==
  /\ discovery.pc = "look"
  /\ \E c \in DOMAIN discovery.clusters \ DOMAIN discovery.infos :
       \E offset \in find_cluster_offset_via_node(discovery.clusters[c]) :
         discovery' = IF offset = None
                        THEN [discovery EXCEPT !.infos = Entry(c, Info(None, 0)) ++ @]
                        ELSE [discovery EXCEPT !.pc = "count", !.at = c, !.offset = offset]
  /\ UNCHANGED <<topic, accounts>>

\* Mutant: the programs of all clusters are counted.
CountAllMxes ==
  /\ discovery.pc = "count"
  /\ discovery' =
       [discovery EXCEPT !.pc = "look", !.at = None, !.offset = None,
                         !.infos = Entry(discovery.at, Info(discovery.offset,
                            Cardinality({p \in Programs : Is(mxe_acc(p))}))) ++ @]
  /\ UNCHANGED <<topic, accounts>>

CountMxes ==
  /\ discovery.pc = "count"
  /\ discovery' =
       [discovery EXCEPT !.pc = "look", !.at = None, !.offset = None,
                         !.infos = Entry(discovery.at,
                                       Info(discovery.offset, get_mxe_count(discovery.offset))) ++ @]
  /\ UNCHANGED <<topic, accounts>>

\* Mutant: the cluster that was counted is kept.
CountFailsKept ==
  /\ discovery.pc = "count"
  /\ discovery' = [discovery EXCEPT !.pc = "failed"]
  /\ UNCHANGED <<topic, accounts>>

\* The count is the one read whose failure is that of the call.
CountFails ==
  /\ discovery.pc = "count"
  /\ discovery' = [Idle EXCEPT !.pc = "failed"]
  /\ UNCHANGED <<topic, accounts>>

ReturnInfos ==
  /\ discovery.pc = "look"
  /\ DOMAIN discovery.infos = DOMAIN discovery.clusters
  /\ discovery' = [discovery EXCEPT !.pc = "returned"]
  /\ UNCHANGED <<topic, accounts>>

-----------------------------------------------------------------------------

Init ==
  /\ topic \in Topics
  /\ accounts = SetUp(topic)
  /\ discovery = Idle

Next ==
  \/ NodeCall \/ ClusterCall \/ DiscoveryCall \/ ProgramCall \/ ComputationCall \/ claim_failure
  \/ KeyCall \/ RecoveryCall \/ StakingCall
  \/ NodesTakeOne \/ TimePasses
  \/ DiscoverClusters \/ LookUpCluster \/ CountMxes \/ CountFails
  \/ ReturnInfos

Spec == Init /\ [][Next]_vars

-----------------------------------------------------------------------------
(* Properties. *)

\* The offsets a program's own computations may have.
OwnOffsets ==
  Offsets \union {KeygenOffset(p) : p \in Programs} \union {RecoveryInitOffset(p) : p \in Programs}

ContentOf(kind) ==
  CASE kind = "ArxNode" ->
         [is_active : BOOLEAN,
          cluster_membership : {Inactive} \union {Proposed(c) : c \in Clusters}
                                 \union {Active(c) : c \in Clusters}]
    [] kind = "Cluster" ->
         [nodes : SUBSET Nodes, pending_nodes : SUBSET Nodes, active : BOOLEAN]
    [] kind = "MXEAccount" ->
         [cluster : Clusters, keygen_offset : OwnOffsets, key_recovery_init_offset : OwnOffsets,
          keys_set : BOOLEAN, status : {"Active", "Recovery"}]
    [] kind = "ComputationAccount" ->
         [mxe : Programs, def : Definitions \union (1 .. 3),
          stage : {"waiting", "queued", "executing", "expired", "final"}]
    [] kind = "FailureClaimAccountHeader" -> [state : {"init", "appended", "final"}]
    [] kind = "MxeRecoveryAccount" ->
         [key_recovery_finalize_offset : Offsets \union {FinalizeOffset}, is_finalized : BOOLEAN]
    [] kind = "DelegatedStakingAccount" ->
         [delegation_target : {primary_stake_acc(w) : w \in Wallets} \union {<<None>>}]
    [] OTHER -> {Present, [complete |-> TRUE], [complete |-> FALSE]}

\* Type invariant: the chain holds accounts of the kinds the library derives, and the
\* discovery knows clusters of the chain.
TypeOK ==
  /\ topic \in Topics
  /\ \A a \in DOMAIN accounts :
       CASE a[1] = "Mempool"  -> IsPool(accounts[a])
         [] a[1] = "Execpool" -> Len(accounts[a]) = PoolSize
         [] OTHER             -> accounts[a] \in ContentOf(a[1])
  /\ discovery.pc \in {"idle", "look", "count", "returned", "failed"}
  /\ DOMAIN discovery.clusters \subseteq Clusters
  /\ DOMAIN discovery.infos \subseteq DOMAIN discovery.clusters
  /\ discovery.pc = "count" <=> discovery.at # None

Transactions ==
  CASE topic = "nodes" -> NodeTransactions \union ClusterTransactions
    [] topic = "discovery" -> DiscoveryTransactions
    [] topic = "programs" -> ProgramTransactions
    [] topic = "computations" ->
         ComputationTransactions \union UNION {ToSet(txs) : txs \in FailureClaims}
    [] topic = "keys" -> KeyTransactions
    [] topic = "recovery" -> RecoveryTransactions
    [] topic = "staking" -> StakingTransactions

\* Transactions that are signed by too few or by too many: a queued computation must
\* also be signed by the program's signer account, which has no key, and a node's
\* authority and a stake's withdrawal authority sign where nothing asks them to.
WronglySigned(tx) ==
  \E ix \in ToSet(tx.ixs) :
    \/ ix.ix = "queue_computation" /\ ix.accs.sign_seed \notin tx.keys
    \/ ix.ix = "init_arx_node" /\ ix.args.authority # ix.accs.operator_signer
    \/ /\ ix.ix \in {"split_delegated_stake_account", "merge_delegated_stake_account"}
       /\ ix.accs.withdrawal_authority # ix.accs.delegation_authority

\* Whatever the chain holds, a transaction whose caller passes what it has read there
\* names exactly the addresses that the Arcium program will derive, from the arguments and
\* from what other accounts hold, and is signed as it asks, but for WronglySigned.
\* (instruction.rs and pda.rs against idls/*.json)
CheckedAsBuilt ==
  \A tx \in Transactions :
    LET refusal == Outcome(accounts, tx).refusal
    IN  refusal # "address" /\ (refusal = "signature" => WronglySigned(tx))

\* The two parts of a program's initialization leave either all of its accounts or none,
\* also when the second part fails because another program of the cluster has taken one
\* of its offsets; and its key generation is its own. (transactions.rs, init_mxe)
MxeIsWhole ==
  \A p \in Programs :
    /\ Is(recovery_cluster_acc(p)) <=> Is(mxe_acc(p))
    /\ Is(mxe_acc(p)) =>
         LET mxe == accounts[mxe_acc(p)]
             comp(o) == computation_acc(mxe.cluster, o)
         IN  /\ Is(comp(mxe.keygen_offset))
             /\ accounts[comp(mxe.keygen_offset)].mxe = p
             /\ accounts[comp(mxe.keygen_offset)].def = MXE_KEYGEN_OFFSET
             /\ Is(comp(mxe.key_recovery_init_offset))
             /\ accounts[comp(mxe.key_recovery_init_offset)].mxe = p

\* A claim that a computation failed is on the chain with all of its data or not at all,
\* and the computation has ended with it. (transactions.rs, claim_failure)
ClaimsAreWhole ==
  \A a \in DOMAIN accounts :
    a[1] = "FailureClaimAccountHeader" =>
      /\ accounts[a].state = "final"
      /\ accounts[computation_acc(accounts[mxe_acc(a[2])].cluster, a[3])].stage = "final"

\* The references of a cluster's computations in a stage.
RefsIn(c, stage) ==
  {RefTo(a) : a \in {b \in DOMAIN accounts : /\ b[1] = "ComputationAccount" /\ b[2] = c
                                             /\ accounts[b].stage = stage}}

\* Through every wrap of the circular buffer the readers see each computation that waits
\* and each that runs exactly once and none that has expired or ended.  A reference that
\* is all zero is never seen. (state.rs, MempoolWrapper and ExecpoolWrapper)
ReadersSeeQueue ==
  \A c \in {d \in Clusters : Is(cluster_acc(d))} :
    LET waiting == computations(accounts[mempool_acc(c)])
        running == executing(accounts[execpool_acc(c)])
    IN  /\ IsInjective(waiting) /\ ToSet(waiting) = RefsIn(c, "queued") \ {Zeroed}
        /\ IsInjective(running) /\ ToSet(running) = RefsIn(c, "executing") \ {Zeroed}

\* Unless a reference that is all zero waits too, one of the computations read as those
\* of the highest priority is as dear as any that waits. (computations_highest_prio)
DearestIsRead ==
  \A c \in {d \in Clusters : Is(cluster_acc(d))} :
    Zeroed \notin RefsIn(c, "queued") =>
      \A waiting \in RefsIn(c, "queued") :
        \E first \in ToSet(computations_highest_prio(accounts[mempool_acc(c)])) :
          first.priority_fee >= waiting.priority_fee

\* What is reported of a cluster, although it is read at three times: the offset is its
\* own unless one of the nodes it listed has left for another cluster, and no program is
\* counted that the cluster with that offset does not have. (get_cluster_discovery_info)
DiscoveryIsSound ==
  \A c \in DOMAIN discovery.infos :
    LET info == discovery.infos[c]
    IN  info.offset # None =>
          /\ \/ info.offset = c
             \/ \E n \in discovery.clusters[c] :
                  accounts[arx_acc(n)].cluster_membership # Active(c)
          /\ info.mxe_count <= get_mxe_count(info.offset)

\* A cluster becomes available only at a moment at which all the nodes it listed are
\* active, although the list and the nodes are read at different times, and the answer
\* for one cluster leaves those for the others alone. (find_cluster_offset_via_node)
AvailableIsHealthy ==
  [][/\ \A c \in DOMAIN discovery.infos \intersect DOMAIN discovery'.infos :
          discovery'.infos[c] = discovery.infos[c]
     /\ discovery'.at # discovery.at /\ discovery'.at # None =>
          /\ discovery.clusters[discovery'.at] # {}
          /\ \A n \in discovery.clusters[discovery'.at] : accounts[arx_acc(n)].is_active]_vars
=============================================================================
