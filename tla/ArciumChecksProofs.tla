------------------------- MODULE ArciumChecksProofs -------------------------
(***************************************************************************)
(* More proofs about ArciumNetwork, for every network of its constants:    *)
(* every instruction keeps the types of the accounts, so they hold         *)
(* whatever is sent; and every transaction names the addresses and has the *)
(* signatures that the Arcium program checks, whatever the chain holds.    *)
(***************************************************************************)
EXTENDS ArciumNetworkProofs

-----------------------------------------------------------------------------
(* What the accounts of the chain hold. *)

\* Types.  A pool is that of a cluster; what it holds is part of QueueInv.
ContentRight(a, v) ==
  CASE a[1] = "Mempool"  -> a = mempool_acc(a[2])
    [] a[1] = "Execpool" -> a = execpool_acc(a[2])
    [] OTHER             -> v \in ContentOf(a[1])

Typed(acc) == \A a \in DOMAIN acc : ContentRight(a, acc[a])

\* What is to become of some of these addresses has its type.
AllRight(f, addresses) == \A a \in DOMAIN f : a \in addresses => ContentRight(a, f[a])

\* An instruction that the chain accepts keeps the types.
KeepsTypes(ix) == \A acc : Typed(acc) /\ Refusal(acc, ix) = "none" => Typed(Executed(acc, ix))

\* The addresses an instruction may write.
Written(acc, ix) == DOMAIN acc \cup Made(ix)

\* What is joined has its type if its parts have.
LEMMA JoinedRight ==
  ASSUME NEW f, NEW g, NEW A, AllRight(f, A), AllRight(g, A) PROVE AllRight(f ++ g, A)
BY DEF AllRight, ++

\* One account, and none.
LEMMA EntryRight ==
  ASSUME NEW A
  PROVE  /\ AllRight(<<>>, A)
         /\ \A a, v : (a \in A => ContentRight(a, v)) => AllRight(Entry(a, v), A)
BY DEF AllRight, Entry

\* It does if what it makes and what it changes has its type.
LEMMA TypesKept ==
  ASSUME NEW acc, NEW ix, Typed(acc),
         \A role \in MadeRoles(ix.ix) : ContentRight(ix.accs[role], NewContent(acc, ix, role)),
         AllRight(Changed(acc, ix), Written(acc, ix))
  PROVE  Typed(Executed(acc, ix))
<1> DEFINE next == Executed(acc, ix)
<1>e. /\ DOMAIN next = (DOMAIN acc \cup Made(ix)) \ Closed(ix)
      /\ \A a \in DOMAIN next \cap DOMAIN Changed(acc, ix) : next[a] = Changed(acc, ix)[a]
      /\ \A a \in DOMAIN next \ DOMAIN Changed(acc, ix) : a \in DOMAIN acc => next[a] = acc[a]
      /\ \A a \in DOMAIN next \ DOMAIN Changed(acc, ix) :
           a \notin DOMAIN acc =>
             \E role \in MadeRoles(ix.ix) : a = ix.accs[role] /\ next[a] = NewContent(acc, ix, role)
  BY Effects
<1> HIDE DEF next
<1>1. ASSUME NEW a \in DOMAIN next PROVE ContentRight(a, next[a])
  <2>1. a \in Written(acc, ix)
    BY <1>e DEF Written
  <2>2. CASE a \in DOMAIN Changed(acc, ix)
    BY <2>1, <2>2, <1>e DEF AllRight
  <2>3. CASE a \notin DOMAIN Changed(acc, ix) /\ a \in DOMAIN acc
    BY <2>3, <1>e DEF Typed
  <2>4. CASE a \notin DOMAIN Changed(acc, ix) /\ a \notin DOMAIN acc
    BY <2>4, <1>e
  <2> QED BY <2>2, <2>3, <2>4
<1>2. Typed(next)
  BY <1>1 DEF Typed
<1> QED BY <1>2 DEF next

\* The kinds of accounts whose contents are told apart.
ToldApart == {"ArxNode", "Cluster", "MXEAccount", "ComputationAccount", "FailureClaimAccountHeader",
               "MxeRecoveryAccount", "DelegatedStakingAccount", "Mempool", "Execpool"}

\* All others are present, and a definition may be complete.
LEMMA PlainContent ==
  ASSUME NEW a, a[1] \notin ToldApart
  PROVE  /\ ContentRight(a, Present) /\ ContentRight(a, [complete |-> TRUE])
         /\ ContentRight(a, [complete |-> FALSE])
BY DEF ContentRight, ContentOf, ToldApart

\* Instructions that write no other account,
LEMMA PlainTypes ==
  ASSUME NEW ix,
         ix.ix \in {"init", "init_operator", "init_recovery_peer_account", "init_mxe_part1",
                    "init_computation_definition", "init_raw_circuit_acc",
                    "init_key_recovery_execution_part2", "create_account",
                    "create_associated_token_account_idempotent", "init_primary_stake",
                    "init_stake_master_acc", "close_key_recovery", "reclaim_failure_rent_idempotent",
                    "merge_delegated_stake_account", "close_delegated_stake"},
         \A role \in MadeRoles(ix.ix) : ix.accs[role][1] \notin ToldApart
  PROVE  KeepsTypes(ix)
<1> SUFFICES ASSUME NEW acc, Typed(acc) PROVE Typed(Executed(acc, ix))
  BY DEF KeepsTypes
<1>1. MadeRoles(ix.ix) \subseteq
        {"fee_pool", "clock", "operator_acc", "recovery_peer_account", "recovery_cluster_acc",
         "comp_def_acc", "comp_def_raw", "key_recovery_finalize_comp_def", "mint", "ata",
         "primary_stake_account", "stake_queue", "master_stake_account"}
  BY DEF MadeRoles, CreatedRoles, OptionalRoles, ClosedRoles
<1>2. \A role \in MadeRoles(ix.ix) : NewContent(acc, ix, role) \in {Present, [complete |-> FALSE]}
  BY <1>1 DEF NewContent
<1>3. Changed(acc, ix) = <<>> ++ <<>>
  BY DEF Changed, QueuedRole, None
<1>4. AllRight(Changed(acc, ix), Written(acc, ix))
  BY <1>3, EntryRight, JoinedRight
<1> QED BY <1>2, <1>4, PlainContent, TypesKept

\* and those that write none.
LEMMA NoEffectTypes ==
  ASSUME NEW ix,
         ix.ix \in {"update_current_epoch_idempotent", "set_arx_node_config", "set_arx_node_metadata",
                    "increase_mempool_size", "set_cluster_authority", "bump_epoch_cluster",
                    "propose_fee", "vote_fee", "submit_aggregated_bls_pubkey", "claim_node_fees",
                    "set_cluster", "upload_circuit", "embiggen_raw_circuit_acc", "callback",
                    "set_mxe_keys", "set_mxe_recovery_keys_init", "extend_recovery_keyshares",
                    "finalize_key_recovery_shares_upload", "submit_key_recovery_share",
                    "initialize_mint", "mint_to", "activate_primary_stake",
                    "deactivate_primary_stake", "finalize_epoch_rewards"}
  PROVE  KeepsTypes(ix)
<1> SUFFICES ASSUME NEW acc, Typed(acc) PROVE Typed(Executed(acc, ix))
  BY DEF KeepsTypes
<1>1. MadeRoles(ix.ix) = {}
  BY DEF MadeRoles, CreatedRoles, OptionalRoles, ClosedRoles
<1>2. QueuedRole(ix.ix) = None
  BY DEF QueuedRole, None
<1>3. Changed(acc, ix) = <<>> ++ <<>>
  BY <1>2 DEF Changed
<1>4. AllRight(Changed(acc, ix), Written(acc, ix))
  BY <1>3, EntryRight, JoinedRight
<1> QED BY <1>1, <1>4, TypesKept

\* The builders of both.
LEMMA PlainInstructions ==
  ASSUME NEW s, NEW p, NEW q, NEW d, NEW n, NEW o, NEW k, NEW w, NEW v, NEW u, NEW j
  PROVE  /\ KeepsTypes(init_network_program_ix(s)) /\ KeepsTypes(init_node_operator_acc_ix(s))
         /\ KeepsTypes(init_recovery_peer_acc_ix(s, n)) /\ KeepsTypes(init_mxe_part1_ix(s, p))
         /\ KeepsTypes(init_computation_definition_ix(s, d, p, k))
         /\ KeepsTypes(init_raw_circuit_acc_ix(s, d, p, k))
         /\ KeepsTypes(init_key_recovery_execution_part2_ix(s, p, q))
         /\ KeepsTypes(close_key_recovery_ix(s, p, q))
         /\ KeepsTypes(reclaim_failure_rent_idempotent_ix(s, n, p, o))
         /\ KeepsTypes(init_arcium_token_mint_ixs(s)[1])
         /\ KeepsTypes(airdrop_arcium_token_ixs(s, w)[1])
         /\ KeepsTypes(init_primary_stake_acc_ix(s))
         /\ KeepsTypes(init_delegated_stake_master_acc_ix(s, w))
         /\ KeepsTypes(merge_delegated_stake_account_ix(u, w, v, k, j))
         /\ KeepsTypes(close_delegated_stake_ix(s, w, k))
<1> USE PlainTypes DEF MadeRoles, CreatedRoles, OptionalRoles, ClosedRoles, ToldApart, Ix
<1>1. KeepsTypes(init_network_program_ix(s))
  BY DEF init_network_program_ix, fee_pool_acc, clock_acc
<1>2. KeepsTypes(init_node_operator_acc_ix(s))
  BY DEF init_node_operator_acc_ix, operator_acc
<1>3. KeepsTypes(init_recovery_peer_acc_ix(s, n))
  BY DEF init_recovery_peer_acc_ix, recovery_peer_acc
<1>4. KeepsTypes(init_mxe_part1_ix(s, p))
  BY DEF init_mxe_part1_ix, recovery_cluster_acc
<1>5. KeepsTypes(init_computation_definition_ix(s, d, p, k))
  BY DEF init_computation_definition_ix, computation_definition_acc
<1>6. KeepsTypes(init_raw_circuit_acc_ix(s, d, p, k))
  BY DEF init_raw_circuit_acc_ix, CircuitChunk, raw_circuit_acc
<1>7. KeepsTypes(init_key_recovery_execution_part2_ix(s, p, q))
  BY DEF init_key_recovery_execution_part2_ix, Recovery, RecoveryCluster, RecoveryDef,
         computation_definition_acc, ++
<1>8. KeepsTypes(close_key_recovery_ix(s, p, q))
  BY DEF close_key_recovery_ix
<1>9. KeepsTypes(reclaim_failure_rent_idempotent_ix(s, n, p, o))
  BY DEF reclaim_failure_rent_idempotent_ix
<1>10. KeepsTypes(init_arcium_token_mint_ixs(s)[1])
  BY DEF init_arcium_token_mint_ixs, arcium_mint_keypair
<1>11. KeepsTypes(airdrop_arcium_token_ixs(s, w)[1])
  BY DEF airdrop_arcium_token_ixs, get_associated_token_address
<1>12. KeepsTypes(init_primary_stake_acc_ix(s))
  BY DEF init_primary_stake_acc_ix, primary_stake_acc, stake_queue_acc
<1>13. KeepsTypes(init_delegated_stake_master_acc_ix(s, w))
  BY DEF init_delegated_stake_master_acc_ix, stake_master_acc
<1>14. KeepsTypes(merge_delegated_stake_account_ix(u, w, v, k, j))
  BY DEF merge_delegated_stake_account_ix
<1>15. KeepsTypes(close_delegated_stake_ix(s, w, k))
  BY DEF close_delegated_stake_ix
<1> QED BY <1>1, <1>2, <1>3, <1>4, <1>5, <1>6, <1>7, <1>8, <1>9, <1>10, <1>11, <1>12, <1>13, <1>14, <1>15

\* Instructions that only make accounts.
LEMMA MakerTypes ==
  ASSUME NEW ix, NEW acc, Typed(acc),
         ix.ix \in {"init_arx_node", "init_cluster", "claim_failure_init",
                    "init_key_recovery_execution_part1", "init_delegated_stake_acc",
                    "split_delegated_stake_account"},
         \A role \in CreatedRoles(ix.ix) : ContentRight(ix.accs[role], NewContent(acc, ix, role))
  PROVE  Typed(Executed(acc, ix))
<1>1. MadeRoles(ix.ix) = CreatedRoles(ix.ix)
  BY DEF MadeRoles, CreatedRoles, OptionalRoles, ClosedRoles
<1>2. Changed(acc, ix) = <<>> ++ <<>>
  BY DEF Changed, QueuedRole, None
<1>3. AllRight(Changed(acc, ix), Written(acc, ix))
  BY <1>2, EntryRight, JoinedRight
<1> QED BY <1>1, <1>3, TypesKept

\* A new node is inactive, and a new cluster has no nodes.
LEMMA NodeAndClusterTyped ==
  ASSUME NEW s, NEW w, NEW n, NEW c
  PROVE  KeepsTypes(init_arx_node_acc_ix(s, w, n)) /\ KeepsTypes(init_cluster_ix(s, w, c))
<1>1. KeepsTypes(init_arx_node_acc_ix(s, w, n))
  <2> DEFINE ix == init_arx_node_acc_ix(s, w, n)
  <2>1. ContentRight(arx_acc(n), [is_active |-> FALSE, cluster_membership |-> Inactive])
    BY DEF ContentOf, ContentRight, arx_acc
  <2>2. ix.ix = "init_arx_node" /\ ix.accs.arx_node_acc = arx_acc(n)
    BY DEF init_arx_node_acc_ix, Ix
  <2> HIDE DEF ix
  <2>3. KeepsTypes(ix)
    <3> SUFFICES ASSUME NEW acc, Typed(acc) PROVE Typed(Executed(acc, ix))
      BY DEF KeepsTypes
    <3>1. \A role \in CreatedRoles(ix.ix) : ContentRight(ix.accs[role], NewContent(acc, ix, role))
      BY <2>1, <2>2 DEF CreatedRoles, NewContent
    <3> QED BY <2>2, <3>1, MakerTypes
  <2> QED BY <2>3 DEF ix
<1>2. KeepsTypes(init_cluster_ix(s, w, c))
  <2> DEFINE ix == init_cluster_ix(s, w, c)
  <2>1. ContentRight(cluster_acc(c), [nodes |-> {}, pending_nodes |-> {}, active |-> FALSE])
    BY DEF ContentOf, ContentRight, cluster_acc
  <2>2. ContentRight(mempool_acc(c), NewMempool) /\ ContentRight(execpool_acc(c), NewExecpool)
    BY DEF ContentRight, mempool_acc, execpool_acc
  <2>3. /\ ix.ix = "init_cluster" /\ ix.accs.cluster_acc = cluster_acc(c)
        /\ ix.accs.mempool = mempool_acc(c) /\ ix.accs.execpool = execpool_acc(c)
    BY DEF init_cluster_ix, Ix
  <2> HIDE DEF ix
  <2>4. KeepsTypes(ix)
    <3> SUFFICES ASSUME NEW acc, Typed(acc) PROVE Typed(Executed(acc, ix))
      BY DEF KeepsTypes
    <3>1. \A role \in CreatedRoles(ix.ix) : ContentRight(ix.accs[role], NewContent(acc, ix, role))
      BY <2>1, <2>2, <2>3 DEF CreatedRoles, NewContent
    <3> QED BY <2>3, <3>1, MakerTypes
  <2> QED BY <2>4 DEF ix
<1> QED BY <1>1, <1>2

\* A new claim, a new recovery and a new stake.
LEMMA ClaimRecoveryStakeTyped ==
  ASSUME NEW s, NEW p, NEW q, NEW c, NEW d, NEW o, NEW n, NEW k
  PROVE  /\ KeepsTypes(claim_failure_init_ix(s, p, c, d, o, n, k))
         /\ KeepsTypes(init_key_recovery_execution_part1_ix(s, n, p, q))
         /\ KeepsTypes(init_delegated_stake_acc_ix(s, k))
<1>1. KeepsTypes(claim_failure_init_ix(s, p, c, d, o, n, k))
  <2> DEFINE ix == claim_failure_init_ix(s, p, c, d, o, n, k)
  <2>1. ContentRight(failure_claim_acc(p, o), [state |-> "init"])
    BY DEF ContentRight, ContentOf, failure_claim_acc
  <2>2. ix.ix = "claim_failure_init" /\ ix.accs.failure_acc = failure_claim_acc(p, o)
    BY DEF claim_failure_init_ix, Ix
  <2> HIDE DEF ix
  <2>3. KeepsTypes(ix)
    <3> SUFFICES ASSUME NEW acc, Typed(acc) PROVE Typed(Executed(acc, ix))
      BY DEF KeepsTypes
    <3>1. \A role \in CreatedRoles(ix.ix) : ContentRight(ix.accs[role], NewContent(acc, ix, role))
      BY <2>1, <2>2 DEF CreatedRoles, NewContent
    <3> QED BY <2>2, <3>1, MakerTypes
  <2> QED BY <2>3 DEF ix
<1>2. KeepsTypes(init_key_recovery_execution_part1_ix(s, n, p, q))
  <2> DEFINE ix == init_key_recovery_execution_part1_ix(s, n, p, q)
  <2>1. ContentRight(mxe_recovery_acc(q, p),
                     [key_recovery_finalize_offset |-> FinalizeOffset, is_finalized |-> FALSE])
    BY DEF ContentRight, ContentOf, mxe_recovery_acc
  <2>2. /\ ix.ix = "init_key_recovery_execution_part1"
        /\ ix.accs.mxe_recovery_account = mxe_recovery_acc(q, p)
    BY DEF init_key_recovery_execution_part1_ix, Ix, Recovery, ++
  <2> HIDE DEF ix
  <2>3. KeepsTypes(ix)
    <3> SUFFICES ASSUME NEW acc, Typed(acc) PROVE Typed(Executed(acc, ix))
      BY DEF KeepsTypes
    <3>1. \A role \in CreatedRoles(ix.ix) : ContentRight(ix.accs[role], NewContent(acc, ix, role))
      BY <2>1, <2>2 DEF CreatedRoles, NewContent
    <3> QED BY <2>2, <3>1, MakerTypes
  <2> QED BY <2>3 DEF ix
<1>3. KeepsTypes(init_delegated_stake_acc_ix(s, k))
  <2> DEFINE ix == init_delegated_stake_acc_ix(s, k)
  <2>1. ContentRight(delegated_stake_acc(k), [delegation_target |-> <<None>>])
    BY DEF ContentRight, ContentOf, delegated_stake_acc
  <2>2. /\ ix.ix = "init_delegated_stake_acc"
        /\ ix.accs.user_stake_account = delegated_stake_acc(k)
    BY DEF init_delegated_stake_acc_ix, Ix
  <2> HIDE DEF ix
  <2>3. KeepsTypes(ix)
    <3> SUFFICES ASSUME NEW acc, Typed(acc) PROVE Typed(Executed(acc, ix))
      BY DEF KeepsTypes
    <3>1. \A role \in CreatedRoles(ix.ix) : ContentRight(ix.accs[role], NewContent(acc, ix, role))
      BY <2>1, <2>2 DEF CreatedRoles, NewContent
    <3> QED BY <2>2, <3>1, MakerTypes
  <2> QED BY <2>3 DEF ix
<1> QED BY <1>1, <1>2, <1>3

\* A stake that is split off is delegated to the same stake.
LEMMA SplitTyped ==
  ASSUME NEW u, NEW w, NEW v, NEW k, NEW j
  PROVE  KeepsTypes(split_delegated_stake_account_ix(u, w, v, k, j))
<1> DEFINE ix == split_delegated_stake_account_ix(u, w, v, k, j)
<1>1. /\ ix.ix = "split_delegated_stake_account"
      /\ {"old_stake_account", "new_stake_account"} \subseteq DOMAIN ix.accs
      /\ ix.accs.old_stake_account = delegated_stake_acc(k)
      /\ ix.accs.new_stake_account = delegated_stake_acc(j)
  BY DEF split_delegated_stake_account_ix, Ix, StakeAuthorities, ++
<1> HIDE DEF ix
<1>2. ASSUME NEW acc, Typed(acc), Refusal(acc, ix) = "none" PROVE Typed(Executed(acc, ix))
  <2>1. SourcesExist(acc, ix)
    BY <1>2 DEF Refusal
  <2>2. delegated_stake_acc(k) \in DOMAIN acc
    BY <2>1, <1>1 DEF SourcesExist, CreatedRoles
  <2>3. acc[delegated_stake_acc(k)] \in ContentOf("DelegatedStakingAccount")
    BY <2>2, <1>2 DEF Typed, ContentRight, delegated_stake_acc
  <2>4. ContentRight(delegated_stake_acc(j),
                     [delegation_target |-> acc[delegated_stake_acc(k)].delegation_target])
    BY <2>3 DEF ContentRight, ContentOf, delegated_stake_acc
  <2>5. \A role \in CreatedRoles(ix.ix) : ContentRight(ix.accs[role], NewContent(acc, ix, role))
    BY <2>4, <1>1 DEF CreatedRoles, NewContent
  <2> QED BY <1>1, <1>2, <2>5, MakerTypes
<1>3. KeepsTypes(ix)
  BY <1>2 DEF KeepsTypes
<1> QED BY <1>3 DEF ix

\* Two accounts.
LEMMA TwoRight ==
  ASSUME NEW A, NEW a, NEW u, NEW b, NEW v,
         a \in A => ContentRight(a, u), b \in A => ContentRight(b, v)
  PROVE  AllRight(Entry(a, u) ++ Entry(b, v), A)
<1>1. AllRight(Entry(a, u), A) /\ AllRight(Entry(b, v), A)
  BY EntryRight
<1> QED BY <1>1, JoinedRight

\* Instructions that make no account and queue nothing.
LEMMA ChangerTypes ==
  ASSUME NEW acc, NEW ix, NEW f, Typed(acc), MadeRoles(ix.ix) = {},
         Changed(acc, ix) = <<>> ++ f, AllRight(f, DOMAIN acc)
  PROVE  Typed(Executed(acc, ix))
<1>1. Written(acc, ix) = DOMAIN acc
  BY DEF Written, Made
<1>2. AllRight(Changed(acc, ix), Written(acc, ix))
  BY <1>1, EntryRight, JoinedRight
<1> QED BY <1>2, TypesKept

\* A node that is activated or deactivated.
LEMMA NodeActivityTyped ==
  ASSUME NEW s, NEW n, NEW d
  PROVE  KeepsTypes(activate_arx_ix(s, n)) /\ KeepsTypes(deactivate_arx_ix(s, n, d))
<1>1. KeepsTypes(activate_arx_ix(s, n))
  <2> DEFINE ix == activate_arx_ix(s, n)
  <2>1. ix.ix = "activate_arx" /\ ix.accs.arx_node_acc = arx_acc(n)
    BY DEF activate_arx_ix, Ix
  <2> HIDE DEF ix
  <2>2. ASSUME NEW acc, Typed(acc) PROVE Typed(Executed(acc, ix))
    <3> DEFINE f == Entry(arx_acc(n), [acc[arx_acc(n)] EXCEPT !.is_active = TRUE])
    <3>1. Changed(acc, ix) = <<>> ++ f
      BY <2>1 DEF Changed, QueuedRole, None
    <3>2. arx_acc(n) \in DOMAIN acc =>
            ContentRight(arx_acc(n), [acc[arx_acc(n)] EXCEPT !.is_active = TRUE])
      BY <2>2 DEF Typed, ContentRight, ContentOf, arx_acc
    <3>3. AllRight(f, DOMAIN acc)
      BY <3>2, EntryRight
    <3>4. MadeRoles(ix.ix) = {}
      BY <2>1 DEF MadeRoles, CreatedRoles, OptionalRoles, ClosedRoles
    <3> HIDE DEF f
    <3> QED BY <2>2, <3>1, <3>3, <3>4, ChangerTypes
  <2> QED BY <2>2 DEF KeepsTypes, ix
<1>2. KeepsTypes(deactivate_arx_ix(s, n, d))
  <2> DEFINE ix == deactivate_arx_ix(s, n, d)
             v  == [is_active |-> FALSE, cluster_membership |-> Inactive]
  <2>1. ix.ix = "deactivate_arx" /\ ix.accs.arx_node_acc = arx_acc(n)
    BY DEF deactivate_arx_ix, Ix
  <2> HIDE DEF ix
  <2>2. ASSUME NEW acc, Typed(acc) PROVE Typed(Executed(acc, ix))
    <3> DEFINE f == Entry(arx_acc(n), v)
    <3>1. Changed(acc, ix) = <<>> ++ f
      BY <2>1 DEF Changed, QueuedRole, None
    <3>2. ContentRight(arx_acc(n), v)
      BY DEF ContentRight, ContentOf, arx_acc
    <3>3. AllRight(f, DOMAIN acc)
      BY <3>2, EntryRight
    <3>4. MadeRoles(ix.ix) = {}
      BY <2>1 DEF MadeRoles, CreatedRoles, OptionalRoles, ClosedRoles
    <3> HIDE DEF f
    <3> QED BY <2>2, <3>1, <3>3, <3>4, ChangerTypes
  <2> QED BY <2>2 DEF KeepsTypes, ix
<1> QED BY <1>1, <1>2

\* A cluster that is activated or deactivated.
LEMMA ClusterActivityTyped ==
  ASSUME NEW s, NEW c
  PROVE  KeepsTypes(activate_cluster_ix(s, c)) /\ KeepsTypes(deactivate_cluster_ix(s, c))
<1>1. ASSUME NEW ix, ix.ix \in {"activate_cluster", "deactivate_cluster"},
             ix.accs.cluster_acc = cluster_acc(c)
      PROVE  KeepsTypes(ix)
  <2>1. ASSUME NEW acc, Typed(acc) PROVE Typed(Executed(acc, ix))
    <3> DEFINE v == [acc[cluster_acc(c)] EXCEPT !.active = (ix.ix = "activate_cluster")]
               f == Entry(cluster_acc(c), v)
    <3>1. Changed(acc, ix) = <<>> ++ f
      BY <1>1 DEF Changed, QueuedRole, None
    <3>2. cluster_acc(c) \in DOMAIN acc => ContentRight(cluster_acc(c), v)
      BY <2>1 DEF Typed, ContentRight, ContentOf, cluster_acc
    <3>3. AllRight(f, DOMAIN acc)
      BY <3>2, EntryRight
    <3>4. MadeRoles(ix.ix) = {}
      BY <1>1 DEF MadeRoles, CreatedRoles, OptionalRoles, ClosedRoles
    <3> HIDE DEF f
    <3> QED BY <2>1, <3>1, <3>3, <3>4, ChangerTypes
  <2> QED BY <2>1 DEF KeepsTypes
<1>2. KeepsTypes(activate_cluster_ix(s, c))
  BY <1>1 DEF activate_cluster_ix, Ix
<1>3. KeepsTypes(deactivate_cluster_ix(s, c))
  BY <1>1 DEF deactivate_cluster_ix, Ix
<1> QED BY <1>2, <1>3

\* A node that is proposed for a cluster or joins it.
LEMMA MembershipTyped ==
  ASSUME NEW s, NEW c \in Clusters, NEW n \in Nodes, NEW join
  PROVE  KeepsTypes(propose_join_cluster_ix(s, c, n)) /\ KeepsTypes(join_cluster_ix(s, c, n, join))
<1> DEFINE node == arx_acc(n)
           cluster == cluster_acc(c)
<1>a. node[1] = "ArxNode" /\ cluster[1] = "Cluster"
  BY DEF arx_acc, cluster_acc
<1>1. KeepsTypes(propose_join_cluster_ix(s, c, n))
  <2> DEFINE ix == propose_join_cluster_ix(s, c, n)
  <2>1. /\ ix.ix = "propose_join_cluster" /\ ix.accs.arx_node_acc = node
        /\ ix.accs.cluster_acc = cluster /\ ix.args.node_offset = n /\ ix.args.cluster_offset = c
    BY DEF propose_join_cluster_ix, NodeInClusterArgs, Ix
  <2> HIDE DEF ix, node, cluster
  <2>2. ASSUME NEW acc, Typed(acc) PROVE Typed(Executed(acc, ix))
    <3> DEFINE u == [acc[node] EXCEPT !.cluster_membership = Proposed(c)]
               v == [acc[cluster] EXCEPT !.pending_nodes = @ \union {n}]
               f == Entry(node, u) ++ Entry(cluster, v)
    <3>1. Changed(acc, ix) = <<>> ++ f
      BY <2>1 DEF Changed, QueuedRole, None
    <3>2. node \in DOMAIN acc => ContentRight(node, u)
      BY <1>a, <2>2 DEF Typed, ContentRight, ContentOf
    <3>3. cluster \in DOMAIN acc => ContentRight(cluster, v)
      BY <1>a, <2>2 DEF Typed, ContentRight, ContentOf
    <3>4. AllRight(f, DOMAIN acc)
      BY <3>2, <3>3, TwoRight
    <3>5. MadeRoles(ix.ix) = {}
      BY <2>1 DEF MadeRoles, CreatedRoles, OptionalRoles, ClosedRoles
    <3> HIDE DEF f
    <3> QED BY <2>2, <3>1, <3>4, <3>5, ChangerTypes
  <2> QED BY <2>2 DEF KeepsTypes, ix
<1>2. KeepsTypes(join_cluster_ix(s, c, n, join))
  <2> DEFINE ix == join_cluster_ix(s, c, n, join)
  <2>1. /\ ix.ix = "join_cluster" /\ ix.accs.arx_node_acc = node
        /\ ix.accs.cluster_acc = cluster /\ ix.args.node_offset = n /\ ix.args.cluster_offset = c
        /\ ix.args.join = join
    BY DEF join_cluster_ix, NodeInCluster, Ix
  <2> HIDE DEF ix, node, cluster
  <2>2. ASSUME NEW acc, Typed(acc) PROVE Typed(Executed(acc, ix))
    <3> DEFINE u == [acc[node] EXCEPT !.cluster_membership = IF join THEN Active(c) ELSE Inactive]
               v == [acc[cluster] EXCEPT !.pending_nodes = @ \ {n},
                                         !.nodes = IF join THEN @ \union {n} ELSE @]
               f == Entry(node, u) ++ Entry(cluster, v)
    <3>1. Changed(acc, ix) = <<>> ++ f
      BY <2>1 DEF Changed, QueuedRole, None
    <3>2. node \in DOMAIN acc => ContentRight(node, u)
      BY <1>a, <2>2 DEF Typed, ContentRight, ContentOf
    <3>3. cluster \in DOMAIN acc => ContentRight(cluster, v)
      BY <1>a, <2>2 DEF Typed, ContentRight, ContentOf
    <3>4. AllRight(f, DOMAIN acc)
      BY <3>2, <3>3, TwoRight
    <3>5. MadeRoles(ix.ix) = {}
      BY <2>1 DEF MadeRoles, CreatedRoles, OptionalRoles, ClosedRoles
    <3> HIDE DEF f
    <3> QED BY <2>2, <3>1, <3>4, <3>5, ChangerTypes
  <2> QED BY <2>2 DEF KeepsTypes, ix
<1> QED BY <1>1, <1>2

\* A definition that is complete, a claim that has its data, a program that has its keys
\* and one that recovers.
LEMMA StatusTyped ==
  ASSUME NEW s, NEW p, NEW d, NEW o, NEW k, NEW j, NEW c
  PROVE  /\ KeepsTypes(finalize_computation_definition_ix(s, d, p))
         /\ KeepsTypes(claim_failure_append_ix(s, p, o, k, j))
         /\ KeepsTypes(finalize_mxe_keys_ix(s, p, c))
         /\ KeepsTypes(recover_mxe_ix(s, p))
<1>1. KeepsTypes(finalize_computation_definition_ix(s, d, p))
  <2> DEFINE ix == finalize_computation_definition_ix(s, d, p)
             def == computation_definition_acc(p, d)
  <2>1. ix.ix = "finalize_computation_definition" /\ ix.accs.comp_def_acc = def
    BY DEF finalize_computation_definition_ix, CircuitChunk, Ix
  <2>2. ContentRight(def, [complete |-> TRUE])
    BY DEF ContentRight, ContentOf, computation_definition_acc
  <2> HIDE DEF ix, def
  <2>3. ASSUME NEW acc, Typed(acc) PROVE Typed(Executed(acc, ix))
    <3> DEFINE f == Entry(def, [complete |-> TRUE])
    <3>1. Changed(acc, ix) = <<>> ++ f
      BY <2>1 DEF Changed, QueuedRole, None
    <3>2. AllRight(f, DOMAIN acc)
      BY <2>2, EntryRight
    <3>3. MadeRoles(ix.ix) = {}
      BY <2>1 DEF MadeRoles, CreatedRoles, OptionalRoles, ClosedRoles
    <3> HIDE DEF f
    <3> QED BY <2>3, <3>1, <3>2, <3>3, ChangerTypes
  <2> QED BY <2>3 DEF KeepsTypes, ix
<1>2. KeepsTypes(claim_failure_append_ix(s, p, o, k, j))
  <2> DEFINE ix == claim_failure_append_ix(s, p, o, k, j)
             claim == failure_claim_acc(p, o)
  <2>1. ix.ix = "claim_failure_append" /\ ix.accs.failure_acc = claim
    BY DEF claim_failure_append_ix, Ix
  <2>2. ContentRight(claim, [state |-> "appended"])
    BY DEF ContentRight, ContentOf, failure_claim_acc
  <2> HIDE DEF ix, claim
  <2>3. ASSUME NEW acc, Typed(acc) PROVE Typed(Executed(acc, ix))
    <3> DEFINE f == Entry(claim, [state |-> "appended"])
    <3>1. Changed(acc, ix) = <<>> ++ f
      BY <2>1 DEF Changed, QueuedRole, None
    <3>2. AllRight(f, DOMAIN acc)
      BY <2>2, EntryRight
    <3>3. MadeRoles(ix.ix) = {}
      BY <2>1 DEF MadeRoles, CreatedRoles, OptionalRoles, ClosedRoles
    <3> HIDE DEF f
    <3> QED BY <2>3, <3>1, <3>2, <3>3, ChangerTypes
  <2> QED BY <2>3 DEF KeepsTypes, ix
<1> DEFINE mxe == mxe_acc(p)
<1>m. mxe[1] = "MXEAccount"
  BY DEF mxe_acc
<1>3. KeepsTypes(finalize_mxe_keys_ix(s, p, c))
  <2> DEFINE ix == finalize_mxe_keys_ix(s, p, c)
  <2>1. ix.ix = "finalize_mxe_keys" /\ ix.accs.mxe = mxe
    BY DEF finalize_mxe_keys_ix, Ix
  <2> HIDE DEF ix, mxe
  <2>2. ASSUME NEW acc, Typed(acc) PROVE Typed(Executed(acc, ix))
    <3> DEFINE v == [acc[mxe] EXCEPT !.keys_set = TRUE]
               f == Entry(mxe, v)
    <3>1. Changed(acc, ix) = <<>> ++ f
      BY <2>1 DEF Changed, QueuedRole, None
    <3>2. mxe \in DOMAIN acc => ContentRight(mxe, v)
      BY <1>m, <2>2 DEF Typed, ContentRight, ContentOf
    <3>3. AllRight(f, DOMAIN acc)
      BY <3>2, EntryRight
    <3>4. MadeRoles(ix.ix) = {}
      BY <2>1 DEF MadeRoles, CreatedRoles, OptionalRoles, ClosedRoles
    <3> HIDE DEF f
    <3> QED BY <2>2, <3>1, <3>3, <3>4, ChangerTypes
  <2> QED BY <2>2 DEF KeepsTypes, ix
<1>4. KeepsTypes(recover_mxe_ix(s, p))
  <2> DEFINE ix == recover_mxe_ix(s, p)
  <2>1. ix.ix = "recover_mxe" /\ ix.accs.mxe = mxe
    BY DEF recover_mxe_ix, Ix
  <2> HIDE DEF ix, mxe
  <2>2. ASSUME NEW acc, Typed(acc) PROVE Typed(Executed(acc, ix))
    <3> DEFINE v == [acc[mxe] EXCEPT !.status = "Recovery"]
               f == Entry(mxe, v)
    <3>1. Changed(acc, ix) = <<>> ++ f
      BY <2>1 DEF Changed, QueuedRole, None
    <3>2. mxe \in DOMAIN acc => ContentRight(mxe, v)
      BY <1>m, <2>2 DEF Typed, ContentRight, ContentOf
    <3>3. AllRight(f, DOMAIN acc)
      BY <3>2, EntryRight
    <3>4. MadeRoles(ix.ix) = {}
      BY <2>1 DEF MadeRoles, CreatedRoles, OptionalRoles, ClosedRoles
    <3> HIDE DEF f
    <3> QED BY <2>2, <3>1, <3>3, <3>4, ChangerTypes
  <2> QED BY <2>2 DEF KeepsTypes, ix
<1> QED BY <1>1, <1>2, <1>3, <1>4

\* A stake that is delegated to somebody's primary stake, or no more.
LEMMA DelegationTyped ==
  ASSUME NEW s, NEW k, NEW w \in Wallets, NEW v
  PROVE  KeepsTypes(delegate_stake_ix(s, k, w)) /\ KeepsTypes(undelegate_stake_ix(s, k, v))
<1> DEFINE stake == delegated_stake_acc(k)
<1>0. /\ ContentRight(stake, [delegation_target |-> primary_stake_acc(w)])
      /\ ContentRight(stake, [delegation_target |-> <<None>>])
  BY DEF ContentRight, ContentOf, delegated_stake_acc
<1>1. ASSUME NEW ix, ix.accs.user_stake_account = stake,
             \/ ix.ix = "delegate_stake" /\ ix.accs.primary = primary_stake_acc(w)
             \/ ix.ix = "undelegate_stake"
      PROVE  KeepsTypes(ix)
  <2>1. ASSUME NEW acc, Typed(acc) PROVE Typed(Executed(acc, ix))
    <3> DEFINE v_ == [delegation_target |->
                        IF ix.ix = "delegate_stake" THEN ix.accs.primary ELSE <<None>>]
               f == Entry(stake, v_)
    <3>1. Changed(acc, ix) = <<>> ++ f
      BY <1>1 DEF Changed, QueuedRole, None
    <3>2. ContentRight(stake, v_)
      BY <1>0, <1>1
    <3> HIDE DEF v_
    <3>3. AllRight(f, DOMAIN acc)
      BY <3>2, EntryRight
    <3>4. MadeRoles(ix.ix) = {}
      BY <1>1 DEF MadeRoles, CreatedRoles, OptionalRoles, ClosedRoles
    <3> HIDE DEF f
    <3> QED BY <2>1, <3>1, <3>3, <3>4, ChangerTypes
  <2> QED BY <2>1 DEF KeepsTypes
<1>2. KeepsTypes(delegate_stake_ix(s, k, w))
  BY <1>1 DEF delegate_stake_ix, Ix
<1>3. KeepsTypes(undelegate_stake_ix(s, k, v))
  BY <1>1 DEF undelegate_stake_ix, Ix
<1> QED BY <1>2, <1>3

\* A computation that comes to its end.
LEMMA EndedRight ==
  ASSUME NEW acc, Typed(acc), NEW comp, comp[1] = "ComputationAccount", NEW c
  PROVE  AllRight(Ended(acc, comp, execpool_acc(c)), DOMAIN acc)
<1> DEFINE u == [acc[comp] EXCEPT !.stage = "final"]
           v == [k \in 1 .. PoolSize |-> IF acc[execpool_acc(c)][k] = RefTo(comp) THEN Zeroed
                                         ELSE acc[execpool_acc(c)][k]]
<1>1. comp \in DOMAIN acc => ContentRight(comp, u)
  BY DEF Typed, ContentRight, ContentOf
<1>2. ContentRight(execpool_acc(c), v)
  BY DEF ContentRight, execpool_acc
<1>3. Ended(acc, comp, execpool_acc(c)) = Entry(comp, u) ++ Entry(execpool_acc(c), v)
  BY DEF Ended
<1> HIDE DEF u, v
<1> QED BY <1>1, <1>2, <1>3, TwoRight

\* The instructions that end one.
LEMMA EndingTyped ==
  ASSUME NEW s, NEW p, NEW q, NEW c, NEW d, NEW o, NEW n
  PROVE  /\ KeepsTypes(callback_computation_ix(s, p, o, d, n, c))
         /\ KeepsTypes(claim_failure_finalize_ix(s, p, c, o, n))
         /\ KeepsTypes(finalize_key_recovery_callback_ix(s, p, q, c, o, n))
<1> DEFINE comp == computation_acc(c, o)
           pool == execpool_acc(c)
<1>0. comp[1] = "ComputationAccount"
  BY DEF computation_acc
<1>1. KeepsTypes(callback_computation_ix(s, p, o, d, n, c))
  <2> DEFINE ix == callback_computation_ix(s, p, o, d, n, c)
  <2>1. ix.ix = "callback_computation" /\ ix.accs.comp = comp /\ ix.accs.executing_pool = pool
    BY DEF callback_computation_ix, Ix
  <2> HIDE DEF ix, comp
  <2>2. ASSUME NEW acc, Typed(acc) PROVE Typed(Executed(acc, ix))
    <3>1. Changed(acc, ix) = <<>> ++ Ended(acc, comp, pool)
      BY <2>1 DEF Changed, QueuedRole, None
    <3>2. AllRight(Ended(acc, comp, pool), DOMAIN acc)
      BY <1>0, <2>2, EndedRight
    <3>3. MadeRoles(ix.ix) = {}
      BY <2>1 DEF MadeRoles, CreatedRoles, OptionalRoles, ClosedRoles
    <3> QED BY <2>2, <3>1, <3>2, <3>3, ChangerTypes
  <2> QED BY <2>2 DEF KeepsTypes, ix
<1>2. KeepsTypes(finalize_key_recovery_callback_ix(s, p, q, c, o, n))
  <2> DEFINE ix == finalize_key_recovery_callback_ix(s, p, q, c, o, n)
  <2>1. /\ ix.ix = "finalize_key_recovery_callback" /\ ix.accs.computation = comp
        /\ ix.accs.executing_pool = pool
    BY DEF finalize_key_recovery_callback_ix, Recovery, Ix, ++
  <2> HIDE DEF ix, comp
  <2>2. ASSUME NEW acc, Typed(acc) PROVE Typed(Executed(acc, ix))
    <3>1. Changed(acc, ix) = <<>> ++ Ended(acc, comp, pool)
      BY <2>1 DEF Changed, QueuedRole, None
    <3>2. AllRight(Ended(acc, comp, pool), DOMAIN acc)
      BY <1>0, <2>2, EndedRight
    <3>3. MadeRoles(ix.ix) = {}
      BY <2>1 DEF MadeRoles, CreatedRoles, OptionalRoles, ClosedRoles
    <3> QED BY <2>2, <3>1, <3>2, <3>3, ChangerTypes
  <2> QED BY <2>2 DEF KeepsTypes, ix
<1>3. KeepsTypes(claim_failure_finalize_ix(s, p, c, o, n))
  <2> DEFINE ix == claim_failure_finalize_ix(s, p, c, o, n)
             claim == failure_claim_acc(p, o)
  <2>1. /\ ix.ix = "claim_failure_finalize" /\ ix.accs.comp = comp
        /\ ix.accs.executing_pool = pool /\ ix.accs.failure_acc = claim
    BY DEF claim_failure_finalize_ix, Ix
  <2>2. ContentRight(claim, [state |-> "final"])
    BY DEF ContentRight, ContentOf, failure_claim_acc
  <2> HIDE DEF ix, comp, claim
  <2>3. ASSUME NEW acc, Typed(acc) PROVE Typed(Executed(acc, ix))
    <3> DEFINE f == Entry(claim, [state |-> "final"])
               g == Ended(acc, comp, pool)
    <3>1. Changed(acc, ix) = <<>> ++ (f ++ g)
      BY <2>1 DEF Changed, QueuedRole, None
    <3>2. AllRight(f, DOMAIN acc) /\ AllRight(g, DOMAIN acc)
      BY <1>0, <2>2, <2>3, EndedRight, EntryRight
    <3>3. MadeRoles(ix.ix) = {}
      BY <2>1 DEF MadeRoles, CreatedRoles, OptionalRoles, ClosedRoles
    <3> HIDE DEF f, g
    <3>4. AllRight(f ++ g, DOMAIN acc)
      BY <3>2, JoinedRight
    <3> QED BY <2>3, <3>1, <3>3, <3>4, ChangerTypes
  <2> QED BY <2>3 DEF KeepsTypes, ix
<1> QED BY <1>1, <1>2, <1>3

\* Instructions that put a computation in the pool of a cluster.
LEMMA QueuerTypes ==
  ASSUME NEW acc, NEW ix, NEW c, NEW pool, NEW g, Typed(acc),
         Changed(acc, ix) = Entry(mempool_acc(c), pool) ++ g,
         \A role \in MadeRoles(ix.ix) : ContentRight(ix.accs[role], NewContent(acc, ix, role)),
         AllRight(g, Written(acc, ix))
  PROVE  Typed(Executed(acc, ix))
<1>1. ContentRight(mempool_acc(c), pool)
  BY DEF ContentRight, mempool_acc
<1>2. AllRight(Entry(mempool_acc(c), pool), Written(acc, ix))
  BY <1>1, EntryRight
<1>3. AllRight(Changed(acc, ix), Written(acc, ix))
  BY <1>2, JoinedRight
<1> QED BY <1>3, TypesKept

\* A new computation.
LEMMA ComputationTyped ==
  ASSUME NEW c, NEW o, NEW p \in Programs, NEW d \in Definitions \union (1 .. 3),
         NEW stage \in {"waiting", "queued"}
  PROVE  ContentRight(computation_acc(c, o), Computation(p, d, stage))
BY DEF ContentRight, ContentOf, computation_acc, Computation

\* A computation is queued by a caller,
LEMMA QueueTyped ==
  ASSUME NEW s, NEW p \in Programs, NEW o, NEW d \in Definitions, NEW data
  PROVE  KeepsTypes(queue_computation_ix(s, p, o, d, data))
<1> DEFINE ix == queue_computation_ix(s, p, o, d, data)
           c == data.cluster
           comp == computation_acc(c, o)
<1>1. /\ ix.ix = "queue_computation" /\ ix.accs.comp = comp /\ ix.accs.mempool = mempool_acc(c)
      /\ ix.args.comp_def_offset = d /\ "mxe_program" \in DOMAIN ix.args /\ ix.args.mxe_program = p
  BY DEF queue_computation_ix, Ix
<1>2. ContentRight(comp, Computation(p, d, "queued"))
  BY ComputationTyped
<1> HIDE DEF ix, comp, c
<1>3. Program(ix) = p
  BY <1>1 DEF Program
<1>4. MadeRoles(ix.ix) = {"comp"}
  BY <1>1 DEF MadeRoles, CreatedRoles, OptionalRoles, ClosedRoles
<1>5. ASSUME NEW acc, Typed(acc) PROVE Typed(Executed(acc, ix))
  <2> DEFINE pool == Push(acc[mempool_acc(c)], RefTo(comp))
  <2>1. Changed(acc, ix) = Entry(mempool_acc(c), pool) ++ <<>>
    BY <1>1 DEF Changed, QueuedRole, None
  <2>2. \A role \in MadeRoles(ix.ix) : ContentRight(ix.accs[role], NewContent(acc, ix, role))
    BY <1>1, <1>2, <1>3, <1>4 DEF NewContent
  <2>3. AllRight(<<>>, Written(acc, ix))
    BY EntryRight
  <2> HIDE DEF pool
  <2> QED BY <1>5, <2>1, <2>2, <2>3, QueuerTypes
<1> QED BY <1>5 DEF KeepsTypes, ix

\* with a program that is new,
LEMMA SecondPartTyped ==
  ASSUME NEW s, NEW p \in Programs, NEW c \in Clusters, NEW k \in OwnOffsets, NEW r \in OwnOffsets,
         NEW slot
  PROVE  KeepsTypes(init_mxe_part2_ix(s, p, c, k, r, slot))
<1> DEFINE ix == init_mxe_part2_ix(s, p, c, k, r, slot)
           keygen == computation_acc(c, k)
           recovery == computation_acc(c, r)
           mxe == mxe_acc(p)
           lut == mxe_lut_acc(p, slot)
           def == computation_definition_acc(p, 1)
           new == [cluster |-> c, keygen_offset |-> k, key_recovery_init_offset |-> r,
                   keys_set |-> FALSE, status |-> "Active"]
<1>1. /\ ix.ix = "init_mxe_part2" /\ ix.accs.mempool = mempool_acc(c) /\ ix.accs.mxe = mxe
      /\ ix.accs.mxe_keygen_computation = keygen
      /\ ix.accs.key_recovery_init_computation = recovery
      /\ ix.accs.address_lookup_table = lut /\ ix.accs.mxe_keygen_computation_definition = def
  BY DEF init_mxe_part2_ix, Ix, MXE_KEYGEN_OFFSET
<1>2. /\ ix.args.cluster_offset = c /\ ix.args.keygen_offset = k
      /\ ix.args.key_recovery_init_offset = r
      /\ "mxe_program" \in DOMAIN ix.args /\ ix.args.mxe_program = p
  BY DEF init_mxe_part2_ix, Ix
<1>3. /\ ContentRight(keygen, Computation(p, 1, "queued"))
      /\ ContentRight(recovery, Computation(p, 2, "waiting"))
  BY ComputationTyped
<1>4. ContentRight(mxe, new)
  BY DEF ContentRight, ContentOf, mxe_acc
<1>5. ContentRight(lut, Present) /\ ContentRight(def, Present)
  BY DEF ContentRight, ContentOf, mxe_lut_acc, computation_definition_acc
<1> HIDE DEF ix, keygen, recovery, mxe, lut, def
<1>6. Program(ix) = p
  BY <1>2 DEF Program
<1>7. MadeRoles(ix.ix) = {"mxe", "address_lookup_table", "mxe_keygen_computation_definition",
                          "mxe_keygen_computation", "key_recovery_init_computation"}
  BY <1>1 DEF MadeRoles, CreatedRoles, OptionalRoles, ClosedRoles
<1>8. ASSUME NEW acc, Typed(acc) PROVE Typed(Executed(acc, ix))
  <2> DEFINE pool == Push(acc[mempool_acc(c)], RefTo(keygen))
  <2>1. Changed(acc, ix) = Entry(mempool_acc(c), pool) ++ <<>>
    BY <1>1 DEF Changed, QueuedRole, None
  <2>2. /\ NewContent(acc, ix, "mxe") = new
        /\ NewContent(acc, ix, "address_lookup_table") = Present
        /\ NewContent(acc, ix, "mxe_keygen_computation_definition") = Present
        /\ NewContent(acc, ix, "mxe_keygen_computation") = Computation(p, 1, "queued")
        /\ NewContent(acc, ix, "key_recovery_init_computation") = Computation(p, 2, "waiting")
    BY <1>2, <1>6 DEF NewContent
  <2> HIDE DEF new
  <2>3. \A role \in MadeRoles(ix.ix) : ContentRight(ix.accs[role], NewContent(acc, ix, role))
    BY <1>1, <1>3, <1>4, <1>5, <1>7, <2>2 DEF new
  <2>4. AllRight(<<>>, Written(acc, ix))
    BY EntryRight
  <2> HIDE DEF pool
  <2> QED BY <1>8, <2>1, <2>3, <2>4, QueuerTypes
<1> QED BY <1>8 DEF KeepsTypes, ix

\* when a program's own computation is queued,
LEMMA OwnTyped ==
  ASSUME NEW s, NEW p, NEW c, NEW o
  PROVE  /\ KeepsTypes(requeue_mxe_keygen_ix(s, p, c, o))
         /\ KeepsTypes(queue_key_recovery_init_ix(s, p, c, o))
<1> DEFINE comp == computation_acc(c, o)
           def == computation_definition_acc(p, 2)
<1>0. comp[1] = "ComputationAccount" /\ def[1] = "ComputationDefinitionAccount"
  BY DEF computation_acc, computation_definition_acc
<1>d. ContentRight(def, Present)
  BY DEF ContentRight, ContentOf, computation_definition_acc
<1> HIDE DEF def, comp
<1>1. ASSUME NEW ix, ix.accs.mempool = mempool_acc(c),
             \/ ix.ix = "requeue_mxe_keygen" /\ ix.accs.mxe_keygen_computation = comp
             \/ /\ ix.ix = "queue_key_recovery_init" /\ ix.accs.key_recovery_init_computation = comp
                /\ ix.accs.key_recovery_init_computation_definition = def
      PROVE  KeepsTypes(ix)
  <2>1. ASSUME NEW acc, Typed(acc) PROVE Typed(Executed(acc, ix))
    <3> DEFINE pool == Push(acc[mempool_acc(c)], RefTo(comp))
               v == [acc[comp] EXCEPT !.stage = "queued"]
               g == Entry(comp, v)
    <3>1. Changed(acc, ix) = Entry(mempool_acc(c), pool) ++ g
      BY <1>1 DEF Changed, QueuedRole, None
    <3>2. MadeRoles(ix.ix) \subseteq {"key_recovery_init_computation_definition"}
      BY <1>1 DEF MadeRoles, CreatedRoles, OptionalRoles, ClosedRoles
    <3>3. \A role \in MadeRoles(ix.ix) : ix.accs[role] = def
      BY <1>1 DEF MadeRoles, CreatedRoles, OptionalRoles, ClosedRoles
    <3>4. \A role \in MadeRoles(ix.ix) : ContentRight(ix.accs[role], NewContent(acc, ix, role))
      BY <1>d, <3>2, <3>3 DEF NewContent
    <3>5. comp \in Written(acc, ix) => comp \in DOMAIN acc
      BY <1>0, <3>3 DEF Written, Made
    <3>6. comp \in DOMAIN acc => ContentRight(comp, v)
      BY <1>0, <2>1 DEF Typed, ContentRight, ContentOf
    <3>7. AllRight(g, Written(acc, ix))
      BY <3>5, <3>6, EntryRight
    <3> HIDE DEF pool, g
    <3> QED BY <2>1, <3>1, <3>4, <3>7, QueuerTypes
  <2> QED BY <2>1 DEF KeepsTypes
<1>2. KeepsTypes(requeue_mxe_keygen_ix(s, p, c, o))
  BY <1>1 DEF requeue_mxe_keygen_ix, Ix, comp
<1>3. KeepsTypes(queue_key_recovery_init_ix(s, p, c, o))
  BY <1>1 DEF queue_key_recovery_init_ix, Ix, comp, def, MXE_KEY_RECOVERY_INIT_OFFSET
<1> QED BY <1>2, <1>3

\* and when one is queued for a recovery, which knows it.
LEMMA RecoveryQueueTyped ==
  ASSUME NEW s, NEW p, NEW q \in Programs, NEW c, NEW k, NEW o
  PROVE  /\ KeepsTypes(finalize_key_recovery_execution_ix(s, s, p, q, c, o))
         /\ k \in Offsets => KeepsTypes(requeue_key_recovery_finalize_ix(s, s, p, q, c, k, o))
<1> DEFINE recovery == mxe_recovery_acc(q, p)
<1>0. recovery[1] = "MxeRecoveryAccount" /\ \A j : computation_acc(c, j)[1] = "ComputationAccount"
  BY DEF mxe_recovery_acc, computation_acc
<1>d. \A j : ContentRight(computation_acc(c, j), Computation(q, 3, "queued"))
  BY ComputationTyped
<1>1. KeepsTypes(finalize_key_recovery_execution_ix(s, s, p, q, c, o))
  <2> DEFINE ix == finalize_key_recovery_execution_ix(s, s, p, q, c, o)
             comp == computation_acc(c, o)
  <2>1. /\ ix.ix = "finalize_key_recovery_execution" /\ ix.accs.mempool = mempool_acc(c)
        /\ ix.accs.key_recovery_finalize_computation = comp
        /\ ix.accs.mxe_recovery_account = recovery /\ ix.accs.backup_mxe_program = q
    BY DEF finalize_key_recovery_execution_ix, Recovery, RecoveryCluster, Ix, ++
  <2>c. comp[1] = "ComputationAccount" /\ ContentRight(comp, Computation(q, 3, "queued"))
    BY <1>0, <1>d
  <2> HIDE DEF ix, comp, recovery
  <2>2. MadeRoles(ix.ix) = {"key_recovery_finalize_computation"}
    BY <2>1 DEF MadeRoles, CreatedRoles, OptionalRoles, ClosedRoles
  <2>3. ASSUME NEW acc, Typed(acc) PROVE Typed(Executed(acc, ix))
    <3> DEFINE pool == Push(acc[mempool_acc(c)], RefTo(comp))
               v == [acc[recovery] EXCEPT !.is_finalized = TRUE]
               g == Entry(recovery, v)
    <3>1. Changed(acc, ix) = Entry(mempool_acc(c), pool) ++ g
      BY <2>1 DEF Changed, QueuedRole, None
    <3>2. \A role \in MadeRoles(ix.ix) : ContentRight(ix.accs[role], NewContent(acc, ix, role))
      BY <2>1, <2>2, <2>c DEF NewContent
    <3>3. recovery \in Written(acc, ix) => recovery \in DOMAIN acc
      BY <1>0, <2>1, <2>2, <2>c DEF Written, Made
    <3>4. recovery \in DOMAIN acc => ContentRight(recovery, v)
      BY <1>0, <2>3 DEF Typed, ContentRight, ContentOf
    <3>5. AllRight(g, Written(acc, ix))
      BY <3>3, <3>4, EntryRight
    <3> HIDE DEF pool, g
    <3> QED BY <2>3, <3>1, <3>2, <3>5, QueuerTypes
  <2> QED BY <2>3 DEF KeepsTypes, ix
<1>2. ASSUME k \in Offsets
      PROVE  KeepsTypes(requeue_key_recovery_finalize_ix(s, s, p, q, c, k, o))
  <2> DEFINE ix == requeue_key_recovery_finalize_ix(s, s, p, q, c, k, o)
             comp == computation_acc(c, k)
  <2>1. /\ ix.ix = "requeue_key_recovery_finalize" /\ ix.accs.mempool = mempool_acc(c)
        /\ ix.accs.new_computation = comp /\ ix.args.new_key_recovery_finalize_offset = k
        /\ ix.accs.mxe_recovery_account = recovery /\ ix.accs.backup_mxe_program = q
    BY DEF requeue_key_recovery_finalize_ix, Recovery, RecoveryArgs, Ix, ++
  <2>c. comp[1] = "ComputationAccount" /\ ContentRight(comp, Computation(q, 3, "queued"))
    BY <1>0, <1>d
  <2> HIDE DEF ix, comp, recovery
  <2>2. MadeRoles(ix.ix) = {"new_computation"}
    BY <2>1 DEF MadeRoles, CreatedRoles, OptionalRoles, ClosedRoles
  <2>3. ASSUME NEW acc, Typed(acc) PROVE Typed(Executed(acc, ix))
    <3> DEFINE pool == Push(acc[mempool_acc(c)], RefTo(comp))
               v == [acc[recovery] EXCEPT !.key_recovery_finalize_offset = k]
               g == Entry(recovery, v)
    <3>1. Changed(acc, ix) = Entry(mempool_acc(c), pool) ++ g
      BY <2>1 DEF Changed, QueuedRole, None
    <3>2. \A role \in MadeRoles(ix.ix) : ContentRight(ix.accs[role], NewContent(acc, ix, role))
      BY <2>1, <2>2, <2>c DEF NewContent
    <3>3. recovery \in Written(acc, ix) => recovery \in DOMAIN acc
      BY <1>0, <2>1, <2>2, <2>c DEF Written, Made
    <3>4. recovery \in DOMAIN acc => ContentRight(recovery, v)
      BY <1>0, <1>2, <2>3 DEF Typed, ContentRight, ContentOf
    <3>5. AllRight(g, Written(acc, ix))
      BY <3>3, <3>4, EntryRight
    <3> HIDE DEF pool, g
    <3> QED BY <2>3, <3>1, <3>2, <3>5, QueuerTypes
  <2> QED BY <2>3 DEF KeepsTypes, ix
<1> QED BY <1>1, <1>2

-----------------------------------------------------------------------------
(* Transactions and the set up keep the types. *)

\* Whatever becomes of a transaction, the chain has its types.
TypedTx(tx) == \A acc : Typed(acc) => Typed(Outcome(acc, tx).acc)

\* A transaction of instructions that keep the types keeps them, whichever is refused.
LEMMA AllTyped ==
  ASSUME NEW ixs, NEW keys, Len(ixs) \in Nat, \A n \in 1 .. Len(ixs) : KeepsTypes(ixs[n])
  PROVE  TypedTx(Tx(ixs, keys))
<1> DEFINE tx == Tx(ixs, keys)
           N == Len(ixs)
<1> SUFFICES ASSUME NEW acc, Typed(acc) PROVE Typed(Outcome(acc, tx).acc)
  BY DEF TypedTx
<1>1. tx.ixs = ixs
  BY DEF Tx
<1> HIDE DEF tx
<1>r. Len(tx.ixs) = N /\ N \in Nat
  BY <1>1
<1> HIDE DEF N
<1>c. \E f : RunsTo(acc, tx, Len(tx.ixs), f)
  BY <1>r, OutcomeRuns
<1>2. PICK f : /\ f[0] = Start(acc)
               /\ \A n \in 1 .. N : f[n] = RunStep(acc, tx, n, f[n - 1])
               /\ Outcome(acc, tx) = IF SignedRight(tx) THEN f[N]
                                     ELSE [refusal |-> "signature", acc |-> acc]
  BY <1>r, <1>c DEF RunsTo
<1> USE DEF N
<1> DEFINE T == {n \in Nat : n <= N => Typed(f[n].acc)}
<1>3. 0 \in T
  BY <1>2 DEF Start
<1>4. ASSUME NEW n \in T PROVE n + 1 \in T
  <2> SUFFICES ASSUME n + 1 <= N PROVE Typed(f[n + 1].acc)
    OBVIOUS
  <2>1. n + 1 \in 1 .. N /\ (n + 1) - 1 = n /\ Typed(f[n].acc)
    OBVIOUS
  <2> DEFINE r == f[n]
             ix == ixs[n + 1]
  <2>2. f[n + 1] = RunStep(acc, tx, n + 1, r) /\ KeepsTypes(ix)
    BY <2>1, <1>2
  <2>3. tx.ixs[n + 1] = ix
    BY <1>1
  <2>4. Typed(r.acc)
    BY <2>1
  <2> HIDE DEF r, ix
  <2>5. CASE r.refusal # "none"
    BY <2>2, <2>4, <2>5 DEF RunStep
  <2>6. CASE r.refusal = "none" /\ Refusal(r.acc, ix) # "none"
    BY <2>2, <2>3, <2>6 DEF RunStep
  <2>7. CASE r.refusal = "none" /\ Refusal(r.acc, ix) = "none"
    <3>1. f[n + 1].acc = Executed(r.acc, ix)
      BY <2>2, <2>3, <2>7 DEF RunStep
    <3> QED BY <3>1, <2>2, <2>4, <2>7 DEF KeepsTypes
  <2> QED BY <2>5, <2>6, <2>7
<1>5. T = Nat
  <2> HIDE DEF T
  <2>1. T \in SUBSET Nat
    BY DEF T
  <2> QED BY <2>1, <1>3, <1>4, Ind
<1>6. Typed(f[N].acc)
  BY <1>5
<1> QED BY <1>2, <1>6

\* Transactions of one instruction,
LEMMA OneTyped == ASSUME NEW ix, NEW keys, KeepsTypes(ix) PROVE TypedTx(Tx(<<ix>>, keys))
BY AllTyped

\* of two,
LEMMA PairTyped ==
  ASSUME NEW ix, NEW jx, NEW keys, KeepsTypes(ix), KeepsTypes(jx)
  PROVE  TypedTx(Tx(<<ix, jx>>, keys))
<1>1. Len(<<ix, jx>>) = 2 /\ \A n \in 1 .. 2 : KeepsTypes(<<ix, jx>>[n])
  OBVIOUS
<1> QED BY <1>1, AllTyped

\* and of one, signed by one wallet.
LEMMA SingleTyped == ASSUME NEW ix, NEW w, KeepsTypes(ix) PROVE TypedTx(Single(ix, w))
BY OneTyped DEF Single

\* Transactions one after the other keep the types.
LEMMA AfterTyped ==
  ASSUME NEW acc, Typed(acc), NEW txs, Len(txs) \in Nat, \A n \in 1 .. Len(txs) : TypedTx(txs[n])
  PROVE  Typed(After(acc, txs))
<1> DEFINE N == Len(txs)
           f == CHOOSE g : IsChain(g, acc, txs, N)
<1>1. IsChain(f, acc, txs, N)
  BY ChainExists
<1>2. After(acc, txs) = f[N]
  BY DEF After, IsChain
<1> HIDE DEF f
<1>3. f[0] = acc /\ \A n \in 1 .. N : f[n] = Outcome(f[n - 1], txs[n]).acc
  BY <1>1 DEF IsChain
<1> DEFINE T == {n \in Nat : n <= N => Typed(f[n])}
<1>4. 0 \in T
  BY <1>3
<1>5. ASSUME NEW n \in T PROVE n + 1 \in T
  <2> SUFFICES ASSUME n + 1 <= N PROVE Typed(f[n + 1])
    OBVIOUS
  <2>1. n + 1 \in 1 .. N /\ (n + 1) - 1 = n /\ Typed(f[n])
    OBVIOUS
  <2> QED BY <2>1, <1>3 DEF TypedTx
<1>6. T = Nat
  <2> HIDE DEF T
  <2>1. T \in SUBSET Nat
    BY DEF T
  <2> QED BY <2>1, <1>4, <1>5, Ind
<1>7. Typed(f[N])
  BY <1>6
<1> QED BY <1>2, <1>7

\* What the topics set up is there.
LEMMA ThingsSetUp ==
  /\ TheNode \in Nodes /\ TheCluster \in Clusters /\ AnyDef \in Definitions
  /\ Original \in Programs /\ Backup \in Programs
  /\ \A p \in Programs : KeygenOffset(p) \in OwnOffsets /\ RecoveryInitOffset(p) \in OwnOffsets
  /\ Offsets \subseteq OwnOffsets
<1>1. TheNode \in Nodes
  BY InstanceAssumption DEF TheNode
<1>2. TheCluster \in Clusters
  BY InstanceAssumption DEF TheCluster
<1>3. AnyDef \in Definitions
  BY InstanceAssumption DEF AnyDef
<1>4. Original \in Programs
  BY InstanceAssumption DEF Original
<1>5. \E p \in Programs : p # Original
  BY InstanceAssumption
<1>6. Backup \in Programs
  BY <1>5 DEF Backup
<1>7. Offsets \subseteq OwnOffsets
  BY DEF OwnOffsets
<1>8. \A p \in Programs : KeygenOffset(p) \in OwnOffsets /\ RecoveryInitOffset(p) \in OwnOffsets
  BY DEF OwnOffsets
<1> QED BY <1>1, <1>2, <1>3, <1>4, <1>6, <1>7, <1>8

\* What is sent about nodes and clusters.
LEMMA NodesAndClustersTyped ==
  ASSUME NEW s, NEW w, NEW n \in Nodes, NEW c \in Clusters, NEW d, NEW join
  PROVE  /\ TypedTx(init_network_program(s)) /\ TypedTx(init_node_operator_acc(s))
         /\ TypedTx(init_cluster(s, w, c)) /\ TypedTx(init_arx_node_acc(s, w, n))
         /\ TypedTx(Single(activate_arx_ix(s, n), s)) /\ TypedTx(Single(deactivate_arx_ix(s, n, d), s))
         /\ TypedTx(propose_join_cluster(s, c, n)) /\ TypedTx(join_cluster(s, c, n, join))
         /\ TypedTx(activate_cluster(s, c)) /\ TypedTx(Single(deactivate_cluster_ix(s, c), s))
         /\ TypedTx(set_arx_node_metadata(s, n)) /\ TypedTx(Single(set_arx_node_config_ix(s, n), s))
         /\ TypedTx(submit_aggregated_bls_pubkey(s, c, n)) /\ TypedTx(propose_fee(s, c, n))
         /\ TypedTx(vote_fee(s, c, n)) /\ TypedTx(claim_node_fees(s, c, n, w))
         /\ TypedTx(increase_mempool_size(s, c))
         /\ TypedTx(Single(set_cluster_authority_ix(s, c), s))
         /\ TypedTx(Tx(<<bump_epoch_cluster_ix(c), update_current_epoch_idempotent_ix>>, {}))
<1>1. /\ KeepsTypes(set_arx_node_metadata_ix(s, n)) /\ KeepsTypes(set_arx_node_config_ix(s, n))
      /\ KeepsTypes(submit_aggregated_bls_pubkey_ix(s, c, n)) /\ KeepsTypes(propose_fee_ix(s, c, n))
      /\ KeepsTypes(vote_fee_ix(s, c, n)) /\ KeepsTypes(claim_node_fees_ix(s, c, n, w))
      /\ KeepsTypes(increase_mempool_size_ix(s, c)) /\ KeepsTypes(set_cluster_authority_ix(s, c))
      /\ KeepsTypes(bump_epoch_cluster_ix(c)) /\ KeepsTypes(update_current_epoch_idempotent_ix)
  BY NoEffectTypes DEF set_arx_node_metadata_ix, set_arx_node_config_ix,
                       submit_aggregated_bls_pubkey_ix, propose_fee_ix, vote_fee_ix,
                       claim_node_fees_ix, increase_mempool_size_ix, set_cluster_authority_ix,
                       bump_epoch_cluster_ix, update_current_epoch_idempotent_ix, Ix
<1>2. TypedTx(init_network_program(s)) /\ TypedTx(init_node_operator_acc(s))
  BY PlainInstructions, SingleTyped DEF init_network_program, init_node_operator_acc
<1>3. TypedTx(init_cluster(s, w, c)) /\ TypedTx(init_arx_node_acc(s, w, n))
  BY NodeAndClusterTyped, SingleTyped, OneTyped DEF init_cluster, init_arx_node_acc
<1>4. /\ TypedTx(Single(activate_arx_ix(s, n), s)) /\ TypedTx(Single(deactivate_arx_ix(s, n, d), s))
      /\ TypedTx(activate_cluster(s, c)) /\ TypedTx(Single(deactivate_cluster_ix(s, c), s))
  BY NodeActivityTyped, ClusterActivityTyped, SingleTyped DEF activate_cluster
<1>5. TypedTx(propose_join_cluster(s, c, n)) /\ TypedTx(join_cluster(s, c, n, join))
  BY MembershipTyped, SingleTyped DEF propose_join_cluster, join_cluster
<1>6. /\ TypedTx(set_arx_node_metadata(s, n)) /\ TypedTx(Single(set_arx_node_config_ix(s, n), s))
      /\ TypedTx(Single(set_cluster_authority_ix(s, c), s))
  BY <1>1, SingleTyped DEF set_arx_node_metadata
<1>7. /\ TypedTx(submit_aggregated_bls_pubkey(s, c, n)) /\ TypedTx(propose_fee(s, c, n))
      /\ TypedTx(vote_fee(s, c, n))
  BY <1>1, SingleTyped DEF submit_aggregated_bls_pubkey, propose_fee, vote_fee
<1>8. TypedTx(claim_node_fees(s, c, n, w)) /\ TypedTx(increase_mempool_size(s, c))
  BY <1>1, SingleTyped DEF claim_node_fees, increase_mempool_size
<1>9. TypedTx(Tx(<<bump_epoch_cluster_ix(c), update_current_epoch_idempotent_ix>>, {}))
  BY <1>1, PairTyped
<1> QED BY <1>2, <1>3, <1>4, <1>5, <1>6, <1>7, <1>8, <1>9

\* What is sent about programs.
LEMMA ProgramsTyped ==
  ASSUME NEW s, NEW p \in Programs, NEW c \in Clusters, NEW k \in OwnOffsets, NEW r \in OwnOffsets,
         NEW d, NEW n, NEW j, NEW slot
  PROVE  /\ TypedTx(init_mxe(s, p, k, r, c, slot)) /\ TypedTx(finalize_mxe_keys(s, p, c))
         /\ TypedTx(set_cluster(s, p, c)) /\ TypedTx(init_recovery_peer_acc(s, n))
         /\ TypedTx(init_computation_definition(s, d, p, slot))
         /\ TypedTx(Single(init_raw_circuit_acc_ix(s, d, p, j), s))
         /\ TypedTx(Single(embiggen_raw_circuit_acc_ix(s, d, p, j), s))
         /\ TypedTx(Single(upload_circuit_ix(s, p, d, j), s))
         /\ TypedTx(Single(finalize_computation_definition_ix(s, d, p), s))
<1>1. /\ KeepsTypes(set_cluster_ix(s, p, c)) /\ KeepsTypes(embiggen_raw_circuit_acc_ix(s, d, p, j))
      /\ KeepsTypes(upload_circuit_ix(s, p, d, j))
  BY NoEffectTypes DEF set_cluster_ix, embiggen_raw_circuit_acc_ix, upload_circuit_ix, Ix
<1>2. TypedTx(init_mxe(s, p, k, r, c, slot))
  <2>1. KeepsTypes(init_mxe_part1_ix(s, p))
    BY PlainInstructions
  <2>2. KeepsTypes(init_mxe_part2_ix(s, p, c, k, r, slot))
    BY SecondPartTyped
  <2> QED BY <2>1, <2>2, PairTyped DEF init_mxe
<1>3. /\ TypedTx(finalize_mxe_keys(s, p, c))
      /\ TypedTx(Single(finalize_computation_definition_ix(s, d, p), s))
  BY StatusTyped, SingleTyped DEF finalize_mxe_keys
<1>4. /\ TypedTx(init_recovery_peer_acc(s, n))
      /\ TypedTx(Single(init_raw_circuit_acc_ix(s, d, p, j), s))
  BY PlainInstructions, SingleTyped DEF init_recovery_peer_acc
<1>5. TypedTx(init_computation_definition(s, d, p, slot))
  BY PlainInstructions, SingleTyped DEF init_computation_definition
<1>6. /\ TypedTx(set_cluster(s, p, c)) /\ TypedTx(Single(embiggen_raw_circuit_acc_ix(s, d, p, j), s))
      /\ TypedTx(Single(upload_circuit_ix(s, p, d, j), s))
  BY <1>1, SingleTyped DEF set_cluster
<1> QED BY <1>2, <1>3, <1>4, <1>5, <1>6

\* A chain with nothing on it.
LEMMA EmptyTyped == Typed(<<>>)
BY DEF Typed

\* The network without clusters.
LEMMA NetworkTyped == Typed(Network)
<1> DEFINE txs == <<init_network_program(Operator), init_node_operator_acc(Operator)>>
<1>1. Len(txs) = 2 /\ \A n \in 1 .. 2 : TypedTx(txs[n])
  <2>1. TypedTx(init_network_program(Operator)) /\ TypedTx(init_node_operator_acc(Operator))
    BY NodesAndClustersTyped, ThingsSetUp
  <2> QED BY <2>1
<1> HIDE DEF txs
<1>2. Typed(After(<<>>, txs))
  BY <1>1, EmptyTyped, AfterTyped
<1> QED BY <1>2 DEF Network, txs

\* A cluster of one active node.
LEMMA OneClusterTyped == Typed(OneCluster)
<1> DEFINE txs == <<init_cluster(Operator, Operator, TheCluster),
                    init_arx_node_acc(Operator, Operator, TheNode),
                    Single(activate_arx_ix(Operator, TheNode), Operator),
                    propose_join_cluster(Operator, TheCluster, TheNode),
                    join_cluster(Operator, TheCluster, TheNode, TRUE),
                    activate_cluster(Operator, TheCluster)>>
<1>1. Len(txs) = 6
  OBVIOUS
<1>2. \A n \in 1 .. 6 : TypedTx(txs[n])
  <2>1. /\ TypedTx(txs[1]) /\ TypedTx(txs[2]) /\ TypedTx(txs[3])
        /\ TypedTx(txs[4]) /\ TypedTx(txs[5]) /\ TypedTx(txs[6])
    BY NodesAndClustersTyped, ThingsSetUp
  <2> HIDE DEF txs
  <2>2. \A n \in 1 .. 6 : n = 1 \/ n = 2 \/ n = 3 \/ n = 4 \/ n = 5 \/ n = 6
    OBVIOUS
  <2> QED BY <2>1, <2>2
<1> HIDE DEF txs
<1>3. Typed(After(Network, txs))
  BY <1>1, <1>2, NetworkTyped, AfterTyped
<1> QED BY <1>3 DEF OneCluster, txs

\* The other clusters and nodes.
LEMMA TwoClustersTyped == Typed(TwoClusters)
<1> DEFINE A == {init_arx_node_acc(Operator, Operator, n) : n \in Nodes \ {TheNode}}
           B == {init_cluster(Operator, Operator, c) : c \in Clusters \ {TheCluster}}
<1>1. IsFiniteSet(A) /\ IsFiniteSet(B)
  <2>1. IsFiniteSet(Nodes \ {TheNode}) /\ IsFiniteSet(Clusters \ {TheCluster})
    BY NetworkAssumption, FS_Subset
  <2>2. IsFiniteSet({init_arx_node_acc(Operator, Operator, n) : n \in Nodes \ {TheNode}})
    <3> DEFINE f == [n \in Nodes \ {TheNode} |-> init_arx_node_acc(Operator, Operator, n)]
    <3>1. f \in Surjection(Nodes \ {TheNode}, A)
      BY DEF Surjection
    <3> QED BY <3>1, <2>1, FS_Surjection
  <2>3. IsFiniteSet({init_cluster(Operator, Operator, c) : c \in Clusters \ {TheCluster}})
    <3> DEFINE f == [c \in Clusters \ {TheCluster} |-> init_cluster(Operator, Operator, c)]
    <3>1. f \in Surjection(Clusters \ {TheCluster}, B)
      BY DEF Surjection
    <3> QED BY <3>1, <2>1, FS_Surjection
  <2> QED BY <2>2, <2>3
<1>2. \A tx \in A \cup B : TypedTx(tx)
  <2>1. \A n \in Nodes, c \in Clusters : /\ TypedTx(init_arx_node_acc(Operator, Operator, n))
                                         /\ TypedTx(init_cluster(Operator, Operator, c))
    BY NodesAndClustersTyped
  <2> QED BY <2>1, ThingsSetUp
<1> HIDE DEF A, B
<1>3. IsFiniteSet(A \cup B)
  BY <1>1, FS_Union
<1>4. Typed(After(OneCluster, SetToSeq(A \cup B)))
  <2> DEFINE txs == SetToSeq(A \cup B)
  <2>1. Len(txs) \in Nat /\ \A n \in 1 .. Len(txs) : txs[n] \in A \cup B
    BY <1>3, SomeOrder
  <2> HIDE DEF txs
  <2>2. Typed(After(OneCluster, txs))
    BY <1>2, <2>1, OneClusterTyped, AfterTyped
  <2> QED BY <2>2 DEF txs
<1> QED BY <1>4 DEF TwoClusters, A, B

\* Two programs whose own computations have ended.
LEMMA TwoProgramsTyped == Typed(TwoPrograms)
<1> DEFINE txs == <<InitMxe(Original, TheCluster), InitMxe(Backup, TheCluster)>>
<1>1. Len(txs) = 2 /\ \A n \in 1 .. 2 : TypedTx(txs[n])
  <2>1. TypedTx(InitMxe(Original, TheCluster)) /\ TypedTx(InitMxe(Backup, TheCluster))
    BY ProgramsTyped, ThingsSetUp DEF InitMxe
  <2> QED BY <2>1
<1> HIDE DEF txs
<1> DEFINE acc == After(OneCluster, txs)
           next == AllEnded(acc)
<1>2. Typed(acc)
  BY <1>1, OneClusterTyped, AfterTyped
<1>3. TwoPrograms = next
  BY DEF TwoPrograms, txs
<1> HIDE DEF acc
<1>4. ASSUME NEW a \in DOMAIN acc PROVE ContentRight(a, next[a])
  <2>1. ContentRight(a, acc[a])
    BY <1>2 DEF Typed
  <2>2. CASE a = mempool_acc(TheCluster)
    BY <2>2 DEF ContentRight, mempool_acc
  <2>3. CASE a # mempool_acc(TheCluster) /\ a[1] = "ComputationAccount"
    <3>1. acc[a] \in ContentOf("ComputationAccount")
      BY <2>1, <2>3 DEF ContentRight
    <3>2. [acc[a] EXCEPT !.stage = "final"] \in ContentOf("ComputationAccount")
      BY <3>1 DEF ContentOf
    <3>3. next[a] = acc[a] \/ next[a] = [acc[a] EXCEPT !.stage = "final"]
      BY <2>3 DEF AllEnded
    <3> QED BY <3>1, <3>2, <3>3, <2>3 DEF ContentRight
  <2>4. CASE a # mempool_acc(TheCluster) /\ a[1] # "ComputationAccount"
    BY <2>1, <2>4 DEF AllEnded
  <2> QED BY <2>2, <2>3, <2>4
<1>5. DOMAIN next = DOMAIN acc
  BY DEF AllEnded
<1> HIDE DEF next
<1> QED BY <1>3, <1>4, <1>5 DEF Typed

\* Their definitions.
LEMMA DefinitionTyped ==
  ASSUME NEW acc, Typed(acc), NEW p \in Programs PROVE Typed(After(acc, CompleteDefinition(p)))
<1> DEFINE txs == CompleteDefinition(p)
<1>1. Len(txs) = 3 /\ \A n \in 1 .. 3 : TypedTx(txs[n])
  <2>1. /\ TypedTx(init_computation_definition(Operator, AnyDef, p, 0))
        /\ TypedTx(Single(init_raw_circuit_acc_ix(Operator, AnyDef, p, 0), Operator))
        /\ TypedTx(Single(finalize_computation_definition_ix(Operator, AnyDef, p), Operator))
    BY ProgramsTyped, ThingsSetUp
  <2> QED BY <2>1 DEF CompleteDefinition
<1> HIDE DEF txs
<1>2. Typed(After(acc, txs))
  BY <1>1, AfterTyped
<1> QED BY <1>2 DEF txs

\* Every topic starts with a chain that has its types.
LEMMA SetUpTyped ==
  ASSUME NEW t \in {"nodes", "discovery", "programs", "computations", "keys", "recovery", "staking"}
  PROVE  Typed(SetUp(t))
<1>1. CASE t = "nodes"
  <2> DEFINE txs == <<init_cluster(Operator, Operator, TheCluster)>>
  <2>a. TypedTx(init_cluster(Operator, Operator, TheCluster))
    BY NodesAndClustersTyped, ThingsSetUp
  <2>1. Len(txs) = 1 /\ \A n \in 1 .. 1 : TypedTx(txs[n])
    BY <2>a
  <2> HIDE DEF txs
  <2>2. Typed(After(Network, txs))
    BY <2>1, NetworkTyped, AfterTyped
  <2> QED BY <1>1, <2>2 DEF SetUp, txs
<1>2. CASE t = "recovery"
  <2> DEFINE txs == <<finalize_mxe_keys(Operator, Original, TheCluster),
                      finalize_mxe_keys(Operator, Backup, TheCluster)>>
  <2>a. /\ TypedTx(finalize_mxe_keys(Operator, Original, TheCluster))
        /\ TypedTx(finalize_mxe_keys(Operator, Backup, TheCluster))
    BY ProgramsTyped, ThingsSetUp
  <2>1. Len(txs) = 2 /\ \A n \in 1 .. 2 : TypedTx(txs[n])
    BY <2>a
  <2> HIDE DEF txs
  <2>2. Typed(After(TwoPrograms, txs))
    BY <2>1, TwoProgramsTyped, AfterTyped
  <2> QED BY <1>2, <2>2 DEF SetUp, txs
<1>3. CASE t = "computations"
  BY <1>3, TwoProgramsTyped, DefinitionTyped, ThingsSetUp DEF SetUp, ReadyToCompute
<1>4. CASE t \in {"programs", "keys"}
  BY <1>4, OneClusterTyped DEF SetUp
<1>5. CASE t = "discovery"
  BY <1>5, TwoClustersTyped DEF SetUp
<1>6. CASE t = "staking"
  BY <1>6, EmptyTyped DEF SetUp
<1> QED BY <1>1, <1>2, <1>3, <1>4, <1>5, <1>6

-----------------------------------------------------------------------------
(* The transactions of every topic keep the types. *)

\* Nodes and clusters.
LEMMA NodesTopicTyped == \A tx \in NodeTransactions \cup ClusterTransactions : TypedTx(tx)
<1>0. /\ \A n \in Nodes : /\ TypedTx(Single(activate_arx_ix(Operator, n), Operator))
                          /\ TypedTx(set_arx_node_metadata(Operator, n))
                          /\ TypedTx(Single(set_arx_node_config_ix(Operator, n), Operator))
      /\ \A c \in Clusters : /\ TypedTx(increase_mempool_size(Operator, c))
                             /\ TypedTx(Single(set_cluster_authority_ix(Operator, c), Operator))
                             /\ TypedTx(activate_cluster(Operator, c))
                             /\ TypedTx(Single(deactivate_cluster_ix(Operator, c), Operator))
  BY NodesAndClustersTyped, ThingsSetUp
<1>1. \A c \in Clusters :
        TypedTx(Tx(<<bump_epoch_cluster_ix(c), update_current_epoch_idempotent_ix>>, {}))
  BY NodesAndClustersTyped, ThingsSetUp
<1>2. \A w : \A n \in Nodes : TypedTx(init_arx_node_acc(Operator, w, n))
  BY NodesAndClustersTyped, ThingsSetUp
<1>3. \A d : \A n \in Nodes : TypedTx(Single(deactivate_arx_ix(Operator, n, d), Operator))
  BY NodesAndClustersTyped, ThingsSetUp
<1>4. \A w : \A c \in Clusters : TypedTx(init_cluster(Operator, w, c))
  BY NodesAndClustersTyped, ThingsSetUp
<1>5. \A c \in Clusters, n \in Nodes : /\ TypedTx(submit_aggregated_bls_pubkey(Operator, c, n))
                                       /\ TypedTx(propose_fee(Operator, c, n))
                                       /\ TypedTx(vote_fee(Operator, c, n))
                                       /\ TypedTx(propose_join_cluster(Operator, c, n))
  BY NodesAndClustersTyped
<1>6. \A w : \A c \in Clusters, n \in Nodes : TypedTx(claim_node_fees(Operator, c, n, w))
  BY NodesAndClustersTyped
<1>7. \A join : \A c \in Clusters, n \in Nodes : TypedTx(join_cluster(Operator, c, n, join))
  BY NodesAndClustersTyped
<1>8. \A tx \in NodeTransactions : TypedTx(tx)
  BY <1>0, <1>2, <1>3, <1>5, <1>6, <1>7 DEF NodeTransactions
<1>9. \A tx \in ClusterTransactions : TypedTx(tx)
  <2>1. \A tx \in {Tx(<<bump_epoch_cluster_ix(c), update_current_epoch_idempotent_ix>>, {}) :
                    c \in Clusters} : TypedTx(tx)
    BY <1>1, Zenon
  <2> QED BY <1>0, <1>4, <1>5, <2>1 DEF ClusterTransactions
<1> QED BY <1>8, <1>9

\* What changes the answer of a discovery.
LEMMA DiscoveryTopicTyped == \A tx \in DiscoveryTransactions : TypedTx(tx)
<1> DEFINE A == {Single(activate_arx_ix(Operator, n), Operator) : n \in Nodes}
           B == {Single(deactivate_arx_ix(Operator, n, accounts[arx_acc(n)].cluster_membership.cluster),
                        Operator) : n \in Nodes}
           C == {propose_join_cluster(Operator, c, n) : c \in Clusters, n \in Nodes}
           Joined(c, n) == join_cluster(Operator, c, n, TRUE)
           D == {Joined(c, n) : c \in Clusters, n \in Nodes}
           E == {Single(deactivate_cluster_ix(Operator, c), Operator) : c \in Clusters}
           F == {InitMxe(Original, c) : c \in Clusters}
<1>1. DiscoveryTransactions = UNION {A, B, C, D, E, F}
  BY DEF DiscoveryTransactions
<1>2. \A tx \in A : TypedTx(tx)
  BY NodesAndClustersTyped, ThingsSetUp
<1>3. \A tx \in B : TypedTx(tx)
  <2>1. \A d : \A n \in Nodes : TypedTx(Single(deactivate_arx_ix(Operator, n, d), Operator))
    BY NodesAndClustersTyped, ThingsSetUp
  <2> QED BY <2>1
<1>4. \A tx \in C : TypedTx(tx)
  <2>1. \A c \in Clusters, n \in Nodes : TypedTx(propose_join_cluster(Operator, c, n))
    BY NodesAndClustersTyped
  <2> QED BY <2>1
<1>5. \A tx \in D : TypedTx(tx)
  <2>1. ASSUME NEW c \in Clusters, NEW n \in Nodes PROVE TypedTx(Joined(c, n))
    BY NodesAndClustersTyped
  <2> HIDE DEF Joined
  <2> QED BY <2>1
<1>6. \A tx \in E : TypedTx(tx)
  BY NodesAndClustersTyped, ThingsSetUp
<1>7. \A tx \in F : TypedTx(tx)
  <2>1. \A c \in Clusters : TypedTx(InitMxe(Original, c))
    BY ProgramsTyped, ThingsSetUp DEF InitMxe
  <2> QED BY <2>1
<1> HIDE DEF A, B, C, D, E, F
<1> QED BY <1>1, <1>2, <1>3, <1>4, <1>5, <1>6, <1>7

\* The setup of programs.
LEMMA ProgramsTopicTyped == \A tx \in ProgramTransactions : TypedTx(tx)
<1>1. \A p \in Programs, k \in Offsets, r \in Offsets :
        TypedTx(init_mxe(Operator, p, k, r, TheCluster, 0))
  BY ProgramsTyped, ThingsSetUp
<1>2. \A p \in Programs : TypedTx(set_cluster(Operator, p, TheCluster))
  BY ProgramsTyped, ThingsSetUp
<1>3. TypedTx(init_recovery_peer_acc(Operator, TheNode))
  BY ProgramsTyped, ThingsSetUp
<1>4. \A d : \A p \in Programs : TypedTx(init_computation_definition(Operator, d, p, 0))
  BY ProgramsTyped, ThingsSetUp
<1>5. \A d, k : \A p \in Programs :
        /\ TypedTx(Single(init_raw_circuit_acc_ix(Operator, d, p, k), Operator))
        /\ TypedTx(Single(embiggen_raw_circuit_acc_ix(Operator, d, p, k), Operator))
        /\ TypedTx(Single(upload_circuit_ix(Operator, p, d, k), Operator))
        /\ TypedTx(Single(finalize_computation_definition_ix(Operator, d, p), Operator))
  BY ProgramsTyped, ThingsSetUp
<1> QED BY <1>1, <1>2, <1>3, <1>4, <1>5, ThingsSetUp DEF ProgramTransactions

\* Computations and claims that they failed.
LEMMA ComputationsTopicTyped ==
  /\ \A tx \in ComputationTransactions : TypedTx(tx)
  /\ \A txs \in FailureClaims : txs # <<>> => TypedTx(Head(txs))
<1>1. ASSUME NEW w, NEW p \in Programs, NEW o, NEW d \in Definitions, NEW n, NEW c, NEW data, NEW keys
      PROVE  /\ TypedTx(queue_computation(w, p, o, d, data))
             /\ TypedTx(Tx(<<queue_computation_ix(w, p, o, d, data)>>, keys))
             /\ TypedTx(Tx(<<callback_computation_ix(w, p, o, d, n, c),
                             callback_computation_ix_user(p, <<>>, d)>>, keys))
             /\ TypedTx(Single(reclaim_failure_rent_idempotent_ix(w, n, p, o), w))
  <2>1. KeepsTypes(callback_computation_ix_user(p, <<>>, d))
    BY NoEffectTypes DEF callback_computation_ix_user, Ix
  <2>2. KeepsTypes(callback_computation_ix(w, p, o, d, n, c))
    BY EndingTyped
  <2>3. KeepsTypes(queue_computation_ix(w, p, o, d, data))
    BY QueueTyped
  <2>4. KeepsTypes(reclaim_failure_rent_idempotent_ix(w, n, p, o))
    BY PlainInstructions
  <2> QED BY <2>1, <2>2, <2>3, <2>4, OneTyped, PairTyped, SingleTyped DEF queue_computation
<1>2. \A tx \in ComputationTransactions : TypedTx(tx)
  <2>1. \A w, o, data : \A p \in Programs : TypedTx(queue_computation(w, p, o, AnyDef, data))
    BY <1>1, ThingsSetUp
  <2>2. \A w, o, data, keys : \A p \in Programs :
           TypedTx(Tx(<<queue_computation_ix(w, p, o, AnyDef, data)>>, keys))
    BY <1>1, ThingsSetUp
  <2>3. \A w, o, n, c, keys : \A p \in Programs :
           TypedTx(Tx(<<callback_computation_ix(w, p, o, AnyDef, n, c),
                        callback_computation_ix_user(p, <<>>, AnyDef)>>, keys))
    BY <1>1, ThingsSetUp
  <2>4. \A w, n, o : \A p \in Programs :
           TypedTx(Single(reclaim_failure_rent_idempotent_ix(w, n, p, o), w))
    BY <1>1, ThingsSetUp
  <2> DEFINE A == {queue_computation(w, p, o, AnyDef, accounts[mxe_acc(p)]) :
                     w \in Wallets, p \in Initialized, o \in Offsets}
             B == {QueuedByProgram(w, p, o, AnyDef) :
                     w \in {Operator}, p \in Initialized, o \in Offsets}
             EndedBy(p, o) ==
               Tx(<<callback_computation_ix(Operator, p, o, AnyDef, TheNode, accounts[mxe_acc(p)].cluster),
                    callback_computation_ix_user(p, <<>>, AnyDef)>>, {Operator})
             C == {EndedBy(p, o) : p \in Initialized, o \in Offsets}
             D == {Single(reclaim_failure_rent_idempotent_ix(Operator, w, p, o), Operator) :
                     w \in {Operator}, p \in Initialized, o \in Offsets}
  <2>5. ComputationTransactions = UNION {A, B, C, D}
    BY DEF ComputationTransactions
  <2>i. Initialized \subseteq Programs
    BY DEF Initialized
  <2>6. \A tx \in A : TypedTx(tx)
    BY <2>1, <2>i
  <2>7. \A tx \in B : TypedTx(tx)
    <3>1. \A w, o : \A p \in Programs : TypedTx(QueuedByProgram(w, p, o, AnyDef))
      BY <2>2 DEF QueuedByProgram
    <3> QED BY <3>1, <2>i
  <2>8. \A tx \in C : TypedTx(tx)
    <3>1. ASSUME NEW p \in Programs, NEW o
          PROVE  TypedTx(EndedBy(p, o))
      BY <2>3, Zenon
    <3> HIDE DEF EndedBy
    <3> QED BY <3>1, <2>i
  <2>9. \A tx \in D : TypedTx(tx)
    BY <2>4, <2>i
  <2> HIDE DEF A, B, C, D
  <2> QED BY <2>5, <2>6, <2>7, <2>8, <2>9
<1>3. ASSUME NEW p, NEW c, NEW d, NEW o, NEW n, NEW len,
             build_claim_failure_txs(Operator, p, c, d, o, n, len, 0) # <<>>
      PROVE  TypedTx(Head(build_claim_failure_txs(Operator, p, c, d, o, n, len, 0)))
  <2> DEFINE ixs == <<claim_failure_init_ix(Operator, p, c, d, o, n, len),
                      claim_failure_append_ix(Operator, p, o, len, 0),
                      claim_failure_finalize_ix(Operator, p, c, o, n)>>
             tx == Tx(ixs, {Operator})
  <2>1. KeepsTypes(ixs[1]) /\ KeepsTypes(ixs[2]) /\ KeepsTypes(ixs[3])
    BY ClaimRecoveryStakeTyped, StatusTyped, EndingTyped
  <2>2. Len(ixs) = 3
    OBVIOUS
  <2>3. build_claim_failure_txs(Operator, p, c, d, o, n, len, 0) = <<tx>>
    BY <1>3 DEF build_claim_failure_txs
  <2> HIDE DEF ixs
  <2>4. \A k \in 1 .. 3 : KeepsTypes(ixs[k])
    <3>1. \A k \in 1 .. 3 : k = 1 \/ k = 2 \/ k = 3
      OBVIOUS
    <3> QED BY <3>1, <2>1
  <2>5. TypedTx(tx)
    BY <2>2, <2>4, AllTyped
  <2> HIDE DEF tx
  <2> QED BY <2>3, <2>5
<1>4. \A txs \in FailureClaims : txs # <<>> => TypedTx(Head(txs))
  BY <1>3 DEF FailureClaims
<1> QED BY <1>2, <1>4

\* Keys.
LEMMA KeysTopicTyped == \A tx \in KeyTransactions : TypedTx(tx)
<1>1. ASSUME NEW p, NEW c, NEW n, NEW o, NEW data
      PROVE  /\ TypedTx(requeue_mxe_keygen(Operator, p, data, c))
             /\ TypedTx(finalize_mxe_keys(Operator, p, c))
             /\ TypedTx(Single(queue_key_recovery_init_ix(Operator, p, c, o), Operator))
             /\ TypedTx(Single(set_mxe_keys_ix(Operator, p, n, c), Operator))
             /\ TypedTx(Single(set_mxe_recovery_keys_init_ix(Operator, p, n, c), Operator))
             /\ TypedTx(Single(extend_recovery_keyshares_ix(Operator, p, n, c), Operator))
             /\ TypedTx(Single(finalize_key_recovery_shares_upload_ix(Operator, p, n, c, o), Operator))
  <2>1. /\ KeepsTypes(set_mxe_keys_ix(Operator, p, n, c))
        /\ KeepsTypes(set_mxe_recovery_keys_init_ix(Operator, p, n, c))
        /\ KeepsTypes(extend_recovery_keyshares_ix(Operator, p, n, c))
        /\ KeepsTypes(finalize_key_recovery_shares_upload_ix(Operator, p, n, c, o))
    BY NoEffectTypes DEF set_mxe_keys_ix, set_mxe_recovery_keys_init_ix,
                         extend_recovery_keyshares_ix, finalize_key_recovery_shares_upload_ix, Ix
  <2>2. KeepsTypes(finalize_mxe_keys_ix(Operator, p, c))
    BY StatusTyped
  <2> QED BY <2>1, <2>2, OwnTyped, SingleTyped DEF requeue_mxe_keygen, finalize_mxe_keys
<1>2. \A p, c, data : TypedTx(requeue_mxe_keygen(Operator, p, data, c))
  BY <1>1
<1>3. \A p, c, o : TypedTx(Single(queue_key_recovery_init_ix(Operator, p, c, o), Operator))
  BY <1>1
<1>4. \A p, n, c : /\ TypedTx(Single(set_mxe_keys_ix(Operator, p, n, c), Operator))
                   /\ TypedTx(Single(set_mxe_recovery_keys_init_ix(Operator, p, n, c), Operator))
                   /\ TypedTx(Single(extend_recovery_keyshares_ix(Operator, p, n, c), Operator))
  BY <1>1
<1>5. \A p, n, c, o :
        TypedTx(Single(finalize_key_recovery_shares_upload_ix(Operator, p, n, c, o), Operator))
  BY <1>1
<1>6. \A p, c : TypedTx(finalize_mxe_keys(Operator, p, c))
  BY <1>1
<1>7. \A p \in Programs : TypedTx(InitMxe(p, TheCluster))
  BY ProgramsTyped, ThingsSetUp DEF InitMxe
<1> QED BY <1>2, <1>3, <1>4, <1>5, <1>6, <1>7 DEF KeyTransactions

\* The recovery of a program.
LEMMA RecoveryTopicTyped == \A tx \in RecoveryTransactions : TypedTx(tx)
<1>1. ASSUME NEW p, NEW q \in Programs, NEW c, NEW n, NEW o, NEW k \in Offsets
      PROVE  /\ TypedTx(Single(finalize_key_recovery_execution_ix(Operator, Operator, p, q, c, o), Operator))
             /\ TypedTx(Single(requeue_key_recovery_finalize_ix(Operator, Operator, p, q, c, k, o), Operator))
  BY RecoveryQueueTyped, SingleTyped
<1>2. ASSUME NEW p, NEW q, NEW c, NEW n, NEW o
      PROVE  /\ TypedTx(Single(recover_mxe_ix(Operator, p), Operator))
             /\ TypedTx(init_recovery_peer_acc(Operator, n))
             /\ TypedTx(submit_key_recovery_share(Operator, p, q, n))
             /\ TypedTx(Single(init_key_recovery_execution_part1_ix(Operator, Operator, p, q), Operator))
             /\ TypedTx(Single(init_key_recovery_execution_part2_ix(Operator, p, q), Operator))
             /\ TypedTx(Single(close_key_recovery_ix(Operator, p, q), Operator))
             /\ TypedTx(Single(finalize_key_recovery_callback_ix(Operator, p, q, c, o, n), Operator))
  <2>1. KeepsTypes(submit_key_recovery_share_ix(Operator, p, q, n))
    BY NoEffectTypes DEF submit_key_recovery_share_ix, Ix
  <2>2. /\ KeepsTypes(init_recovery_peer_acc_ix(Operator, n))
        /\ KeepsTypes(init_key_recovery_execution_part2_ix(Operator, p, q))
        /\ KeepsTypes(close_key_recovery_ix(Operator, p, q))
    BY PlainInstructions
  <2>3. /\ KeepsTypes(recover_mxe_ix(Operator, p))
        /\ KeepsTypes(init_key_recovery_execution_part1_ix(Operator, Operator, p, q))
        /\ KeepsTypes(finalize_key_recovery_callback_ix(Operator, p, q, c, o, n))
    BY StatusTyped, ClaimRecoveryStakeTyped, EndingTyped
  <2> QED BY <2>1, <2>2, <2>3, SingleTyped DEF init_recovery_peer_acc, submit_key_recovery_share
<1>3. \A c, o : \A k \in Offsets :
        TypedTx(Single(requeue_key_recovery_finalize_ix(Operator, Operator, Original, Backup, c, k, o),
                       Operator))
  BY <1>1, ThingsSetUp
<1>4. \A c, o :
        TypedTx(Single(finalize_key_recovery_execution_ix(Operator, Operator, Original, Backup, c, o),
                       Operator))
  BY RecoveryQueueTyped, SingleTyped, ThingsSetUp
<1> QED BY <1>2, <1>3, <1>4 DEF RecoveryTransactions

\* Staking.
LEMMA StakingTopicTyped == \A tx \in StakingTransactions : TypedTx(tx)
<1>1. ASSUME NEW w, NEW v, NEW u, NEW n, NEW k, NEW j
      PROVE  /\ TypedTx(init_arcium_token_mint(w)) /\ TypedTx(airdrop_arcium_token(w, v))
             /\ TypedTx(init_primary_stake_acc(w)) /\ TypedTx(activate_primary_stake_acc(w))
             /\ TypedTx(deactivate_primary_stake_acc(w, n))
             /\ TypedTx(Single(finalize_epoch_rewards_ix(w, v, n), w))
             /\ TypedTx(init_delegated_stake_master_acc(w, v))
             /\ TypedTx(init_delegated_stake_acc(w, k))
             /\ TypedTx(split_delegated_stake_account(u, w, v, k, j))
             /\ TypedTx(merge_delegated_stake_account(u, w, v, k, j))
             /\ TypedTx(close_delegated_stake(w, v, k))
  <2>1. /\ KeepsTypes(activate_primary_stake_acc_ix(w)) /\ KeepsTypes(deactivate_primary_stake_acc_ix(w, n))
        /\ KeepsTypes(finalize_epoch_rewards_ix(w, v, n))
        /\ KeepsTypes(init_arcium_token_mint_ixs(w)[2]) /\ KeepsTypes(airdrop_arcium_token_ixs(w, v)[2])
    BY NoEffectTypes DEF activate_primary_stake_acc_ix, deactivate_primary_stake_acc_ix,
                         finalize_epoch_rewards_ix, init_arcium_token_mint_ixs,
                         airdrop_arcium_token_ixs, Ix
  <2>2. /\ KeepsTypes(init_arcium_token_mint_ixs(w)[1]) /\ KeepsTypes(airdrop_arcium_token_ixs(w, v)[1])
        /\ KeepsTypes(init_primary_stake_acc_ix(w))
        /\ KeepsTypes(init_delegated_stake_master_acc_ix(w, v))
        /\ KeepsTypes(close_delegated_stake_ix(w, v, k))
        /\ KeepsTypes(merge_delegated_stake_account_ix(u, w, v, k, j))
    BY PlainInstructions
  <2>3. /\ KeepsTypes(init_delegated_stake_acc_ix(w, k))
        /\ KeepsTypes(split_delegated_stake_account_ix(u, w, v, k, j))
    BY ClaimRecoveryStakeTyped, SplitTyped
  <2>4. TypedTx(init_arcium_token_mint(w)) /\ TypedTx(airdrop_arcium_token(w, v))
    <3>1. /\ Len(init_arcium_token_mint_ixs(w)) = 2 /\ Len(airdrop_arcium_token_ixs(w, v)) = 2
      BY DEF init_arcium_token_mint_ixs, airdrop_arcium_token_ixs
    <3>2. \A n_ \in 1 .. 2 : /\ KeepsTypes(init_arcium_token_mint_ixs(w)[n_])
                             /\ KeepsTypes(airdrop_arcium_token_ixs(w, v)[n_])
      <4>1. \A n_ \in 1 .. 2 : n_ = 1 \/ n_ = 2
        OBVIOUS
      <4> QED BY <4>1, <2>1, <2>2
    <3> QED BY <3>1, <3>2, AllTyped DEF init_arcium_token_mint, airdrop_arcium_token
  <2>5. /\ TypedTx(init_primary_stake_acc(w)) /\ TypedTx(activate_primary_stake_acc(w))
        /\ TypedTx(deactivate_primary_stake_acc(w, n))
        /\ TypedTx(Single(finalize_epoch_rewards_ix(w, v, n), w))
    BY <2>1, <2>2, SingleTyped
       DEF init_primary_stake_acc, activate_primary_stake_acc, deactivate_primary_stake_acc
  <2>6. /\ TypedTx(init_delegated_stake_master_acc(w, v)) /\ TypedTx(init_delegated_stake_acc(w, k))
        /\ TypedTx(close_delegated_stake(w, v, k))
    BY <2>2, <2>3, SingleTyped
       DEF init_delegated_stake_master_acc, init_delegated_stake_acc, close_delegated_stake
  <2>7. /\ TypedTx(split_delegated_stake_account(u, w, v, k, j))
        /\ TypedTx(merge_delegated_stake_account(u, w, v, k, j))
    BY <2>2, <2>3, OneTyped DEF split_delegated_stake_account, merge_delegated_stake_account
  <2> QED BY <2>4, <2>5, <2>6, <2>7
<1>2. /\ \A w : TypedTx(init_arcium_token_mint(w)) /\ TypedTx(init_primary_stake_acc(w))
                 /\ TypedTx(activate_primary_stake_acc(w))
      /\ \A w, v : TypedTx(airdrop_arcium_token(w, v)) /\ TypedTx(init_delegated_stake_master_acc(w, v))
  BY <1>1
<1>3. /\ \A w, n : TypedTx(deactivate_primary_stake_acc(w, n))
      /\ \A w, v, n : TypedTx(Single(finalize_epoch_rewards_ix(w, v, n), w))
  BY <1>1
<1>4. \A w, k : \A v \in Wallets : TypedTx(delegate_stake(w, k, v))
  BY DelegationTyped, SingleTyped DEF delegate_stake
<1>5. \A k, v : TypedTx(undelegate_stake(Operator, k, v))
  BY DelegationTyped, SingleTyped, NetworkAssumption DEF undelegate_stake
<1>6. /\ \A w, k : TypedTx(init_delegated_stake_acc(w, k))
      /\ \A w, v, k : TypedTx(close_delegated_stake(w, v, k))
  BY <1>1
<1>7. \A u, w, v, k, j : /\ TypedTx(split_delegated_stake_account(u, w, v, k, j))
                         /\ TypedTx(merge_delegated_stake_account(u, w, v, k, j))
  BY <1>1
<1> QED BY <1>2, <1>3, <1>4, <1>5, <1>6, <1>7 DEF StakingTransactions

-----------------------------------------------------------------------------
(* The steps of the chain and of a discovery keep the types. *)

\* A transaction that takes effect.
LEMMA SendTyped ==
  ASSUME NEW tx, TypedTx(tx), Typed(accounts), Send(tx) PROVE Typed(accounts')
BY DEF Send, TypedTx

\* The stage of a computation.
LEMMA StageTyped ==
  ASSUME NEW comp \in ContentOf("ComputationAccount"), NEW stage \in {"expired", "executing"}
  PROVE  [comp EXCEPT !.stage = stage] \in ContentOf("ComputationAccount")
BY DEF ContentOf

\* The time that passes ends computations, and nodes start them.
LEMMA TimeTyped ==
  ASSUME Typed(accounts), TimePasses \/ NodesTakeOne PROVE Typed(accounts')
<1>p. \A c, v : ContentRight(mempool_acc(c), v) /\ ContentRight(execpool_acc(c), v)
  BY DEF ContentRight, mempool_acc, execpool_acc
<1>c. \A a, stage : a \in DOMAIN accounts /\ a[1] = "ComputationAccount"
                      /\ stage \in {"expired", "executing"}
                    => ContentRight(a, [accounts[a] EXCEPT !.stage = stage])
  <2> SUFFICES ASSUME NEW a \in DOMAIN accounts, a[1] = "ComputationAccount",
                      NEW stage \in {"expired", "executing"}
               PROVE  ContentRight(a, [accounts[a] EXCEPT !.stage = stage])
    OBVIOUS
  <2>1. accounts[a] \in ContentOf("ComputationAccount")
    BY DEF Typed, ContentRight
  <2>2. [accounts[a] EXCEPT !.stage = stage] \in ContentOf("ComputationAccount")
    BY <2>1, StageTyped
  <2> QED BY <2>2 DEF ContentRight
<1>1. CASE TimePasses
  <2> DEFINE m == accounts[mempool_acc(TheCluster)]
             expired == {computation_acc(TheCluster, c.computation_offset) : c \in ToSet(Expiring(m))}
             advanced == Advance(m)
             pool == mempool_acc(TheCluster)
  <2>1. accounts' = [a \in DOMAIN accounts |->
                       IF a = pool THEN advanced
                       ELSE IF a \in expired THEN [accounts[a] EXCEPT !.stage = "expired"]
                       ELSE accounts[a]]
    BY <1>1 DEF TimePasses
  <2>2. \A a \in expired : a[1] = "ComputationAccount"
    BY DEF computation_acc
  <2>3. \A v : ContentRight(pool, v)
    BY <1>p
  <2> HIDE DEF expired, advanced, pool
  <2> QED BY <1>c, <2>1, <2>2, <2>3 DEF Typed
<1>2. CASE NodesTakeOne
  <2> DEFINE m == accounts[mempool_acc(TheCluster)]
             x == accounts[execpool_acc(TheCluster)]
  <2>1. PICK c \in ToSet(computations_highest_prio(m)), k \in {j \in DOMAIN x : x[j] = Zeroed} :
          accounts' = [accounts EXCEPT
                         ![mempool_acc(TheCluster)] = TakeOut(m, c),
                         ![execpool_acc(TheCluster)] = [x EXCEPT ![k] = c],
                         ![computation_acc(TheCluster, c.computation_offset)].stage = "executing"]
    BY <1>2 DEF NodesTakeOne
  <2> DEFINE one == mempool_acc(TheCluster)
             two == execpool_acc(TheCluster)
             comp == computation_acc(TheCluster, c.computation_offset)
             pool == TakeOut(m, c)
             slots == [x EXCEPT ![k] = c]
  <2>2. one[1] = "Mempool" /\ two[1] = "Execpool" /\ comp[1] = "ComputationAccount"
    BY DEF mempool_acc, execpool_acc, computation_acc
  <2>3. accounts' = [accounts EXCEPT ![one] = pool, ![two] = slots, ![comp].stage = "executing"]
    BY <2>1
  <2>p. \A v : ContentRight(one, v) /\ ContentRight(two, v)
    BY <1>p
  <2> HIDE DEF one, two, comp, pool, slots
  <2>4. /\ DOMAIN accounts' = DOMAIN accounts
        /\ \A a \in DOMAIN accounts :
             /\ a \notin {one, two, comp} => accounts'[a] = accounts[a]
             /\ a = comp => accounts'[a] = [accounts[a] EXCEPT !.stage = "executing"]
    BY <2>2, <2>3
  <2> QED BY <1>c, <2>2, <2>4, <2>p DEF Typed
<1> QED BY <1>1, <1>2

\* Every step keeps the types.
LEMMA TypedStep == ASSUME Typed(accounts), [Next]_vars PROVE Typed(accounts')
<1>1. CASE UNCHANGED accounts
  BY <1>1 DEF Typed
<1>2. CASE NodeCall
  BY <1>2, NodesTopicTyped, SendTyped DEF NodeCall
<1>3. CASE ClusterCall
  BY <1>3, NodesTopicTyped, SendTyped DEF ClusterCall
<1>4. CASE DiscoveryCall
  BY <1>4, DiscoveryTopicTyped, SendTyped DEF DiscoveryCall
<1>5. CASE ProgramCall
  BY <1>5, ProgramsTopicTyped, SendTyped DEF ProgramCall
<1>6. CASE ComputationCall
  BY <1>6, ComputationsTopicTyped, SendTyped DEF ComputationCall
<1>7. CASE claim_failure
  BY <1>7, ComputationsTopicTyped, SendTyped DEF claim_failure
<1>8. CASE KeyCall
  BY <1>8, KeysTopicTyped, SendTyped DEF KeyCall
<1>9. CASE RecoveryCall
  BY <1>9, RecoveryTopicTyped, SendTyped DEF RecoveryCall
<1>10. CASE StakingCall
  BY <1>10, StakingTopicTyped, SendTyped DEF StakingCall
<1>11. CASE TimePasses \/ NodesTakeOne
  BY <1>11, TimeTyped
<1>12. \/ UNCHANGED accounts
       \/ NodeCall \/ ClusterCall \/ DiscoveryCall \/ ProgramCall \/ ComputationCall \/ claim_failure
       \/ KeyCall \/ RecoveryCall \/ StakingCall \/ TimePasses \/ NodesTakeOne
  BY DEF Next, vars, DiscoverClusters, LookUpCluster, CountMxes, CountFails, ReturnInfos
<1> QED BY <1>1, <1>2, <1>3, <1>4, <1>5, <1>6, <1>7, <1>8, <1>9, <1>10, <1>11, <1>12

\* The accounts have their types, always.
LEMMA TypesHold == Spec => []Typed(accounts)
<1>1. Init => Typed(accounts)
  BY SetUpTyped, NetworkAssumption DEF Init
<1>2. Typed(accounts) /\ [Next]_vars => Typed(accounts)'
  <2>1. ASSUME Typed(accounts), [Next]_vars PROVE Typed(accounts')
    BY <2>1, TypedStep
  <2> QED BY <2>1 DEF Typed, ContentRight
<1> QED BY <1>1, <1>2, PTL DEF Spec

\* A behaviour is about one topic.
LEMMA TopicStays == Spec => [](topic \in Topics)
<1>1. Init => topic \in Topics
  BY DEF Init
<1>2. topic \in Topics /\ [Next]_vars => (topic \in Topics)'
  BY DEF Next, vars, NodeCall, ClusterCall, DiscoveryCall, ProgramCall, ComputationCall, claim_failure,
         KeyCall, RecoveryCall, StakingCall, NodesTakeOne, TimePasses, Send,
         DiscoverClusters, LookUpCluster, CountMxes, CountFails, ReturnInfos
<1> QED BY <1>1, <1>2, PTL DEF Spec

\* A cluster is being counted exactly when the discovery says so.
Counting ==
  /\ discovery.pc \in {"idle", "look", "count", "returned", "failed"}
  /\ discovery.pc = "count" <=> discovery.at # None

\* It stays so.
LEMMA CountingStays == Spec => []Counting
<1>1. Init => Counting
  BY DEF Init, Counting, Idle
<1>2. Counting /\ CountsOne /\ DiscoveryInv /\ [Next]_vars => Counting'
  <2> SUFFICES ASSUME Counting, CountsOne, DiscoveryInv, [Next]_vars PROVE Counting'
    OBVIOUS
  <2>1. CASE UNCHANGED discovery
    BY <2>1 DEF Counting
  <2>2. CASE DiscoverClusters
    BY <2>2 DEF DiscoverClusters, Idle, Counting
  <2>3. CASE LookUpCluster
    <3>1. PICK c, offset :
            /\ c \in DOMAIN discovery.clusters
            /\ discovery' = IF offset = None
                              THEN [discovery EXCEPT !.infos = Entry(c, Info(None, 0)) ++ @]
                              ELSE [discovery EXCEPT !.pc = "count", !.at = c, !.offset = offset]
      BY <2>3 DEF LookUpCluster
    <3>2. c # None
      BY <3>1, InstanceAssumption DEF DiscoveryInv, KnownClusters
    <3>3. CASE offset = None
      <4>1. discovery'.pc = discovery.pc /\ discovery'.at = discovery.at
        BY <3>1, <3>3 DEF CountsOne
      <4> QED BY <4>1 DEF Counting
    <3>4. CASE offset # None
      <4>1. discovery'.pc = "count" /\ discovery'.at = c
        BY <3>1, <3>4 DEF CountsOne
      <4> QED BY <4>1, <3>2 DEF Counting
    <3> QED BY <3>3, <3>4
  <2>4. CASE CountMxes
    <3>1. discovery'.pc = "look" /\ discovery'.at = None
      BY <2>4 DEF CountMxes, CountsOne
    <3> QED BY <3>1 DEF Counting
  <2>5. CASE CountFails
    BY <2>5 DEF CountFails, Idle, Counting
  <2>6. CASE ReturnInfos
    <3>1. discovery'.pc = "returned" /\ discovery'.at = discovery.at /\ discovery.pc = "look"
      BY <2>6 DEF ReturnInfos, CountsOne
    <3> QED BY <3>1 DEF Counting
  <2> QED BY <2>1, <2>2, <2>3, <2>4, <2>5, <2>6, StepsOfDiscovery
<1>3. Init => DiscoveryInv
  BY DEF Init, DiscoveryInv, KnownClusters, Idle
<1> QED BY <1>1, <1>2, <1>3, DiscoveryStep, CountsOneHolds, ChainHolds, PTL DEF Spec

\* The accounts are of the kinds the library derives and hold what those hold, the pools
\* of every cluster have the shape their readers suppose, and a discovery knows clusters
\* of the chain, whatever is sent, and however long the time goes on.
THEOREM NetworkTypes == Spec => []TypeOK
<1>1. topic \in Topics /\ Typed(accounts) /\ Sound(accounts) /\ Counting /\ DiscoveryInv => TypeOK
  <2> SUFFICES ASSUME topic \in Topics, Typed(accounts), Sound(accounts), Counting, DiscoveryInv
               PROVE  TypeOK
    OBVIOUS
  <2>q. QueueInv(accounts)
    BY DEF Sound
  <2>1. ASSUME NEW a \in DOMAIN accounts
        PROVE  CASE a[1] = "Mempool"  -> IsPool(accounts[a])
                 [] a[1] = "Execpool" -> Len(accounts[a]) = PoolSize
                 [] OTHER             -> accounts[a] \in ContentOf(a[1])
    <3>1. ContentRight(a, accounts[a])
      BY DEF Typed
    <3>2. CASE a[1] = "Mempool"
      <4>1. a = mempool_acc(a[2])
        BY <3>1, <3>2 DEF ContentRight
      <4>2. IsPool(accounts[a])
        BY <4>1, <2>q DEF QueueInv, Holds
      <4> QED BY <3>2, <4>2
    <3>3. CASE a[1] = "Execpool"
      <4>1. a = execpool_acc(a[2])
        BY <3>1, <3>3 DEF ContentRight
      <4>2. mempool_acc(a[2]) \in DOMAIN accounts
        BY <4>1, <2>q DEF QueueInv
      <4>3. Runs(accounts[execpool_acc(a[2])], RefsAt(accounts, a[2], "executing"))
        BY <4>2, <2>q DEF QueueInv
      <4>4. Len(accounts[a]) = PoolSize
        BY <4>1, <4>3 DEF Runs
      <4> QED BY <3>3, <4>4
    <3>4. CASE a[1] \notin {"Mempool", "Execpool"}
      BY <3>1, <3>4 DEF ContentRight
    <3> QED BY <3>2, <3>3, <3>4
  <2> QED BY <2>1 DEF TypeOK, Counting, DiscoveryInv, KnownClusters
<1>2. Init => DiscoveryInv
  BY DEF Init, DiscoveryInv, KnownClusters, Idle
<1>3. Spec => []DiscoveryInv
  BY <1>2, DiscoveryStep, CountsOneHolds, ChainHolds, PTL DEF Spec
<1> QED BY <1>1, <1>3, TypesHold, TopicStays, CountingStays, ChainHolds, PTL

-----------------------------------------------------------------------------
(* What an instruction names and who signs it. *)

\* If the accounts that other addresses follow from are there, it names the addresses
\* it is asked to name,
Named(acc, ix) == SourcesExist(acc, ix) => AddressesMatch(acc, ix)

\* and it is to be signed by these keys.
Right(acc, ix, keys) == Named(acc, ix) /\ RequiredKeys(ix) = keys

\* The network, its nodes and its clusters.
LEMMA NetworkNames ==
  ASSUME NEW acc, NEW s, NEW w, NEW n, NEW c, NEW join
  PROVE  /\ Right(acc, init_network_program_ix(s), {s})
         /\ Right(acc, update_current_epoch_idempotent_ix, {})
         /\ Right(acc, init_node_operator_acc_ix(s), {s})
         /\ Right(acc, init_arx_node_acc_ix(s, w, n), {s})
         /\ Right(acc, set_arx_node_config_ix(s, n), {s})
         /\ Right(acc, set_arx_node_metadata_ix(s, n), {s})
         /\ Right(acc, init_recovery_peer_acc_ix(s, n), {s})
         /\ Right(acc, init_cluster_ix(s, w, c), {s})
         /\ Right(acc, increase_mempool_size_ix(s, c), {s})
         /\ Right(acc, set_cluster_authority_ix(s, c), {s})
         /\ Right(acc, bump_epoch_cluster_ix(c), {})
         /\ Right(acc, activate_arx_ix(s, n), {s})
         /\ Right(acc, activate_cluster_ix(s, c), {s})
         /\ Right(acc, deactivate_cluster_ix(s, c), {s})
<1> USE DEF Right, Named, AddressesMatch, Prescribed, RequiredKeys, SignerRoles, Ix
<1>1. Right(acc, init_network_program_ix(s), {s})
  BY DEF init_network_program_ix
<1>2. Right(acc, update_current_epoch_idempotent_ix, {})
  BY DEF update_current_epoch_idempotent_ix
<1>3. Right(acc, init_node_operator_acc_ix(s), {s})
  BY DEF init_node_operator_acc_ix
<1>4. Right(acc, init_arx_node_acc_ix(s, w, n), {s})
  BY DEF init_arx_node_acc_ix
<1>5. Right(acc, set_arx_node_config_ix(s, n), {s})
  BY DEF set_arx_node_config_ix
<1>6. Right(acc, set_arx_node_metadata_ix(s, n), {s})
  BY DEF set_arx_node_metadata_ix
<1>7. Right(acc, init_recovery_peer_acc_ix(s, n), {s})
  BY DEF init_recovery_peer_acc_ix
<1>8. Right(acc, init_cluster_ix(s, w, c), {s})
  BY DEF init_cluster_ix, ClusterOf
<1>9. Right(acc, increase_mempool_size_ix(s, c), {s})
  BY DEF increase_mempool_size_ix, ClusterOf
<1>10. Right(acc, set_cluster_authority_ix(s, c), {s})
  BY DEF set_cluster_authority_ix, ClusterOf
<1>11. Right(acc, bump_epoch_cluster_ix(c), {})
  BY DEF bump_epoch_cluster_ix, ClusterOf
<1>12. Right(acc, activate_arx_ix(s, n), {s})
  BY DEF activate_arx_ix
<1>13. Right(acc, activate_cluster_ix(s, c), {s})
  BY DEF activate_cluster_ix, ClusterOf
<1>14. Right(acc, deactivate_cluster_ix(s, c), {s})
  BY DEF deactivate_cluster_ix, ClusterOf
<1> QED BY <1>1, <1>2, <1>3, <1>4, <1>5, <1>6, <1>7, <1>8, <1>9, <1>10, <1>11, <1>12, <1>13, <1>14

\* A node, and the cluster its caller has read it is in, if it is in one.
LEMMA LeaverNames ==
  ASSUME NEW acc, NEW s, NEW n, NEW d,
         acc[arx_acc(n)].cluster_membership.cluster = d
  PROVE  /\ Right(acc, deactivate_arx_ix(s, n, d), {s})
<1> USE DEF Right, Named, AddressesMatch, Prescribed, RequiredKeys, SignerRoles, Ix
<1>1. Right(acc, deactivate_arx_ix(s, n, d), {s})
  BY DEF deactivate_arx_ix, ClusterOf, arx_acc, cluster_acc
<1> QED BY <1>1

\* Nodes and the cluster they are in.
LEMMA MembersNames ==
  ASSUME NEW acc, NEW s, NEW w, NEW n, NEW c, NEW join
  PROVE  /\ Right(acc, propose_join_cluster_ix(s, c, n), {s})
         /\ Right(acc, join_cluster_ix(s, c, n, join), {s})
         /\ Right(acc, propose_fee_ix(s, c, n), {s})
         /\ Right(acc, vote_fee_ix(s, c, n), {s})
         /\ Right(acc, submit_aggregated_bls_pubkey_ix(s, c, n), {s})
         /\ Right(acc, claim_node_fees_ix(s, c, n, w), {s})
<1> USE DEF Right, Named, AddressesMatch, Prescribed, RequiredKeys, SignerRoles, Ix
<1>1. Right(acc, propose_join_cluster_ix(s, c, n), {s})
  BY DEF propose_join_cluster_ix, NodeInClusterArgs, ClusterOf
<1>2. Right(acc, join_cluster_ix(s, c, n, join), {s})
  BY DEF join_cluster_ix, NodeInCluster, NodeInClusterArgs, ClusterOf
<1>3. Right(acc, propose_fee_ix(s, c, n), {s})
  BY DEF propose_fee_ix, NodeInCluster, NodeInClusterArgs, ClusterOf
<1>4. Right(acc, vote_fee_ix(s, c, n), {s})
  BY DEF vote_fee_ix, NodeInCluster, NodeInClusterArgs, ClusterOf
<1>5. Right(acc, submit_aggregated_bls_pubkey_ix(s, c, n), {s})
  BY DEF submit_aggregated_bls_pubkey_ix, NodeInCluster, NodeInClusterArgs, ClusterOf
<1>6. Right(acc, claim_node_fees_ix(s, c, n, w), {s})
  BY DEF claim_node_fees_ix, NodeInClusterArgs, ClusterOf
<1> QED BY <1>1, <1>2, <1>3, <1>4, <1>5, <1>6

\* A program, its circuits and its own computations.
LEMMA ProgramsNames ==
  ASSUME NEW acc, NEW s, NEW p, NEW c, NEW k, NEW r, NEW d, NEW slot
  PROVE  /\ Right(acc, init_mxe_part1_ix(s, p), {s})
         /\ Right(acc, init_mxe_part2_ix(s, p, c, k, r, slot), {s})
         /\ Right(acc, set_cluster_ix(s, p, c), {s})
         /\ Right(acc, init_computation_definition_ix(s, d, p, slot), {s})
         /\ Right(acc, init_raw_circuit_acc_ix(s, d, p, k), {s})
         /\ Right(acc, upload_circuit_ix(s, p, d, k), {s})
         /\ Right(acc, embiggen_raw_circuit_acc_ix(s, d, p, k), {s})
         /\ Right(acc, finalize_computation_definition_ix(s, d, p), {s})
         /\ Right(acc, recover_mxe_ix(s, p), {s})
         /\ Right(acc, claim_failure_append_ix(s, p, k, r, slot), {s})
         /\ Right(acc, reclaim_failure_rent_idempotent_ix(s, d, p, k), {s})
         /\ Right(acc, callback_computation_ix_user(p, <<>>, d), {})
         /\ Right(acc, queue_key_recovery_init_ix(s, p, c, acc[mxe_acc(p)].key_recovery_init_offset), {s})
         /\ Right(acc, requeue_mxe_keygen_ix(s, p, c, acc[mxe_acc(p)].keygen_offset), {s})
<1> USE DEF Right, Named, AddressesMatch, Prescribed, RequiredKeys, SignerRoles, Ix
<1>1. Right(acc, init_mxe_part1_ix(s, p), {s})
  BY DEF init_mxe_part1_ix, Program
<1>2. Right(acc, init_mxe_part2_ix(s, p, c, k, r, slot), {s})
  BY DEF init_mxe_part2_ix, Program, ClusterOf, ComputationOf, MXE_KEYGEN_OFFSET
<1>3. Right(acc, set_cluster_ix(s, p, c), {s})
  BY DEF set_cluster_ix, Program, ClusterOf
<1>4. Right(acc, init_computation_definition_ix(s, d, p, slot), {s})
  BY DEF init_computation_definition_ix, Program
<1>5. Right(acc, init_raw_circuit_acc_ix(s, d, p, k), {s})
  BY DEF init_raw_circuit_acc_ix, Program, CircuitChunk, CircuitChunkArgs
<1>6. Right(acc, upload_circuit_ix(s, p, d, k), {s})
  BY DEF upload_circuit_ix, Program, CircuitChunk, CircuitChunkArgs
<1>7. Right(acc, embiggen_raw_circuit_acc_ix(s, d, p, k), {s})
  BY DEF embiggen_raw_circuit_acc_ix, Program, CircuitChunk, CircuitChunkArgs
<1>8. Right(acc, finalize_computation_definition_ix(s, d, p), {s})
  BY DEF finalize_computation_definition_ix, Program, CircuitChunk
<1>9. Right(acc, recover_mxe_ix(s, p), {s})
  BY DEF recover_mxe_ix, Program
<1>10. Right(acc, claim_failure_append_ix(s, p, k, r, slot), {s})
  BY DEF claim_failure_append_ix, Program
<1>11. Right(acc, reclaim_failure_rent_idempotent_ix(s, d, p, k), {s})
  BY DEF reclaim_failure_rent_idempotent_ix, Program
<1>12. Right(acc, callback_computation_ix_user(p, <<>>, d), {})
  BY DEF callback_computation_ix_user, Program
<1>13. Right(acc, queue_key_recovery_init_ix(s, p, c, acc[mxe_acc(p)].key_recovery_init_offset), {s})
  BY DEF queue_key_recovery_init_ix, Program, ClusterOf, ComputationOf, MXE_KEY_RECOVERY_INIT_OFFSET
<1>14. Right(acc, requeue_mxe_keygen_ix(s, p, c, acc[mxe_acc(p)].keygen_offset), {s})
  BY DEF requeue_mxe_keygen_ix, Program, ClusterOf, ComputationOf
<1> QED BY <1>1, <1>2, <1>3, <1>4, <1>5, <1>6, <1>7, <1>8, <1>9, <1>10, <1>11, <1>12, <1>13, <1>14

\* The computations and the keys of a program, whose cluster the caller has read.
LEMMA ClusterNames ==
  ASSUME NEW acc, NEW s, NEW p, NEW n, NEW d, NEW o, NEW len, NEW data, NEW c,
         acc[mxe_acc(p)].cluster = c,
         data.cluster = c
  PROVE  /\ Right(acc, queue_computation_ix(s, p, o, d, data), {s, signer_acc(p)})
         /\ Right(acc, callback_computation_ix(s, p, o, d, n, c), {s})
         /\ Right(acc, claim_failure_init_ix(s, p, c, acc[computation_acc(c, o)].def, o, n, len), {s})
         /\ Right(acc, claim_failure_finalize_ix(s, p, c, o, n), {s})
         /\ Right(acc, finalize_mxe_keys_ix(s, p, c), {s})
         /\ Right(acc, set_mxe_keys_ix(s, p, n, c), {s})
<1> USE DEF Right, Named, AddressesMatch, Prescribed, RequiredKeys, SignerRoles, Ix
<1>1. Right(acc, queue_computation_ix(s, p, o, d, data), {s, signer_acc(p)})
  BY DEF queue_computation_ix, Program, ClusterOf, ComputationOf
<1>2. Right(acc, callback_computation_ix(s, p, o, d, n, c), {s})
  BY DEF callback_computation_ix, Program, ClusterOf, ComputationOf
<1>3. Right(acc, claim_failure_init_ix(s, p, c, acc[computation_acc(c, o)].def, o, n, len), {s})
  BY DEF claim_failure_init_ix, Program, ClusterOf, ComputationOf
<1>4. Right(acc, claim_failure_finalize_ix(s, p, c, o, n), {s})
  BY DEF claim_failure_finalize_ix, Program, ClusterOf, ComputationOf
<1>5. Right(acc, finalize_mxe_keys_ix(s, p, c), {s})
  BY DEF finalize_mxe_keys_ix, Program, ClusterOf, ComputationOf
<1>6. Right(acc, set_mxe_keys_ix(s, p, n, c), {s})
  BY DEF set_mxe_keys_ix, Program, NodeOfMxe, NodeOfMxeArgs, ClusterOf, ComputationOf
<1> QED BY <1>1, <1>2, <1>3, <1>4, <1>5, <1>6

\* The same with the shares for a recovery,
LEMMA KeysInitNames ==
  ASSUME NEW acc, NEW s, NEW p, NEW n, NEW c,
         acc[mxe_acc(p)].cluster = c
  PROVE  Right(acc, set_mxe_recovery_keys_init_ix(s, p, n, c), {s})
<1> DEFINE ix == set_mxe_recovery_keys_init_ix(s, p, n, c)
<1>1. /\ ix.ix = "set_mxe_recovery_keys_init" /\ DOMAIN ix.accs = {"signer", "node", "mxe", "cluster_acc", "recovery_cluster_acc"}
      /\ ix.accs.signer = s
      /\ ix.accs.node = arx_acc(n)
      /\ ix.accs.mxe = mxe_acc(p)
      /\ ix.accs.cluster_acc = cluster_acc(c)
      /\ ix.accs.recovery_cluster_acc = recovery_cluster_acc(p)
  BY DEF set_mxe_recovery_keys_init_ix, Ix, ++, NodeOfMxe, NodeOfMxeArgs, RecoveryCluster
<1>2. /\ DOMAIN ix.args = {"node_offset", "mxe_program"}
      /\ ix.args.node_offset = n
      /\ ix.args.mxe_program = p
  BY DEF set_mxe_recovery_keys_init_ix, Ix, ++, NodeOfMxe, NodeOfMxeArgs, RecoveryCluster
<1> HIDE DEF ix
<1>3. AddressesMatch(acc, ix)
  BY <1>1, <1>2 DEF AddressesMatch, Prescribed, Program, ClusterOf, ComputationOf
<1>4. RequiredKeys(ix) = {s}
  BY <1>1 DEF RequiredKeys, SignerRoles
<1> QED BY <1>3, <1>4 DEF Right, Named, ix

\* with more of them,
LEMMA KeySharesNames ==
  ASSUME NEW acc, NEW s, NEW p, NEW n, NEW c,
         acc[mxe_acc(p)].cluster = c
  PROVE  Right(acc, extend_recovery_keyshares_ix(s, p, n, c), {s})
<1> DEFINE ix == extend_recovery_keyshares_ix(s, p, n, c)
<1>1. /\ ix.ix = "extend_recovery_keyshares" /\ DOMAIN ix.accs = {"signer", "node", "mxe", "cluster_acc", "recovery_cluster_acc"}
      /\ ix.accs.signer = s
      /\ ix.accs.node = arx_acc(n)
      /\ ix.accs.mxe = mxe_acc(p)
      /\ ix.accs.cluster_acc = cluster_acc(c)
      /\ ix.accs.recovery_cluster_acc = recovery_cluster_acc(p)
  BY DEF extend_recovery_keyshares_ix, Ix, ++, NodeOfMxe, NodeOfMxeArgs, RecoveryCluster
<1>2. /\ DOMAIN ix.args = {"node_offset", "mxe_program"}
      /\ ix.args.node_offset = n
      /\ ix.args.mxe_program = p
  BY DEF extend_recovery_keyshares_ix, Ix, ++, NodeOfMxe, NodeOfMxeArgs, RecoveryCluster
<1> HIDE DEF ix
<1>3. AddressesMatch(acc, ix)
  BY <1>1, <1>2 DEF AddressesMatch, Prescribed, Program, ClusterOf, ComputationOf
<1>4. RequiredKeys(ix) = {s}
  BY <1>1 DEF RequiredKeys, SignerRoles
<1> QED BY <1>3, <1>4 DEF Right, Named, ix

\* and with the computation that has brought them.
LEMMA KeysUploadNames ==
  ASSUME NEW acc, NEW s, NEW p, NEW n, NEW c, NEW o,
         acc[mxe_acc(p)].cluster = c
  PROVE  Right(acc, finalize_key_recovery_shares_upload_ix(s, p, n, c, o), {s})
<1> DEFINE ix == finalize_key_recovery_shares_upload_ix(s, p, n, c, o)
<1>1. /\ ix.ix = "finalize_key_recovery_shares_upload" /\ DOMAIN ix.accs = {"signer", "node", "mxe", "cluster_acc", "recovery_cluster_acc", "comp"}
      /\ ix.accs.signer = s
      /\ ix.accs.node = arx_acc(n)
      /\ ix.accs.mxe = mxe_acc(p)
      /\ ix.accs.cluster_acc = cluster_acc(c)
      /\ ix.accs.recovery_cluster_acc = recovery_cluster_acc(p)
      /\ ix.accs.comp = computation_acc(c, o)
  BY DEF finalize_key_recovery_shares_upload_ix, Ix, ++, NodeOfMxe, NodeOfMxeArgs, RecoveryCluster
<1>2. /\ DOMAIN ix.args = {"node_offset", "mxe_program", "computation_offset"}
      /\ ix.args.node_offset = n
      /\ ix.args.mxe_program = p
      /\ ix.args.computation_offset = o
  BY DEF finalize_key_recovery_shares_upload_ix, Ix, ++, NodeOfMxe, NodeOfMxeArgs, RecoveryCluster
<1> HIDE DEF ix
<1>3. AddressesMatch(acc, ix)
  BY <1>1, <1>2 DEF AddressesMatch, Prescribed, Program, ClusterOf, ComputationOf
<1>4. RequiredKeys(ix) = {s}
  BY <1>1 DEF RequiredKeys, SignerRoles
<1> QED BY <1>3, <1>4 DEF Right, Named, ix

\* The recovery of a program by another: it begins,
LEMMA RecoveryPart1Names ==
  ASSUME NEW acc, NEW s, NEW p, NEW q
  PROVE  Right(acc, init_key_recovery_execution_part1_ix(s, s, p, q), {s})
<1> DEFINE ix == init_key_recovery_execution_part1_ix(s, s, p, q)
<1>1. /\ ix.ix = "init_key_recovery_execution_part1" /\ DOMAIN ix.accs = {"authority", "payer", "original_mxe", "mxe_recovery_account", "original_mxe_program", "backup_mxe_program"}
      /\ ix.accs.authority = s
      /\ ix.accs.payer = s
      /\ ix.accs.original_mxe = mxe_acc(p)
      /\ ix.accs.mxe_recovery_account = mxe_recovery_acc(q, p)
      /\ ix.accs.original_mxe_program = p
      /\ ix.accs.backup_mxe_program = q
  BY DEF init_key_recovery_execution_part1_ix, Ix, ++, Recovery, RecoveryArgs, RecoveryDef, RecoveryCluster, MXE_KEY_RECOVERY_FINALIZE_OFFSET
<1>2. /\ DOMAIN ix.args = {"original_mxe_program", "backup_mxe_program"}
      /\ ix.args.original_mxe_program = p
      /\ ix.args.backup_mxe_program = q
  BY DEF init_key_recovery_execution_part1_ix, Ix, ++, Recovery, RecoveryArgs, RecoveryDef, RecoveryCluster, MXE_KEY_RECOVERY_FINALIZE_OFFSET
<1> HIDE DEF ix
<1>3. AddressesMatch(acc, ix)
  BY <1>1, <1>2 DEF AddressesMatch, Prescribed, Program, ClusterOf, ComputationOf
<1>4. RequiredKeys(ix) = {s}
  BY <1>1 DEF RequiredKeys, SignerRoles
<1> QED BY <1>3, <1>4 DEF Right, Named, ix

\* has a definition,
LEMMA RecoveryPart2Names ==
  ASSUME NEW acc, NEW s, NEW p, NEW q
  PROVE  Right(acc, init_key_recovery_execution_part2_ix(s, p, q), {s})
<1> DEFINE ix == init_key_recovery_execution_part2_ix(s, p, q)
<1>1. /\ ix.ix = "init_key_recovery_execution_part2" /\ DOMAIN ix.accs = {"authority", "payer", "backup_mxe", "key_recovery_finalize_comp_def", "recovery_cluster_acc", "original_mxe", "mxe_recovery_account", "original_mxe_program", "backup_mxe_program"}
      /\ ix.accs.authority = s
      /\ ix.accs.payer = s
      /\ ix.accs.backup_mxe = mxe_acc(q)
      /\ ix.accs.key_recovery_finalize_comp_def = computation_definition_acc(q, 3)
      /\ ix.accs.recovery_cluster_acc = recovery_cluster_acc(p)
      /\ ix.accs.original_mxe = mxe_acc(p)
      /\ ix.accs.mxe_recovery_account = mxe_recovery_acc(q, p)
      /\ ix.accs.original_mxe_program = p
      /\ ix.accs.backup_mxe_program = q
  BY DEF init_key_recovery_execution_part2_ix, Ix, ++, Recovery, RecoveryArgs, RecoveryDef, RecoveryCluster, MXE_KEY_RECOVERY_FINALIZE_OFFSET
<1>2. /\ DOMAIN ix.args = {"original_mxe_program", "backup_mxe_program"}
      /\ ix.args.original_mxe_program = p
      /\ ix.args.backup_mxe_program = q
  BY DEF init_key_recovery_execution_part2_ix, Ix, ++, Recovery, RecoveryArgs, RecoveryDef, RecoveryCluster, MXE_KEY_RECOVERY_FINALIZE_OFFSET
<1> HIDE DEF ix
<1>3. AddressesMatch(acc, ix)
  BY <1>1, <1>2 DEF AddressesMatch, Prescribed, Program, ClusterOf, ComputationOf
<1>4. RequiredKeys(ix) = {s}
  BY <1>1 DEF RequiredKeys, SignerRoles
<1> QED BY <1>3, <1>4 DEF Right, Named, ix

\* is given shares,
LEMMA RecoveryShareNames ==
  ASSUME NEW acc, NEW s, NEW p, NEW q, NEW n
  PROVE  Right(acc, submit_key_recovery_share_ix(s, p, q, n), {s})
<1> DEFINE ix == submit_key_recovery_share_ix(s, p, q, n)
<1>1. /\ ix.ix = "submit_key_recovery_share" /\ DOMAIN ix.accs = {"signer", "recovery_peer_account", "recovery_cluster_acc", "original_mxe", "mxe_recovery_account", "original_mxe_program", "backup_mxe_program"}
      /\ ix.accs.signer = s
      /\ ix.accs.recovery_peer_account = recovery_peer_acc(n)
      /\ ix.accs.recovery_cluster_acc = recovery_cluster_acc(p)
      /\ ix.accs.original_mxe = mxe_acc(p)
      /\ ix.accs.mxe_recovery_account = mxe_recovery_acc(q, p)
      /\ ix.accs.original_mxe_program = p
      /\ ix.accs.backup_mxe_program = q
  BY DEF submit_key_recovery_share_ix, Ix, ++, Recovery, RecoveryArgs, RecoveryDef, RecoveryCluster, MXE_KEY_RECOVERY_FINALIZE_OFFSET
<1>2. /\ DOMAIN ix.args = {"original_mxe_program", "backup_mxe_program", "peer_offset"}
      /\ ix.args.original_mxe_program = p
      /\ ix.args.backup_mxe_program = q
      /\ ix.args.peer_offset = n
  BY DEF submit_key_recovery_share_ix, Ix, ++, Recovery, RecoveryArgs, RecoveryDef, RecoveryCluster, MXE_KEY_RECOVERY_FINALIZE_OFFSET
<1> HIDE DEF ix
<1>3. AddressesMatch(acc, ix)
  BY <1>1, <1>2 DEF AddressesMatch, Prescribed, Program, ClusterOf, ComputationOf
<1>4. RequiredKeys(ix) = {s}
  BY <1>1 DEF RequiredKeys, SignerRoles
<1> QED BY <1>3, <1>4 DEF Right, Named, ix

\* has a computation, which its account names,
LEMMA RecoveryFinalizedNames ==
  ASSUME NEW acc, NEW s, NEW p, NEW q, NEW c, NEW o,
         acc[mxe_recovery_acc(q, p)].key_recovery_finalize_offset = o
  PROVE  Right(acc, finalize_key_recovery_execution_ix(s, s, p, q, c, o), {s})
<1> DEFINE ix == finalize_key_recovery_execution_ix(s, s, p, q, c, o)
<1>1. /\ ix.ix = "finalize_key_recovery_execution" /\ DOMAIN ix.accs = {"authority", "payer", "backup_mxe", "key_recovery_finalize_comp_def", "key_recovery_finalize_computation", "executing_pool", "mempool", "recovery_cluster_acc", "original_mxe", "mxe_recovery_account", "original_mxe_program", "backup_mxe_program"}
      /\ ix.accs.authority = s
      /\ ix.accs.payer = s
      /\ ix.accs.backup_mxe = mxe_acc(q)
      /\ ix.accs.key_recovery_finalize_comp_def = computation_definition_acc(q, 3)
      /\ ix.accs.key_recovery_finalize_computation = computation_acc(c, o)
      /\ ix.accs.executing_pool = execpool_acc(c)
      /\ ix.accs.mempool = mempool_acc(c)
      /\ ix.accs.recovery_cluster_acc = recovery_cluster_acc(p)
      /\ ix.accs.original_mxe = mxe_acc(p)
      /\ ix.accs.mxe_recovery_account = mxe_recovery_acc(q, p)
      /\ ix.accs.original_mxe_program = p
      /\ ix.accs.backup_mxe_program = q
  BY DEF finalize_key_recovery_execution_ix, Ix, ++, Recovery, RecoveryArgs, RecoveryDef, RecoveryCluster, MXE_KEY_RECOVERY_FINALIZE_OFFSET
<1>2. /\ DOMAIN ix.args = {"original_mxe_program", "backup_mxe_program", "cluster_offset"}
      /\ ix.args.original_mxe_program = p
      /\ ix.args.backup_mxe_program = q
      /\ ix.args.cluster_offset = c
  BY DEF finalize_key_recovery_execution_ix, Ix, ++, Recovery, RecoveryArgs, RecoveryDef, RecoveryCluster, MXE_KEY_RECOVERY_FINALIZE_OFFSET
<1> HIDE DEF ix
<1>3. AddressesMatch(acc, ix)
  BY <1>1, <1>2 DEF AddressesMatch, Prescribed, Program, ClusterOf, ComputationOf
<1>4. RequiredKeys(ix) = {s}
  BY <1>1 DEF RequiredKeys, SignerRoles
<1> QED BY <1>3, <1>4 DEF Right, Named, ix

\* and another if that has ended in vain,
LEMMA RecoveryRequeuedNames ==
  ASSUME NEW acc, NEW s, NEW p, NEW q, NEW c, NEW k, NEW o,
         acc[mxe_recovery_acc(q, p)].key_recovery_finalize_offset = o
  PROVE  Right(acc, requeue_key_recovery_finalize_ix(s, s, p, q, c, k, o), {s})
<1> DEFINE ix == requeue_key_recovery_finalize_ix(s, s, p, q, c, k, o)
<1>1. /\ ix.ix = "requeue_key_recovery_finalize" /\ DOMAIN ix.accs = {"authority", "payer", "backup_mxe", "key_recovery_finalize_comp_def", "previous_computation", "new_computation", "executing_pool", "mempool", "original_mxe", "mxe_recovery_account", "original_mxe_program", "backup_mxe_program"}
      /\ ix.accs.authority = s
      /\ ix.accs.payer = s
      /\ ix.accs.backup_mxe = mxe_acc(q)
      /\ ix.accs.key_recovery_finalize_comp_def = computation_definition_acc(q, 3)
      /\ ix.accs.previous_computation = computation_acc(c, o)
      /\ ix.accs.new_computation = computation_acc(c, k)
      /\ ix.accs.executing_pool = execpool_acc(c)
      /\ ix.accs.mempool = mempool_acc(c)
      /\ ix.accs.original_mxe = mxe_acc(p)
      /\ ix.accs.mxe_recovery_account = mxe_recovery_acc(q, p)
      /\ ix.accs.original_mxe_program = p
      /\ ix.accs.backup_mxe_program = q
  BY DEF requeue_key_recovery_finalize_ix, Ix, ++, Recovery, RecoveryArgs, RecoveryDef, RecoveryCluster, MXE_KEY_RECOVERY_FINALIZE_OFFSET
<1>2. /\ DOMAIN ix.args = {"original_mxe_program", "backup_mxe_program", "cluster_offset", "new_key_recovery_finalize_offset"}
      /\ ix.args.original_mxe_program = p
      /\ ix.args.backup_mxe_program = q
      /\ ix.args.cluster_offset = c
      /\ ix.args.new_key_recovery_finalize_offset = k
  BY DEF requeue_key_recovery_finalize_ix, Ix, ++, Recovery, RecoveryArgs, RecoveryDef, RecoveryCluster, MXE_KEY_RECOVERY_FINALIZE_OFFSET
<1> HIDE DEF ix
<1>3. AddressesMatch(acc, ix)
  BY <1>1, <1>2 DEF AddressesMatch, Prescribed, Program, ClusterOf, ComputationOf
<1>4. RequiredKeys(ix) = {s}
  BY <1>1 DEF RequiredKeys, SignerRoles
<1> QED BY <1>3, <1>4 DEF Right, Named, ix

\* which comes to its end,
LEMMA RecoveryEndedNames ==
  ASSUME NEW acc, NEW s, NEW p, NEW q, NEW c, NEW o, NEW n
  PROVE  Right(acc, finalize_key_recovery_callback_ix(s, p, q, c, o, n), {s})
<1> DEFINE ix == finalize_key_recovery_callback_ix(s, p, q, c, o, n)
<1>1. /\ ix.ix = "finalize_key_recovery_callback" /\ DOMAIN ix.accs = {"signer", "backup_mxe", "computation", "comp_def", "node", "cluster_acc", "executing_pool", "mempool", "original_mxe", "mxe_recovery_account", "original_mxe_program", "backup_mxe_program"}
      /\ ix.accs.signer = s
      /\ ix.accs.backup_mxe = mxe_acc(q)
      /\ ix.accs.computation = computation_acc(c, o)
      /\ ix.accs.comp_def = computation_definition_acc(q, 3)
      /\ ix.accs.node = arx_acc(n)
      /\ ix.accs.cluster_acc = cluster_acc(c)
      /\ ix.accs.executing_pool = execpool_acc(c)
      /\ ix.accs.mempool = mempool_acc(c)
      /\ ix.accs.original_mxe = mxe_acc(p)
      /\ ix.accs.mxe_recovery_account = mxe_recovery_acc(q, p)
      /\ ix.accs.original_mxe_program = p
      /\ ix.accs.backup_mxe_program = q
  BY DEF finalize_key_recovery_callback_ix, Ix, ++, Recovery, RecoveryArgs, RecoveryDef, RecoveryCluster, MXE_KEY_RECOVERY_FINALIZE_OFFSET
<1>2. /\ DOMAIN ix.args = {"original_mxe_program", "backup_mxe_program", "cluster_offset", "comp_offset", "node_offset"}
      /\ ix.args.original_mxe_program = p
      /\ ix.args.backup_mxe_program = q
      /\ ix.args.cluster_offset = c
      /\ ix.args.comp_offset = o
      /\ ix.args.node_offset = n
  BY DEF finalize_key_recovery_callback_ix, Ix, ++, Recovery, RecoveryArgs, RecoveryDef, RecoveryCluster, MXE_KEY_RECOVERY_FINALIZE_OFFSET
<1> HIDE DEF ix
<1>3. AddressesMatch(acc, ix)
  BY <1>1, <1>2 DEF AddressesMatch, Prescribed, Program, ClusterOf, ComputationOf
<1>4. RequiredKeys(ix) = {s}
  BY <1>1 DEF RequiredKeys, SignerRoles
<1> QED BY <1>3, <1>4 DEF Right, Named, ix

\* and is closed.
LEMMA RecoveryClosedNames ==
  ASSUME NEW acc, NEW s, NEW p, NEW q
  PROVE  Right(acc, close_key_recovery_ix(s, p, q), {s})
<1> DEFINE ix == close_key_recovery_ix(s, p, q)
<1>1. /\ ix.ix = "close_key_recovery" /\ DOMAIN ix.accs = {"authority", "backup_mxe", "key_recovery_finalize_comp_def", "original_mxe", "mxe_recovery_account", "original_mxe_program", "backup_mxe_program"}
      /\ ix.accs.authority = s
      /\ ix.accs.backup_mxe = mxe_acc(q)
      /\ ix.accs.key_recovery_finalize_comp_def = computation_definition_acc(q, 3)
      /\ ix.accs.original_mxe = mxe_acc(p)
      /\ ix.accs.mxe_recovery_account = mxe_recovery_acc(q, p)
      /\ ix.accs.original_mxe_program = p
      /\ ix.accs.backup_mxe_program = q
  BY DEF close_key_recovery_ix, Ix, ++, Recovery, RecoveryArgs, RecoveryDef, RecoveryCluster, MXE_KEY_RECOVERY_FINALIZE_OFFSET
<1>2. /\ DOMAIN ix.args = {"original_mxe_program", "backup_mxe_program"}
      /\ ix.args.original_mxe_program = p
      /\ ix.args.backup_mxe_program = q
  BY DEF close_key_recovery_ix, Ix, ++, Recovery, RecoveryArgs, RecoveryDef, RecoveryCluster, MXE_KEY_RECOVERY_FINALIZE_OFFSET
<1> HIDE DEF ix
<1>3. AddressesMatch(acc, ix)
  BY <1>1, <1>2 DEF AddressesMatch, Prescribed, Program, ClusterOf, ComputationOf
<1>4. RequiredKeys(ix) = {s}
  BY <1>1 DEF RequiredKeys, SignerRoles
<1> QED BY <1>3, <1>4 DEF Right, Named, ix

\* A stake that is delegated is split,
LEMMA SplitNames ==
  ASSUME NEW acc, NEW u, NEW w, NEW v, NEW k, NEW j,
         acc[delegated_stake_acc(k)].delegation_target = primary_stake_acc(u)
  PROVE  Right(acc, split_delegated_stake_account_ix(u, w, v, k, j), {w})
<1> DEFINE ix == split_delegated_stake_account_ix(u, w, v, k, j)
<1>1. /\ ix.ix = "split_delegated_stake_account" /\ DOMAIN ix.accs = {"delegation_authority", "withdrawal_authority", "delegation_master", "withdrawal_master", "stake_queue", "old_stake_account", "new_stake_account"}
      /\ ix.accs.delegation_authority = w
      /\ ix.accs.withdrawal_authority = v
      /\ ix.accs.delegation_master = stake_master_acc(w)
      /\ ix.accs.withdrawal_master = stake_master_acc(v)
      /\ ix.accs.stake_queue = stake_queue_acc(primary_stake_acc(u))
      /\ ix.accs.old_stake_account = delegated_stake_acc(k)
      /\ ix.accs.new_stake_account = delegated_stake_acc(j)
  BY DEF split_delegated_stake_account_ix, Ix, ++, StakeAuthorities
<1>2. /\ DOMAIN ix.args = {"stake_offset", "stake_offset_new"}
      /\ ix.args.stake_offset = k
      /\ ix.args.stake_offset_new = j
  BY DEF split_delegated_stake_account_ix, Ix, ++, StakeAuthorities
<1> HIDE DEF ix
<1>3. AddressesMatch(acc, ix)
  BY <1>1, <1>2 DEF AddressesMatch, Prescribed, StakeQueue
<1>4. RequiredKeys(ix) = {w}
  BY <1>1 DEF RequiredKeys, SignerRoles
<1> QED BY <1>3, <1>4 DEF Right, Named, ix

\* or merged with another.
LEMMA MergeNames ==
  ASSUME NEW acc, NEW u, NEW w, NEW v, NEW k, NEW j,
         acc[delegated_stake_acc(k)].delegation_target = primary_stake_acc(u)
  PROVE  Right(acc, merge_delegated_stake_account_ix(u, w, v, k, j), {w})
<1> DEFINE ix == merge_delegated_stake_account_ix(u, w, v, k, j)
<1>1. /\ ix.ix = "merge_delegated_stake_account" /\ DOMAIN ix.accs = {"delegation_authority", "withdrawal_authority", "delegation_master", "withdrawal_master", "stake_queue", "stake_acc_to_keep", "stake_acc_to_close"}
      /\ ix.accs.delegation_authority = w
      /\ ix.accs.withdrawal_authority = v
      /\ ix.accs.delegation_master = stake_master_acc(w)
      /\ ix.accs.withdrawal_master = stake_master_acc(v)
      /\ ix.accs.stake_queue = stake_queue_acc(primary_stake_acc(u))
      /\ ix.accs.stake_acc_to_keep = delegated_stake_acc(k)
      /\ ix.accs.stake_acc_to_close = delegated_stake_acc(j)
  BY DEF merge_delegated_stake_account_ix, Ix, ++, StakeAuthorities
<1>2. /\ DOMAIN ix.args = {"stake_offset_keep", "stake_offset_close"}
      /\ ix.args.stake_offset_keep = k
      /\ ix.args.stake_offset_close = j
  BY DEF merge_delegated_stake_account_ix, Ix, ++, StakeAuthorities
<1> HIDE DEF ix
<1>3. AddressesMatch(acc, ix)
  BY <1>1, <1>2 DEF AddressesMatch, Prescribed, StakeQueue
<1>4. RequiredKeys(ix) = {w}
  BY <1>1 DEF RequiredKeys, SignerRoles
<1> QED BY <1>3, <1>4 DEF Right, Named, ix

\* Stakes.
LEMMA StakingNames ==
  ASSUME NEW acc, NEW s, NEW w, NEW n, NEW k
  PROVE  /\ Right(acc, init_primary_stake_acc_ix(s), {s})
         /\ Right(acc, activate_primary_stake_acc_ix(s), {s})
         /\ Right(acc, deactivate_primary_stake_acc_ix(s, n), {s})
         /\ Right(acc, finalize_epoch_rewards_ix(s, w, n), {s})
         /\ Right(acc, init_delegated_stake_master_acc_ix(s, w), {s})
         /\ Right(acc, init_delegated_stake_acc_ix(s, k), {s})
         /\ Right(acc, delegate_stake_ix(s, k, w), {s})
         /\ Right(acc, undelegate_stake_ix(s, k, w), {s})
         /\ Right(acc, close_delegated_stake_ix(s, w, k), {s})
<1> USE DEF Right, Named, AddressesMatch, Prescribed, RequiredKeys, SignerRoles, Ix
<1>1. Right(acc, init_primary_stake_acc_ix(s), {s})
  BY DEF init_primary_stake_acc_ix, StakeOwner, StakeQueue
<1>2. Right(acc, activate_primary_stake_acc_ix(s), {s})
  BY DEF activate_primary_stake_acc_ix, StakeOwner
<1>3. Right(acc, deactivate_primary_stake_acc_ix(s, n), {s})
  BY DEF deactivate_primary_stake_acc_ix, StakeOwner
<1>4. Right(acc, finalize_epoch_rewards_ix(s, w, n), {s})
  BY DEF finalize_epoch_rewards_ix, StakeOwner, StakeQueue
<1>5. Right(acc, init_delegated_stake_master_acc_ix(s, w), {s})
  BY DEF init_delegated_stake_master_acc_ix, StakeOwner
<1>6. Right(acc, init_delegated_stake_acc_ix(s, k), {s})
  BY DEF init_delegated_stake_acc_ix, StakeOwner
<1>7. Right(acc, delegate_stake_ix(s, k, w), {s})
  BY DEF delegate_stake_ix, StakeOwner, StakeQueue
<1>8. Right(acc, undelegate_stake_ix(s, k, w), {s})
  BY DEF undelegate_stake_ix, StakeOwner
<1>9. Right(acc, close_delegated_stake_ix(s, w, k), {s})
  BY DEF close_delegated_stake_ix, StakeOwner
<1> QED BY <1>1, <1>2, <1>3, <1>4, <1>5, <1>6, <1>7, <1>8, <1>9

\* The token.
LEMMA TokenNames ==
  ASSUME NEW acc, NEW s, NEW w
  PROVE  /\ Right(acc, init_arcium_token_mint_ixs(s)[1], {s, arcium_mint_keypair})
         /\ Right(acc, init_arcium_token_mint_ixs(s)[2], {})
         /\ Right(acc, airdrop_arcium_token_ixs(s, w)[1], {s})
         /\ Right(acc, airdrop_arcium_token_ixs(s, w)[2], {s})
<1> USE DEF Right, Named, AddressesMatch, Prescribed, RequiredKeys, SignerRoles, Ix
<1>1. Right(acc, init_arcium_token_mint_ixs(s)[1], {s, arcium_mint_keypair})
  BY DEF init_arcium_token_mint_ixs
<1>2. Right(acc, init_arcium_token_mint_ixs(s)[2], {})
  BY DEF init_arcium_token_mint_ixs
<1>3. Right(acc, airdrop_arcium_token_ixs(s, w)[1], {s})
  BY DEF airdrop_arcium_token_ixs
<1>4. Right(acc, airdrop_arcium_token_ixs(s, w)[2], {s})
  BY DEF airdrop_arcium_token_ixs
<1> QED BY <1>1, <1>2, <1>3, <1>4

-----------------------------------------------------------------------------
(* What becomes of a transaction. *)

\* It is not refused for an address, nor for a signature but one that is known to be wrong.
Checked(acc, tx) ==
  LET refusal == Outcome(acc, tx).refusal
  IN  refusal # "address" /\ (refusal = "signature" => WronglySigned(tx))

\* It is signed as its instructions ask, or wrongly.
WellSigned(tx) == SignedRight(tx) \/ WronglySigned(tx)

\* An instruction that names what it is asked to name is not refused for that.
LEMMA NamedIsNotRefused ==
  ASSUME NEW acc, NEW ix, Named(acc, ix) PROVE Refusal(acc, ix) \notin {"address", "signature"}
BY DEF Named, Refusal

\* Neither is a transaction if each of its instructions names what it is asked to name on
\* the chain that the instructions before it have left.
LEMMA RunIsChecked ==
  ASSUME NEW acc, NEW tx, Len(tx.ixs) \in Nat, WellSigned(tx),
         NEW f, RunsTo(acc, tx, Len(tx.ixs), f),
         \A n \in 1 .. Len(tx.ixs) : f[n - 1].refusal = "none" => Named(f[n - 1].acc, tx.ixs[n])
  PROVE  Checked(acc, tx)
<1> DEFINE N == Len(tx.ixs)
           T == {n \in Nat : n <= N => f[n].refusal \notin {"address", "signature"}}
<1>2. /\ f[0] = Start(acc)
      /\ \A n \in 1 .. N : f[n] = RunStep(acc, tx, n, f[n - 1])
      /\ Outcome(acc, tx) = IF SignedRight(tx) THEN f[N] ELSE [refusal |-> "signature", acc |-> acc]
  BY DEF RunsTo
<1>3. 0 \in T
  BY <1>2 DEF Start
<1>4. ASSUME NEW n \in T PROVE n + 1 \in T
  <2> SUFFICES ASSUME n + 1 <= N PROVE f[n + 1].refusal \notin {"address", "signature"}
    OBVIOUS
  <2>1. n + 1 \in 1 .. N /\ (n + 1) - 1 = n /\ f[n].refusal \notin {"address", "signature"}
    OBVIOUS
  <2>2. f[n + 1] = RunStep(acc, tx, n + 1, f[n])
    BY <2>1, <1>2
  <2>3. f[n].refusal = "none" => Named(f[n].acc, tx.ixs[n + 1])
    BY <2>1
  <2>4. CASE f[n].refusal # "none"
    BY <2>1, <2>2, <2>4 DEF RunStep
  <2>5. CASE f[n].refusal = "none"
    <3>1. Refusal(f[n].acc, tx.ixs[n + 1]) \notin {"address", "signature"}
      BY <2>3, <2>5, NamedIsNotRefused
    <3>2. f[n + 1].refusal = Refusal(f[n].acc, tx.ixs[n + 1])
      BY <2>2, <2>5 DEF RunStep
    <3> QED BY <3>1, <3>2
  <2> QED BY <2>4, <2>5
<1>5. T = Nat
  <2> HIDE DEF T
  <2>1. T \in SUBSET Nat
    BY DEF T
  <2> QED BY <2>1, <1>3, <1>4, Ind
<1>6. f[N].refusal \notin {"address", "signature"}
  BY <1>5
<1>7. CASE SignedRight(tx)
  BY <1>2, <1>6, <1>7 DEF Checked
<1>8. CASE ~ SignedRight(tx)
  BY <1>2, <1>8 DEF Checked, WellSigned
<1> QED BY <1>7, <1>8

\* A transaction of one instruction.
LEMMA OneChecked ==
  ASSUME NEW acc, NEW ix, NEW keys, Named(acc, ix), WellSigned(Tx(<<ix>>, keys))
  PROVE  Checked(acc, Tx(<<ix>>, keys))
<1> DEFINE tx == Tx(<<ix>>, keys)
<1>1. Len(tx.ixs) = 1 /\ tx.ixs[1] = ix
  BY DEF Tx
<1> HIDE DEF tx
<1>2. Len(tx.ixs) \in Nat /\ WellSigned(tx)
  BY <1>1 DEF tx
<1>3. PICK f : RunsTo(acc, tx, Len(tx.ixs), f)
  BY <1>2, OutcomeRuns
<1>4. f[0].acc = acc
  BY <1>3 DEF RunsTo, Start
<1>5. \A n \in 1 .. Len(tx.ixs) : f[n - 1].refusal = "none" => Named(f[n - 1].acc, tx.ixs[n])
  <2>1. \A n \in 1 .. Len(tx.ixs) : n = 1 /\ n - 1 = 0
    BY <1>1
  <2> QED BY <2>1, <1>1, <1>4
<1>6. Checked(acc, tx)
  BY <1>2, <1>3, <1>5, RunIsChecked
<1> QED BY <1>6 DEF tx

\* A transaction of two, the second of which names what it is asked to name on any chain.
LEMMA PairChecked ==
  ASSUME NEW acc, NEW ix, NEW jx, NEW keys, Named(acc, ix), \A mid : Named(mid, jx),
         WellSigned(Tx(<<ix, jx>>, keys))
  PROVE  Checked(acc, Tx(<<ix, jx>>, keys))
<1> DEFINE tx == Tx(<<ix, jx>>, keys)
<1>1. Len(tx.ixs) = 2 /\ tx.ixs[1] = ix /\ tx.ixs[2] = jx
  BY DEF Tx
<1> HIDE DEF tx
<1>2. Len(tx.ixs) \in Nat /\ WellSigned(tx)
  BY <1>1 DEF tx
<1>3. PICK f : RunsTo(acc, tx, Len(tx.ixs), f)
  BY <1>2, OutcomeRuns
<1>4. f[0].acc = acc
  BY <1>3 DEF RunsTo, Start
<1>5. \A n \in 1 .. Len(tx.ixs) : f[n - 1].refusal = "none" => Named(f[n - 1].acc, tx.ixs[n])
  <2>1. \A n \in 1 .. Len(tx.ixs) : (n = 1 /\ n - 1 = 0) \/ n = 2
    BY <1>1
  <2> QED BY <2>1, <1>1, <1>4
<1>6. Checked(acc, tx)
  BY <1>2, <1>3, <1>5, RunIsChecked
<1> QED BY <1>6 DEF tx

\* Signatures of one instruction, and of two.
LEMMA Signatures ==
  ASSUME NEW ix, NEW jx, NEW keys
  PROVE  /\ SignedRight(Tx(<<ix>>, keys)) <=> RequiredKeys(ix) = keys
         /\ SignedRight(Tx(<<ix, jx>>, keys)) <=> RequiredKeys(ix) \cup RequiredKeys(jx) = keys
<1>1. ToSet(<<ix>>) = {ix} /\ ToSet(<<ix, jx>>) = {ix, jx}
  <2>1. DOMAIN <<ix>> = {1} /\ DOMAIN <<ix, jx>> = {1, 2}
    OBVIOUS
  <2> QED BY <2>1 DEF ToSet
<1>2. UNION {RequiredKeys(i) : i \in {ix}} = RequiredKeys(ix)
  OBVIOUS
<1>3. UNION {RequiredKeys(i) : i \in {ix, jx}} = RequiredKeys(ix) \cup RequiredKeys(jx)
  OBVIOUS
<1> QED BY <1>1, <1>2, <1>3 DEF SignedRight, Tx

\* A transaction of one instruction that its signer signs as it is asked to.
LEMMA SingleChecked ==
  ASSUME NEW acc, NEW ix, NEW w, Right(acc, ix, {w}) PROVE Checked(acc, Single(ix, w))
<1>1. WellSigned(Tx(<<ix>>, {w}))
  BY Signatures DEF Right, WellSigned
<1> QED BY <1>1, OneChecked DEF Right, Single

\* The same with any keys.
LEMMA RightChecked ==
  ASSUME NEW acc, NEW ix, NEW keys, Right(acc, ix, keys) PROVE Checked(acc, Tx(<<ix>>, keys))
<1>1. WellSigned(Tx(<<ix>>, keys))
  BY Signatures DEF Right, WellSigned
<1> QED BY <1>1, OneChecked DEF Right

\* Two instructions, the second of which is right on any chain.
LEMMA BothChecked ==
  ASSUME NEW acc, NEW ix, NEW jx, NEW A, NEW B, Right(acc, ix, A), \A mid : Right(mid, jx, B)
  PROVE  Checked(acc, Tx(<<ix, jx>>, A \cup B))
<1>1. WellSigned(Tx(<<ix, jx>>, A \cup B))
  BY Signatures DEF Right, WellSigned
<1> QED BY <1>1, PairChecked DEF Right

\* A claim that a computation failed leaves the accounts of programs alone until it is final.
LEMMA ClaimLeavesPrograms ==
  ASSUME NEW acc, NEW p, mxe_acc(p) \in DOMAIN acc, NEW ix,
         ix.ix \in {"claim_failure_init", "claim_failure_append"},
         ix.accs.failure_acc[1] = "FailureClaimAccountHeader"
  PROVE  mxe_acc(p) \in DOMAIN Executed(acc, ix) /\ Executed(acc, ix)[mxe_acc(p)] = acc[mxe_acc(p)]
<1> DEFINE next == Executed(acc, ix)
           m == mxe_acc(p)
<1>1. Closed(ix) = {}
  BY DEF Closed, ClosedRoles
<1>2. DOMAIN Changed(acc, ix) \subseteq {ix.accs.failure_acc}
  BY DEF Changed, QueuedRole, None, Entry, ++
<1>3. m # ix.accs.failure_acc /\ m \in DOMAIN acc
  BY DEF mxe_acc
<1>4. /\ DOMAIN next = (DOMAIN acc \cup Made(ix)) \ Closed(ix)
      /\ \A a \in DOMAIN next \ DOMAIN Changed(acc, ix) : a \in DOMAIN acc => next[a] = acc[a]
  BY Effects
<1> HIDE DEF next, m
<1>5. m \in DOMAIN next /\ next[m] = acc[m]
  BY <1>1, <1>2, <1>3, <1>4
<1> QED BY <1>5 DEF next, m

\* So its three instructions name what they are asked to name.
LEMMA ClaimChecked ==
  ASSUME NEW acc, NEW s, NEW p, NEW c, NEW d, NEW o, NEW n, NEW len, NEW at,
         mxe_acc(p) \in DOMAIN acc, acc[mxe_acc(p)].cluster = c, acc[computation_acc(c, o)].def = d
  PROVE  Checked(acc, Tx(<<claim_failure_init_ix(s, p, c, d, o, n, len),
                           claim_failure_append_ix(s, p, o, len, at),
                           claim_failure_finalize_ix(s, p, c, o, n)>>, {s}))
<1> DEFINE one == claim_failure_init_ix(s, p, c, d, o, n, len)
           two == claim_failure_append_ix(s, p, o, len, at)
           three == claim_failure_finalize_ix(s, p, c, o, n)
           tx == Tx(<<one, two, three>>, {s})
           data == [cluster |-> c]
<1>1. Right(acc, one, {s})
  BY ClusterNames
<1>2. \A mid : Right(mid, two, {s})
  BY ProgramsNames
<1>3. \A mid : mid[mxe_acc(p)].cluster = c => Right(mid, three, {s})
  <2> SUFFICES ASSUME NEW mid, mid[mxe_acc(p)].cluster = c PROVE Right(mid, three, {s})
    OBVIOUS
  <2>1. data.cluster = c
    OBVIOUS
  <2> QED BY <2>1, ClusterNames
<1>4. /\ one.ix = "claim_failure_init" /\ one.accs.failure_acc[1] = "FailureClaimAccountHeader"
      /\ two.ix = "claim_failure_append" /\ two.accs.failure_acc[1] = "FailureClaimAccountHeader"
  BY DEF claim_failure_init_ix, claim_failure_append_ix, Ix, failure_claim_acc
<1>5. /\ Len(tx.ixs) = 3 /\ tx.ixs[1] = one /\ tx.ixs[2] = two /\ tx.ixs[3] = three
      /\ ToSet(tx.ixs) = {one, two, three} /\ tx.keys = {s}
  <2> HIDE DEF one, two, three
  <2>1. DOMAIN <<one, two, three>> = {1, 2, 3}
    OBVIOUS
  <2> QED BY <2>1 DEF Tx, ToSet
<1> HIDE DEF one, two, three, tx
<1>6. WellSigned(tx)
  <2>1. RequiredKeys(one) = {s} /\ RequiredKeys(two) = {s} /\ RequiredKeys(three) = {s}
    <3>1. data.cluster = c
      OBVIOUS
    <3> QED BY <1>1, <1>2, <1>3 DEF Right
  <2>2. UNION {RequiredKeys(i) : i \in {one, two, three}} = {s}
    BY <2>1
  <2> QED BY <1>5, <2>2 DEF WellSigned, SignedRight
<1>7. PICK f : RunsTo(acc, tx, Len(tx.ixs), f)
  <2>1. Len(tx.ixs) \in Nat
    BY <1>5
  <2> QED BY <2>1, OutcomeRuns
<1>8. /\ f[0] = Start(acc) /\ f[1] = RunStep(acc, tx, 1, f[0]) /\ f[2] = RunStep(acc, tx, 2, f[1])
  <2>1. 1 \in 1 .. Len(tx.ixs) /\ 2 \in 1 .. Len(tx.ixs) /\ 1 - 1 = 0 /\ 2 - 1 = 1
    BY <1>5
  <2> QED BY <1>7, <2>1 DEF RunsTo
<1>9. f[2].refusal = "none" => f[2].acc[mxe_acc(p)].cluster = c
  <2> SUFFICES ASSUME f[2].refusal = "none" PROVE f[2].acc[mxe_acc(p)].cluster = c
    OBVIOUS
  <2>1. f[1].refusal = "none" /\ f[2].acc = Executed(f[1].acc, two)
    BY <1>5, <1>8 DEF RunStep
  <2>2. f[1].acc = Executed(acc, one)
    BY <1>5, <1>8, <2>1 DEF RunStep, Start
  <2>3. mxe_acc(p) \in DOMAIN f[1].acc /\ f[1].acc[mxe_acc(p)] = acc[mxe_acc(p)]
    BY <1>4, <2>2, ClaimLeavesPrograms
  <2>4. f[2].acc[mxe_acc(p)] = f[1].acc[mxe_acc(p)]
    BY <1>4, <2>1, <2>3, ClaimLeavesPrograms
  <2> QED BY <2>3, <2>4
<1>10. \A k \in 1 .. Len(tx.ixs) : f[k - 1].refusal = "none" => Named(f[k - 1].acc, tx.ixs[k])
  <2>1. \A k \in 1 .. 3 : (k = 1 /\ k - 1 = 0) \/ (k = 2 /\ k - 1 = 1) \/ (k = 3 /\ k - 1 = 2)
    OBVIOUS
  <2>2. Named(f[0].acc, one)
    BY <1>1, <1>8 DEF Right, Start
  <2>3. Named(f[1].acc, two)
    BY <1>2 DEF Right
  <2>4. f[2].refusal = "none" => Named(f[2].acc, three)
    BY <1>3, <1>9 DEF Right
  <2> QED BY <1>5, <2>1, <2>2, <2>3, <2>4
<1>11. Checked(acc, tx)
  <2>1. Len(tx.ixs) \in Nat
    BY <1>5
  <2> QED BY <2>1, <1>6, <1>7, <1>10, RunIsChecked
<1> QED BY <1>11 DEF tx, one, two, three

\* A wallet's own call to queue a computation, and a program's.
LEMMA QueueChecked ==
  ASSUME NEW acc, NEW w, NEW p, NEW o, NEW d, NEW data, acc[mxe_acc(p)].cluster = data.cluster
  PROVE  /\ Checked(acc, queue_computation(w, p, o, d, data))
         /\ Checked(acc, Tx(<<queue_computation_ix(w, p, o, d, data)>>, {w, signer_acc(p)}))
<1> DEFINE ix == queue_computation_ix(w, p, o, d, data)
<1>1. Right(acc, ix, {w, signer_acc(p)})
  BY ClusterNames
<1>2. ix.ix = "queue_computation" /\ ix.accs.sign_seed = signer_acc(p)
  BY DEF queue_computation_ix, Ix
<1> HIDE DEF ix
<1>3. WellSigned(Tx(<<ix>>, {w}))
  <2>1. CASE signer_acc(p) \in {w}
    <3>1. {w, signer_acc(p)} = {w}
      BY <2>1
    <3> QED BY <1>1, <3>1, Signatures DEF Right, WellSigned
  <2>2. CASE signer_acc(p) \notin {w}
    <3>1. ix \in ToSet(<<ix>>)
      <4>1. 1 \in DOMAIN <<ix>> /\ <<ix>>[1] = ix
        OBVIOUS
      <4> QED BY <4>1 DEF ToSet
    <3> QED BY <1>2, <2>2, <3>1 DEF WellSigned, WronglySigned, Tx
  <2> QED BY <2>1, <2>2
<1>4. Checked(acc, Tx(<<ix>>, {w})) /\ Checked(acc, Tx(<<ix>>, {w, signer_acc(p)}))
  BY <1>1, <1>3, OneChecked, RightChecked DEF Right
<1> QED BY <1>4 DEF ix, queue_computation, Single

\* A node whose authority need not sign,
LEMMA NodeChecked ==
  ASSUME NEW acc, NEW s, NEW w, NEW n PROVE Checked(acc, init_arx_node_acc(s, w, n))
<1> DEFINE ix == init_arx_node_acc_ix(s, w, n)
<1>1. Right(acc, ix, {s})
  BY NetworkNames
<1>2. ix.ix = "init_arx_node" /\ ix.accs.operator_signer = s /\ ix.args.authority = w
  BY DEF init_arx_node_acc_ix, Ix
<1> HIDE DEF ix
<1>3. WellSigned(Tx(<<ix>>, {s, w}))
  <2>1. CASE w = s
    <3>1. {s, w} = {s}
      BY <2>1
    <3> QED BY <1>1, <3>1, Signatures DEF Right, WellSigned
  <2>2. CASE w # s
    <3>1. ix \in ToSet(<<ix>>)
      <4>1. 1 \in DOMAIN <<ix>> /\ <<ix>>[1] = ix
        OBVIOUS
      <4> QED BY <4>1 DEF ToSet
    <3> QED BY <1>2, <2>2, <3>1 DEF WellSigned, WronglySigned, Tx
  <2> QED BY <2>1, <2>2
<1>4. Checked(acc, Tx(<<ix>>, {s, w}))
  BY <1>1, <1>3, OneChecked DEF Right
<1> QED BY <1>4 DEF ix, init_arx_node_acc

\* and a stake whose withdrawal authority need not.
LEMMA StakeChecked ==
  ASSUME NEW acc, NEW u, NEW w, NEW v, NEW k, NEW j,
         acc[delegated_stake_acc(k)].delegation_target = primary_stake_acc(u)
  PROVE  /\ Checked(acc, split_delegated_stake_account(u, w, v, k, j))
         /\ Checked(acc, merge_delegated_stake_account(u, w, v, k, j))
<1>1. ASSUME NEW ix, Right(acc, ix, {w}),
             ix.ix \in {"split_delegated_stake_account", "merge_delegated_stake_account"},
             ix.accs.delegation_authority = w, ix.accs.withdrawal_authority = v
      PROVE  Checked(acc, Tx(<<ix>>, {w, v}))
  <2>1. CASE w = v
    <3>1. {w, v} = {w}
      BY <2>1
    <3> QED BY <1>1, <3>1, RightChecked
  <2>2. CASE w # v
    <3>1. ix \in ToSet(<<ix>>)
      <4>1. 1 \in DOMAIN <<ix>> /\ <<ix>>[1] = ix
        OBVIOUS
      <4> QED BY <4>1 DEF ToSet
    <3>2. WellSigned(Tx(<<ix>>, {w, v}))
      BY <1>1, <2>2, <3>1 DEF WellSigned, WronglySigned, Tx
    <3> QED BY <1>1, <3>2, OneChecked DEF Right
  <2> QED BY <2>1, <2>2
<1>2. Right(acc, split_delegated_stake_account_ix(u, w, v, k, j), {w})
  BY SplitNames
<1>3. Right(acc, merge_delegated_stake_account_ix(u, w, v, k, j), {w})
  BY MergeNames
<1>4. /\ split_delegated_stake_account_ix(u, w, v, k, j).ix = "split_delegated_stake_account"
      /\ split_delegated_stake_account_ix(u, w, v, k, j).accs.delegation_authority = w
      /\ split_delegated_stake_account_ix(u, w, v, k, j).accs.withdrawal_authority = v
  BY DEF split_delegated_stake_account_ix, Ix, ++, StakeAuthorities
<1>5. /\ merge_delegated_stake_account_ix(u, w, v, k, j).ix = "merge_delegated_stake_account"
      /\ merge_delegated_stake_account_ix(u, w, v, k, j).accs.delegation_authority = w
      /\ merge_delegated_stake_account_ix(u, w, v, k, j).accs.withdrawal_authority = v
  BY DEF merge_delegated_stake_account_ix, Ix, ++, StakeAuthorities
<1>6. Checked(acc, split_delegated_stake_account(u, w, v, k, j))
  BY <1>1, <1>2, <1>4 DEF split_delegated_stake_account
<1>7. Checked(acc, merge_delegated_stake_account(u, w, v, k, j))
  BY <1>1, <1>3, <1>5 DEF merge_delegated_stake_account
<1> QED BY <1>6, <1>7

-----------------------------------------------------------------------------
(* The transactions of each topic. *)

\* Nodes and clusters.
LEMMA NodesAndClustersChecked ==
  ASSUME NEW acc, NEW s, NEW w, NEW n, NEW c, NEW join
  PROVE  /\ Checked(acc, init_cluster(s, w, c)) /\ Checked(acc, init_arx_node_acc(s, w, n))
         /\ Checked(acc, Single(activate_arx_ix(s, n), s))
         /\ Checked(acc, Single(deactivate_arx_ix(s, n, acc[arx_acc(n)].cluster_membership.cluster), s))
         /\ Checked(acc, propose_join_cluster(s, c, n)) /\ Checked(acc, join_cluster(s, c, n, join))
         /\ Checked(acc, activate_cluster(s, c)) /\ Checked(acc, Single(deactivate_cluster_ix(s, c), s))
         /\ Checked(acc, set_arx_node_metadata(s, n))
         /\ Checked(acc, Single(set_arx_node_config_ix(s, n), s))
         /\ Checked(acc, submit_aggregated_bls_pubkey(s, c, n)) /\ Checked(acc, propose_fee(s, c, n))
         /\ Checked(acc, vote_fee(s, c, n)) /\ Checked(acc, claim_node_fees(s, c, n, w))
         /\ Checked(acc, increase_mempool_size(s, c))
         /\ Checked(acc, Single(set_cluster_authority_ix(s, c), s))
         /\ Checked(acc, Tx(<<bump_epoch_cluster_ix(c), update_current_epoch_idempotent_ix>>, {}))
<1>1. /\ Checked(acc, init_cluster(s, w, c)) /\ Checked(acc, init_arx_node_acc(s, w, n))
      /\ Checked(acc, Single(activate_arx_ix(s, n), s))
  BY NetworkNames, NodeChecked, SingleChecked DEF init_cluster
<1>2. Checked(acc, Single(deactivate_arx_ix(s, n, acc[arx_acc(n)].cluster_membership.cluster), s))
  BY LeaverNames, SingleChecked
<1>3. /\ Checked(acc, propose_join_cluster(s, c, n)) /\ Checked(acc, join_cluster(s, c, n, join))
      /\ Checked(acc, submit_aggregated_bls_pubkey(s, c, n)) /\ Checked(acc, propose_fee(s, c, n))
  BY MembersNames, SingleChecked
     DEF propose_join_cluster, join_cluster, submit_aggregated_bls_pubkey, propose_fee
<1>4. Checked(acc, vote_fee(s, c, n)) /\ Checked(acc, claim_node_fees(s, c, n, w))
  BY MembersNames, SingleChecked DEF vote_fee, claim_node_fees
<1>5. /\ Checked(acc, activate_cluster(s, c)) /\ Checked(acc, Single(deactivate_cluster_ix(s, c), s))
      /\ Checked(acc, set_arx_node_metadata(s, n))
      /\ Checked(acc, Single(set_arx_node_config_ix(s, n), s))
  BY NetworkNames, SingleChecked DEF activate_cluster, set_arx_node_metadata
<1>6. /\ Checked(acc, increase_mempool_size(s, c))
      /\ Checked(acc, Single(set_cluster_authority_ix(s, c), s))
  BY NetworkNames, SingleChecked DEF increase_mempool_size
<1>7. Checked(acc, Tx(<<bump_epoch_cluster_ix(c), update_current_epoch_idempotent_ix>>, {}))
  <2>1. /\ Right(acc, bump_epoch_cluster_ix(c), {})
        /\ \A mid : Right(mid, update_current_epoch_idempotent_ix, {})
    BY NetworkNames
  <2>2. {} \cup {} = {}
    OBVIOUS
  <2>3. Checked(acc, Tx(<<bump_epoch_cluster_ix(c), update_current_epoch_idempotent_ix>>, {} \cup {}))
    BY <2>1, BothChecked
  <2> QED BY <2>2, <2>3
<1> QED BY <1>1, <1>2, <1>3, <1>4, <1>5, <1>6, <1>7

\* The topic of nodes and clusters.
LEMMA NodesTopicChecked ==
  \A tx \in NodeTransactions \cup ClusterTransactions : Checked(accounts, tx)
<1>1. \A tx \in NodeTransactions : Checked(accounts, tx)
  <2>1. \A w, n : Checked(accounts, init_arx_node_acc(Operator, w, n))
    BY NodesAndClustersChecked
  <2>2. \A n : Checked(accounts, Single(activate_arx_ix(Operator, n), Operator))
    BY NodesAndClustersChecked
  <2>3. \A n : /\ Checked(accounts, set_arx_node_metadata(Operator, n))
               /\ Checked(accounts, Single(set_arx_node_config_ix(Operator, n), Operator))
    BY NodesAndClustersChecked
  <2>4. \A n : Checked(accounts,
                       Single(deactivate_arx_ix(Operator, n, accounts[arx_acc(n)].cluster_membership.cluster),
                              Operator))
    BY NodesAndClustersChecked
  <2>5. \A c, n : /\ Checked(accounts, submit_aggregated_bls_pubkey(Operator, c, n))
                  /\ Checked(accounts, propose_fee(Operator, c, n))
                  /\ Checked(accounts, vote_fee(Operator, c, n))
    BY NodesAndClustersChecked
  <2>6. \A c, n, w : Checked(accounts, claim_node_fees(Operator, c, n, w))
    BY NodesAndClustersChecked
  <2>7. \A c, n, join : Checked(accounts, join_cluster(Operator, c, n, join))
    BY NodesAndClustersChecked
  <2> QED BY <2>1, <2>2, <2>3, <2>4, <2>5, <2>6, <2>7 DEF NodeTransactions
<1>2. \A tx \in ClusterTransactions : Checked(accounts, tx)
  <2>1. \A tx \in {init_cluster(Operator, w, c) : c \in Clusters, w \in Wallets} : Checked(accounts, tx)
    <3>1. \A c, w : Checked(accounts, init_cluster(Operator, w, c))
      BY NodesAndClustersChecked
    <3> QED BY <3>1
  <2>2. \A tx \in {increase_mempool_size(Operator, c) : c \in Clusters} : Checked(accounts, tx)
    BY NodesAndClustersChecked
  <2>3. \A tx \in {Single(set_cluster_authority_ix(Operator, c), Operator) : c \in Clusters} :
          Checked(accounts, tx)
    BY NodesAndClustersChecked
  <2>4. \A tx \in {Tx(<<bump_epoch_cluster_ix(c), update_current_epoch_idempotent_ix>>, {}) :
                    c \in Clusters} : Checked(accounts, tx)
    <3>1. \A c : Checked(accounts, Tx(<<bump_epoch_cluster_ix(c), update_current_epoch_idempotent_ix>>, {}))
      BY NodesAndClustersChecked
    <3> QED BY <3>1, Zenon
  <2>5. \A tx \in {activate_cluster(Operator, c) : c \in Clusters} : Checked(accounts, tx)
    BY NodesAndClustersChecked
  <2>6. \A tx \in {Single(deactivate_cluster_ix(Operator, c), Operator) : c \in Clusters} :
          Checked(accounts, tx)
    BY NodesAndClustersChecked
  <2>7. \A tx \in {propose_join_cluster(Operator, c, n) : c \in Clusters, n \in Nodes} :
          Checked(accounts, tx)
    <3>1. \A c, n : Checked(accounts, propose_join_cluster(Operator, c, n))
      BY NodesAndClustersChecked
    <3> QED BY <3>1
  <2> QED BY <2>1, <2>2, <2>3, <2>4, <2>5, <2>6, <2>7 DEF ClusterTransactions
<1> QED BY <1>1, <1>2

\* Both parts of a program's initialization,
LEMMA ProgramChecked ==
  ASSUME NEW acc, NEW s, NEW p, NEW k, NEW r, NEW c, NEW slot
  PROVE  Checked(acc, init_mxe(s, p, k, r, c, slot))
<1>1. /\ Right(acc, init_mxe_part1_ix(s, p), {s})
      /\ \A mid : Right(mid, init_mxe_part2_ix(s, p, c, k, r, slot), {s})
  BY ProgramsNames
<1>2. {s} \cup {s} = {s}
  OBVIOUS
<1>3. Checked(acc, Tx(<<init_mxe_part1_ix(s, p), init_mxe_part2_ix(s, p, c, k, r, slot)>>, {s} \cup {s}))
  BY <1>1, BothChecked
<1> QED BY <1>2, <1>3 DEF init_mxe

\* and the rest of its setup.
LEMMA ProgramsTopicChecked == \A tx \in ProgramTransactions : Checked(accounts, tx)
<1>1. \A p, c, k, r : Checked(accounts, init_mxe(Operator, p, k, r, c, 0))
  BY ProgramChecked
<1>2. \A p, c : Checked(accounts, set_cluster(Operator, p, c))
  BY ProgramsNames, SingleChecked DEF set_cluster
<1>3. \A n : Checked(accounts, init_recovery_peer_acc(Operator, n))
  BY NetworkNames, SingleChecked DEF init_recovery_peer_acc
<1>4. \A d, p : Checked(accounts, init_computation_definition(Operator, d, p, 0))
  BY ProgramsNames, SingleChecked DEF init_computation_definition
<1>5. \A d, p, k :
        /\ Checked(accounts, Single(init_raw_circuit_acc_ix(Operator, d, p, k), Operator))
        /\ Checked(accounts, Single(embiggen_raw_circuit_acc_ix(Operator, d, p, k), Operator))
        /\ Checked(accounts, Single(upload_circuit_ix(Operator, p, d, k), Operator))
        /\ Checked(accounts, Single(finalize_computation_definition_ix(Operator, d, p), Operator))
  BY ProgramsNames, SingleChecked
<1> QED BY <1>1, <1>2, <1>3, <1>4, <1>5 DEF ProgramTransactions

\* What changes the answer of a discovery.
LEMMA DiscoveryTopicChecked == \A tx \in DiscoveryTransactions : Checked(accounts, tx)
<1> DEFINE A == {Single(activate_arx_ix(Operator, n), Operator) : n \in Nodes}
           B == {Single(deactivate_arx_ix(Operator, n, accounts[arx_acc(n)].cluster_membership.cluster),
                        Operator) : n \in Nodes}
           C == {propose_join_cluster(Operator, c, n) : c \in Clusters, n \in Nodes}
           Joined(c, n) == join_cluster(Operator, c, n, TRUE)
           D == {Joined(c, n) : c \in Clusters, n \in Nodes}
           E == {Single(deactivate_cluster_ix(Operator, c), Operator) : c \in Clusters}
           F == {InitMxe(Original, c) : c \in Clusters}
<1>1. DiscoveryTransactions = UNION {A, B, C, D, E, F}
  BY DEF DiscoveryTransactions
<1>2. \A tx \in A : Checked(accounts, tx)
  BY NodesAndClustersChecked
<1>3. \A tx \in B : Checked(accounts, tx)
  BY NodesAndClustersChecked
<1>4. \A tx \in C : Checked(accounts, tx)
  <2>1. \A c, n : Checked(accounts, propose_join_cluster(Operator, c, n))
    BY NodesAndClustersChecked
  <2> QED BY <2>1
<1>5. \A tx \in D : Checked(accounts, tx)
  <2>1. \A c, n : Checked(accounts, Joined(c, n))
    BY NodesAndClustersChecked
  <2> HIDE DEF Joined
  <2> QED BY <2>1
<1>6. \A tx \in E : Checked(accounts, tx)
  BY NodesAndClustersChecked
<1>7. \A tx \in F : Checked(accounts, tx)
  BY ProgramChecked DEF InitMxe
<1> HIDE DEF A, B, C, D, E, F
<1> QED BY <1>1, <1>2, <1>3, <1>4, <1>5, <1>6, <1>7

\* Computations.
LEMMA ComputationsTopicChecked == \A tx \in ComputationTransactions : Checked(accounts, tx)
<1> DEFINE A == {queue_computation(w, p, o, AnyDef, accounts[mxe_acc(p)]) :
                   w \in Wallets, p \in Initialized, o \in Offsets}
           B == {QueuedByProgram(w, p, o, AnyDef) :
                   w \in {Operator}, p \in Initialized, o \in Offsets}
           EndedBy(p, o) ==
             Tx(<<callback_computation_ix(Operator, p, o, AnyDef, TheNode, accounts[mxe_acc(p)].cluster),
                  callback_computation_ix_user(p, <<>>, AnyDef)>>, {Operator})
           C == {EndedBy(p, o) : p \in Initialized, o \in Offsets}
           D == {Single(reclaim_failure_rent_idempotent_ix(Operator, w, p, o), Operator) :
                   w \in {Operator}, p \in Initialized, o \in Offsets}
<1>1. ComputationTransactions = UNION {A, B, C, D}
  BY DEF ComputationTransactions
<1>2. \A tx \in A : Checked(accounts, tx)
  <2>1. \A w, p, o : Checked(accounts, queue_computation(w, p, o, AnyDef, accounts[mxe_acc(p)]))
    BY QueueChecked
  <2> QED BY <2>1
<1>3. \A tx \in B : Checked(accounts, tx)
  <2>1. \A w, p, o : Checked(accounts, QueuedByProgram(w, p, o, AnyDef))
    BY QueueChecked DEF QueuedByProgram
  <2> QED BY <2>1
<1>4. \A tx \in C : Checked(accounts, tx)
  <2>1. ASSUME NEW p, NEW o PROVE Checked(accounts, EndedBy(p, o))
    <3> DEFINE c == accounts[mxe_acc(p)].cluster
               ix == callback_computation_ix(Operator, p, o, AnyDef, TheNode, c)
               jx == callback_computation_ix_user(p, <<>>, AnyDef)
    <3>1. Right(accounts, ix, {Operator}) /\ \A mid : Right(mid, jx, {})
      BY ClusterNames, ProgramsNames
    <3> HIDE DEF ix, jx
    <3>2. {Operator} \cup {} = {Operator}
      OBVIOUS
    <3>3. Checked(accounts, Tx(<<ix, jx>>, {Operator} \cup {}))
      BY <3>1, BothChecked
    <3> QED BY <3>2, <3>3 DEF ix, jx
  <2> HIDE DEF EndedBy
  <2> QED BY <2>1
<1>5. \A tx \in D : Checked(accounts, tx)
  <2>1. \A w, p, o : Checked(accounts, Single(reclaim_failure_rent_idempotent_ix(Operator, w, p, o), Operator))
    BY ProgramsNames, SingleChecked
  <2> QED BY <2>1
<1> HIDE DEF A, B, C, D
<1> QED BY <1>1, <1>2, <1>3, <1>4, <1>5

\* Claims that they failed.
LEMMA ClaimsTopicChecked ==
  \A tx \in UNION {ToSet(txs) : txs \in FailureClaims} : Checked(accounts, tx)
<1>1. ASSUME NEW p \in Initialized, NEW o, NEW len,
             NEW tx \in ToSet(build_claim_failure_txs(
                                Operator, p, accounts[mxe_acc(p)].cluster,
                                accounts[computation_acc(accounts[mxe_acc(p)].cluster, o)].def,
                                o, TheNode, len, 0))
      PROVE  Checked(accounts, tx)
  <2> DEFINE c == accounts[mxe_acc(p)].cluster
             d == accounts[computation_acc(c, o)].def
             claim == Tx(<<claim_failure_init_ix(Operator, p, c, d, o, TheNode, len),
                           claim_failure_append_ix(Operator, p, o, len, 0),
                           claim_failure_finalize_ix(Operator, p, c, o, TheNode)>>, {Operator})
             txs == build_claim_failure_txs(Operator, p, c, d, o, TheNode, len, 0)
  <2>1. Checked(accounts, claim)
    BY ClaimChecked DEF Initialized, Is
  <2>2. txs = <<claim>> \/ txs = <<>>
    BY DEF build_claim_failure_txs
  <2>3. tx \in ToSet(txs)
    OBVIOUS
  <2> HIDE DEF claim, txs
  <2>4. tx = claim
    <3>1. DOMAIN <<claim>> = {1} /\ DOMAIN <<>> = {}
      OBVIOUS
    <3> QED BY <2>2, <2>3, <3>1 DEF ToSet
  <2> QED BY <2>1, <2>4
<1> QED BY <1>1 DEF FailureClaims

\* Keys.
LEMMA KeysTopicChecked == \A tx \in KeyTransactions : Checked(accounts, tx)
<1>1. ASSUME NEW p, NEW n
      PROVE  LET mxe == accounts[mxe_acc(p)]
             IN  /\ Checked(accounts, requeue_mxe_keygen(Operator, p, mxe, mxe.cluster))
                 /\ Checked(accounts, finalize_mxe_keys(Operator, p, mxe.cluster))
                 /\ Checked(accounts, Single(queue_key_recovery_init_ix(
                                               Operator, p, mxe.cluster, mxe.key_recovery_init_offset),
                                             Operator))
                 /\ Checked(accounts, Single(set_mxe_keys_ix(Operator, p, n, mxe.cluster), Operator))
                 /\ Checked(accounts, Single(set_mxe_recovery_keys_init_ix(Operator, p, n, mxe.cluster),
                                             Operator))
                 /\ Checked(accounts, Single(extend_recovery_keyshares_ix(Operator, p, n, mxe.cluster),
                                             Operator))
                 /\ Checked(accounts, Single(finalize_key_recovery_shares_upload_ix(
                                               Operator, p, n, mxe.cluster,
                                               mxe.key_recovery_init_offset), Operator))
  <2> DEFINE mxe == accounts[mxe_acc(p)]
             c == mxe.cluster
  <2>1. /\ Right(accounts, requeue_mxe_keygen_ix(Operator, p, c, mxe.keygen_offset), {Operator})
        /\ Right(accounts, queue_key_recovery_init_ix(Operator, p, c, mxe.key_recovery_init_offset),
                 {Operator})
    BY ProgramsNames
  <2>2. /\ Right(accounts, finalize_mxe_keys_ix(Operator, p, c), {Operator})
        /\ Right(accounts, set_mxe_keys_ix(Operator, p, n, c), {Operator})
    BY ClusterNames
  <2>3. Right(accounts, set_mxe_recovery_keys_init_ix(Operator, p, n, c), {Operator})
    BY KeysInitNames
  <2>4. Right(accounts, extend_recovery_keyshares_ix(Operator, p, n, c), {Operator})
    BY KeySharesNames
  <2>5. Right(accounts, finalize_key_recovery_shares_upload_ix(
                          Operator, p, n, c, mxe.key_recovery_init_offset), {Operator})
    BY KeysUploadNames
  <2> QED BY <2>1, <2>2, <2>3, <2>4, <2>5, SingleChecked DEF requeue_mxe_keygen, finalize_mxe_keys
<1>2. \A p : Checked(accounts, InitMxe(p, TheCluster))
  BY ProgramChecked DEF InitMxe
<1> QED BY <1>1, <1>2 DEF KeyTransactions

\* The recovery of a program.
LEMMA RecoveryTopicChecked == \A tx \in RecoveryTransactions : Checked(accounts, tx)
<1> DEFINE c == accounts[mxe_acc(Backup)].cluster
           account == mxe_recovery_acc(Backup, Original)
           stored == IF Is(account) THEN {accounts[account].key_recovery_finalize_offset} ELSE {}
<1>1. /\ Checked(accounts, Single(recover_mxe_ix(Operator, Original), Operator))
      /\ Checked(accounts, init_recovery_peer_acc(Operator, TheNode))
      /\ Checked(accounts, submit_key_recovery_share(Operator, Original, Backup, TheNode))
  BY ProgramsNames, NetworkNames, RecoveryShareNames, SingleChecked
     DEF init_recovery_peer_acc, submit_key_recovery_share
<1>2. /\ Checked(accounts, Single(init_key_recovery_execution_part1_ix(
                                    Operator, Operator, Original, Backup), Operator))
      /\ Checked(accounts, Single(init_key_recovery_execution_part2_ix(Operator, Original, Backup),
                                  Operator))
      /\ Checked(accounts, Single(close_key_recovery_ix(Operator, Original, Backup), Operator))
  BY RecoveryPart1Names, RecoveryPart2Names, RecoveryClosedNames, SingleChecked
<1>3. \A o \in stored :
        /\ Checked(accounts, Single(finalize_key_recovery_execution_ix(
                                      Operator, Operator, Original, Backup, c, o), Operator))
        /\ \A new : Checked(accounts, Single(requeue_key_recovery_finalize_ix(
                                               Operator, Operator, Original, Backup, c, new, o), Operator))
        /\ Checked(accounts, Single(finalize_key_recovery_callback_ix(
                                      Operator, Original, Backup, c, o, TheNode), Operator))
  BY RecoveryFinalizedNames, RecoveryRequeuedNames, RecoveryEndedNames, SingleChecked
<1> QED BY <1>1, <1>2, <1>3 DEF RecoveryTransactions

\* Staking: the target of a stake that is delegated is the primary stake of its owner.
LEMMA StakingTopicChecked ==
  ASSUME Typed(accounts) PROVE \A tx \in StakingTransactions : Checked(accounts, tx)
<1> DEFINE delegated == {s \in Stakes : /\ Is(delegated_stake_acc(s))
                                        /\ accounts[delegated_stake_acc(s)].delegation_target # <<None>>}
           target(s) == accounts[delegated_stake_acc(s)].delegation_target[2]
<1>1. \A s \in delegated : accounts[delegated_stake_acc(s)].delegation_target = primary_stake_acc(target(s))
  <2> SUFFICES ASSUME NEW s \in delegated
               PROVE  accounts[delegated_stake_acc(s)].delegation_target = primary_stake_acc(target(s))
    OBVIOUS
  <2>1. /\ delegated_stake_acc(s) \in DOMAIN accounts
        /\ accounts[delegated_stake_acc(s)].delegation_target # <<None>>
    BY DEF Is
  <2>2. accounts[delegated_stake_acc(s)] \in ContentOf("DelegatedStakingAccount")
    BY <2>1 DEF Typed, ContentRight, delegated_stake_acc
  <2>3. PICK w : accounts[delegated_stake_acc(s)].delegation_target = primary_stake_acc(w)
    BY <2>1, <2>2 DEF ContentOf
  <2>4. target(s) = w
    BY <2>3 DEF primary_stake_acc
  <2> QED BY <2>3, <2>4
<1>2. \A w, v, k : /\ Checked(accounts, init_primary_stake_acc(w))
                   /\ Checked(accounts, activate_primary_stake_acc(w))
                   /\ Checked(accounts, deactivate_primary_stake_acc(w, k))
                   /\ Checked(accounts, Single(finalize_epoch_rewards_ix(w, v, k), w))
                   /\ Checked(accounts, init_delegated_stake_master_acc(w, v))
                   /\ Checked(accounts, init_delegated_stake_acc(w, k))
                   /\ Checked(accounts, delegate_stake(w, k, v))
                   /\ Checked(accounts, undelegate_stake(w, k, v))
                   /\ Checked(accounts, close_delegated_stake(w, v, k))
  BY StakingNames, SingleChecked
     DEF init_primary_stake_acc, activate_primary_stake_acc, deactivate_primary_stake_acc,
         init_delegated_stake_master_acc, init_delegated_stake_acc, delegate_stake,
         undelegate_stake, close_delegated_stake
<1>3. \A w, v : Checked(accounts, init_arcium_token_mint(w)) /\ Checked(accounts, airdrop_arcium_token(w, v))
  <2> SUFFICES ASSUME NEW w, NEW v
               PROVE  /\ Checked(accounts, init_arcium_token_mint(w))
                      /\ Checked(accounts, airdrop_arcium_token(w, v))
    OBVIOUS
  <2> DEFINE mint == init_arcium_token_mint_ixs(w)
             drop == airdrop_arcium_token_ixs(w, v)
  <2>1. mint = <<mint[1], mint[2]>> /\ drop = <<drop[1], drop[2]>>
    BY DEF init_arcium_token_mint_ixs, airdrop_arcium_token_ixs
  <2>2. /\ Right(accounts, mint[1], {w, arcium_mint_keypair}) /\ \A mid : Right(mid, mint[2], {})
        /\ Right(accounts, drop[1], {w}) /\ \A mid : Right(mid, drop[2], {w})
    BY TokenNames
  <2> HIDE DEF mint, drop
  <2>3. {w, arcium_mint_keypair} \cup {} = {w, arcium_mint_keypair} /\ {w} \cup {w} = {w}
    OBVIOUS
  <2>4. /\ Checked(accounts, Tx(<<mint[1], mint[2]>>, {w, arcium_mint_keypair} \cup {}))
        /\ Checked(accounts, Tx(<<drop[1], drop[2]>>, {w} \cup {w}))
    BY <2>2, BothChecked
  <2>5. Checked(accounts, Tx(mint, {w, arcium_mint_keypair})) /\ Checked(accounts, Tx(drop, {w}))
    BY <2>1, <2>3, <2>4
  <2> QED BY <2>5 DEF mint, drop, init_arcium_token_mint, airdrop_arcium_token
<1>4. \A s \in delegated : \A w, v, k :
        /\ Checked(accounts, split_delegated_stake_account(target(s), w, v, s, k))
        /\ Checked(accounts, merge_delegated_stake_account(target(s), w, v, s, k))
  BY <1>1, StakeChecked
<1> QED BY <1>2, <1>3, <1>4 DEF StakingTransactions

\* Whatever the chain holds, a transaction whose caller passes what it has read there names
\* exactly the addresses that the Arcium program will derive, from the arguments and from
\* what other accounts hold, and is signed as it asks, but for those known to be signed
\* wrongly, also when its later instructions meet a chain that its first ones have changed.
\* (instruction.rs and pda.rs against idls/*.json)
THEOREM BuiltAsChecked == Spec => []CheckedAsBuilt
<1>1. topic \in Topics /\ Typed(accounts) => CheckedAsBuilt
  <2> SUFFICES ASSUME topic \in Topics, Typed(accounts), NEW tx \in Transactions
               PROVE  Checked(accounts, tx)
    BY DEF CheckedAsBuilt, Checked
  <2>1. topic \in {"nodes", "discovery", "programs", "computations", "keys", "recovery", "staking"}
    BY NetworkAssumption
  <2>2. CASE topic = "nodes"
    BY <2>2, NodesTopicChecked DEF Transactions
  <2>3. CASE topic = "discovery"
    BY <2>3, DiscoveryTopicChecked DEF Transactions
  <2>4. CASE topic = "programs"
    BY <2>4, ProgramsTopicChecked DEF Transactions
  <2>5. CASE topic = "computations"
    BY <2>5, ComputationsTopicChecked, ClaimsTopicChecked DEF Transactions
  <2>6. CASE topic = "keys"
    BY <2>6, KeysTopicChecked DEF Transactions
  <2>7. CASE topic = "recovery"
    BY <2>7, RecoveryTopicChecked DEF Transactions
  <2>8. CASE topic = "staking"
    BY <2>8, StakingTopicChecked DEF Transactions
  <2> QED BY <2>1, <2>2, <2>3, <2>4, <2>5, <2>6, <2>7, <2>8
<1> QED BY <1>1, TopicStays, TypesHold, PTL
=============================================================================
