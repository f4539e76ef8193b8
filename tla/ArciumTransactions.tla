-------------------------- MODULE ArciumTransactions --------------------------
(***************************************************************************)
(* The transactions arcium-client sends (transactions.rs): which           *)
(* instructions go into one transaction and which keys sign it.  Every     *)
(* function ends in send_tx, which panics unless the transaction is        *)
(* confirmed.                                                              *)
(***************************************************************************)
EXTENDS ArciumProgram

\* One instruction, signed by one key.
Single(ix, signer) == Tx(<<ix>>, {signer})

-----------------------------------------------------------------------------
(* The network, its nodes and clusters. *)

init_network_program(signer) == Single(init_network_program_ix(signer), signer)

init_node_operator_acc(signer) == Single(init_node_operator_acc_ix(signer), signer)

\* Signed by the operator and by the key that becomes the authority of the node.
init_arx_node_acc(operator, authority, node) ==
  Tx(<<init_arx_node_acc_ix(operator, authority, node)>>, {operator, authority})

set_arx_node_metadata(signer, node) == Single(set_arx_node_metadata_ix(signer, node), signer)

init_cluster(payer, authority, cluster) ==
  Single(init_cluster_ix(payer, authority, cluster), payer)

init_recovery_peer_acc(signer, peer) == Single(init_recovery_peer_acc_ix(signer, peer), signer)

increase_mempool_size(signer, cluster) ==
  Single(increase_mempool_size_ix(signer, cluster), signer)

activate_cluster(signer, cluster) == Single(activate_cluster_ix(signer, cluster), signer)

propose_join_cluster(authority, cluster, node) ==
  Single(propose_join_cluster_ix(authority, cluster, node), authority)

join_cluster(authority, cluster, node, join) ==
  Single(join_cluster_ix(authority, cluster, node, join), authority)

propose_fee(authority, cluster, node) ==
  Single(propose_fee_ix(authority, cluster, node), authority)

vote_fee(authority, cluster, node) == Single(vote_fee_ix(authority, cluster, node), authority)

claim_node_fees(authority, cluster, node, recipient) ==
  Single(claim_node_fees_ix(authority, cluster, node, recipient), authority)

submit_aggregated_bls_pubkey(authority, cluster, node) ==
  Single(submit_aggregated_bls_pubkey_ix(authority, cluster, node), authority)

-----------------------------------------------------------------------------
(* Programs, circuits and computations. *)

\* Mutant: the second part is left to a transaction of its own.
InitMxeFirstPart(payer, program, keygen, recovery_init, cluster, slot) ==
  Tx(<<init_mxe_part1_ix(payer, program)>>, {payer})

\* Both parts of the initialization are in one transaction.
init_mxe(payer, program, keygen, recovery_init, cluster, slot) ==
  Tx(<<init_mxe_part1_ix(payer, program),
       init_mxe_part2_ix(payer, program, cluster, keygen, recovery_init, slot)>>, {payer})

finalize_mxe_keys(payer, program, cluster) ==
  Single(finalize_mxe_keys_ix(payer, program, cluster), payer)

\* The offset is the one in the account of the program, as the caller has read it.
requeue_mxe_keygen(payer, program, mxe_data, cluster) ==
  Single(requeue_mxe_keygen_ix(payer, program, cluster, mxe_data.keygen_offset), payer)

set_cluster(signer, program, cluster) == Single(set_cluster_ix(signer, program, cluster), signer)

init_computation_definition(payer, def, program, slot) ==
  Single(init_computation_definition_ix(payer, def, program, slot), payer)

\* Reads the program's account first; signed by the payer alone.
queue_computation(payer, program, comp, def, mxe_data) ==
  Single(queue_computation_ix(payer, program, comp, def, mxe_data), payer)

MAX_SINGLE_TX_FAILURE_CLAIM_DATA_SIZE == 587

\* Mutant: each instruction in a transaction of its own.
ClaimInParts(signer, program, cluster, def, comp, node, len, position) ==
  IF len <= MAX_SINGLE_TX_FAILURE_CLAIM_DATA_SIZE
    THEN <<Single(claim_failure_init_ix(signer, program, cluster, def, comp, node, len), signer),
           Single(claim_failure_append_ix(signer, program, comp, len, position), signer),
           Single(claim_failure_finalize_ix(signer, program, cluster, comp, node), signer)>>
    ELSE <<>>

\* All of a claim in one transaction.  Longer data is not implemented: nothing is sent.
build_claim_failure_txs(signer, program, cluster, def, comp, node, len, position) ==
  IF len <= MAX_SINGLE_TX_FAILURE_CLAIM_DATA_SIZE
    THEN <<Tx(<<claim_failure_init_ix(signer, program, cluster, def, comp, node, len),
                claim_failure_append_ix(signer, program, comp, len, position),
                claim_failure_finalize_ix(signer, program, cluster, comp, node)>>, {signer})>>
    ELSE <<>>

submit_key_recovery_share(signer, original, backup, peer) ==
  Single(submit_key_recovery_share_ix(signer, original, backup, peer), signer)

-----------------------------------------------------------------------------
(* Staking. *)

init_arcium_token_mint(signer) ==
  Tx(init_arcium_token_mint_ixs(signer), {signer, arcium_mint_keypair})

airdrop_arcium_token(signer, recipient) ==
  Tx(airdrop_arcium_token_ixs(signer, recipient), {signer})

init_primary_stake_acc(signer) == Single(init_primary_stake_acc_ix(signer), signer)

activate_primary_stake_acc(signer) == Single(activate_primary_stake_acc_ix(signer), signer)

deactivate_primary_stake_acc(signer, node) ==
  Single(deactivate_primary_stake_acc_ix(signer, node), signer)

init_delegated_stake_master_acc(signer, owner) ==
  Single(init_delegated_stake_master_acc_ix(signer, owner), signer)

init_delegated_stake_acc(signer, stake) == Single(init_delegated_stake_acc_ix(signer, stake), signer)

delegate_stake(signer, stake, owner) == Single(delegate_stake_ix(signer, stake, owner), signer)

undelegate_stake(signer, stake, owner) == Single(undelegate_stake_ix(signer, stake, owner), signer)

\* Both authorities sign, here and in the next.
split_delegated_stake_account(target, delegation, withdrawal, stake, new) ==
  Tx(<<split_delegated_stake_account_ix(target, delegation, withdrawal, stake, new)>>,
     {delegation, withdrawal})

merge_delegated_stake_account(target, delegation, withdrawal, keep, close) ==
  Tx(<<merge_delegated_stake_account_ix(target, delegation, withdrawal, keep, close)>>,
     {delegation, withdrawal})

close_delegated_stake(signer, owner, stake) ==
  Single(close_delegated_stake_ix(signer, owner, stake), signer)
=============================================================================
