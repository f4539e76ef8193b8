-------------------------- MODULE ArciumInstructions --------------------------
(***************************************************************************)
(* The instructions arcium-client builds (instruction.rs).  An instruction *)
(* names its accounts by role and carries arguments.  Parameters that are  *)
(* only data (keys, prices, metadata, circuits) are left out, and so are   *)
(* the accounts that are the same in every instruction: programs, sysvars, *)
(* clock, fee pool, token mint and the accounts of the staking pool.       *)
(***************************************************************************)
EXTENDS ArciumAccounts

\* An Option<u32> that is None.
None == "none"

Ix(name, accs, args) == [ix |-> name, accs |-> accs, args |-> args]

NoArgs == [none |-> None]

\* The computation definitions of Arcium's own circuits.
MXE_KEYGEN_OFFSET                == 1
MXE_KEY_RECOVERY_INIT_OFFSET     == 2
MXE_KEY_RECOVERY_FINALIZE_OFFSET == 3

-----------------------------------------------------------------------------
(* The network, its nodes and clusters. *)

init_network_program_ix(signer) ==
  Ix("init", [signer |-> signer, fee_pool |-> fee_pool_acc, clock |-> clock_acc], NoArgs)

update_current_epoch_idempotent_ix ==
  Ix("update_current_epoch_idempotent", [clock |-> clock_acc], NoArgs)

init_node_operator_acc_ix(signer) ==
  Ix("init_operator", [signer |-> signer, operator_acc |-> operator_acc(signer)], NoArgs)

init_arx_node_acc_ix(operator, authority, node) ==
  Ix("init_arx_node",
     [operator_signer |-> operator, operator_acc |-> operator_acc(operator),
      arx_node_acc |-> arx_acc(node)],
     [node_offset |-> node, authority |-> authority])

set_arx_node_config_ix(signer, node) ==
  Ix("set_arx_node_config", [signer |-> signer, arx_node_acc |-> arx_acc(node)],
     [node_offset |-> node])

set_arx_node_metadata_ix(signer, node) ==
  Ix("set_arx_node_metadata", [signer |-> signer, arx_node_acc |-> arx_acc(node)],
     [node_offset |-> node])

init_recovery_peer_acc_ix(signer, peer) ==
  Ix("init_recovery_peer_account",
     [signer |-> signer, recovery_peer_account |-> recovery_peer_acc(peer)],
     [peer_offset |-> peer])

init_cluster_ix(signer, authority, cluster) ==
  Ix("init_cluster",
     [signer |-> signer, cluster_acc |-> cluster_acc(cluster), authority |-> authority,
      mempool |-> mempool_acc(cluster), execpool |-> execpool_acc(cluster)],
     [cluster_offset |-> cluster])

increase_mempool_size_ix(signer, cluster) ==
  Ix("increase_mempool_size", [signer |-> signer, mempool |-> mempool_acc(cluster)],
     [cluster_offset |-> cluster])

set_cluster_authority_ix(signer, cluster) ==
  Ix("set_cluster_authority",
     [current_authority |-> signer, cluster_acc |-> cluster_acc(cluster)],
     [cluster_offset |-> cluster])

bump_epoch_cluster_ix(cluster) ==
  Ix("bump_epoch_cluster", [cluster_acc |-> cluster_acc(cluster)], [cluster_offset |-> cluster])

activate_arx_ix(signer, node) ==
  Ix("activate_arx", [signer |-> signer, arx_node_acc |-> arx_acc(node)],
     [node_offset |-> node])

\* The cluster is given if the caller names one.
deactivate_arx_ix(signer, node, cluster) ==
  Ix("deactivate_arx",
     [signer |-> signer, arx_node_acc |-> arx_acc(node),
      cluster_acc |-> IF cluster = None THEN <<None>> ELSE cluster_acc(cluster)],
     [node_offset |-> node])

activate_cluster_ix(signer, cluster) ==
  Ix("activate_cluster", [authority |-> signer, cluster_acc |-> cluster_acc(cluster)],
     [cluster_offset |-> cluster])

deactivate_cluster_ix(signer, cluster) ==
  Ix("deactivate_cluster", [authority |-> signer, cluster_acc |-> cluster_acc(cluster)],
     [cluster_offset |-> cluster])

\* What a node and its cluster are named by in the next instructions.
NodeInCluster(authority, cluster, node) ==
  [node_authority |-> authority, cluster_acc |-> cluster_acc(cluster),
   arx_node_acc |-> arx_acc(node)]

NodeInClusterArgs(cluster, node) == [cluster_offset |-> cluster, node_offset |-> node]

propose_join_cluster_ix(authority, cluster, node) ==
  Ix("propose_join_cluster",
     [cluster_authority |-> authority, cluster_acc |-> cluster_acc(cluster),
      arx_node_acc |-> arx_acc(node)],
     NodeInClusterArgs(cluster, node))

join_cluster_ix(authority, cluster, node, join) ==
  Ix("join_cluster", NodeInCluster(authority, cluster, node),
     [cluster_offset |-> cluster, node_offset |-> node, join |-> join])

propose_fee_ix(authority, cluster, node) ==
  Ix("propose_fee", NodeInCluster(authority, cluster, node), NodeInClusterArgs(cluster, node))

vote_fee_ix(authority, cluster, node) ==
  Ix("vote_fee", NodeInCluster(authority, cluster, node), NodeInClusterArgs(cluster, node))

submit_aggregated_bls_pubkey_ix(authority, cluster, node) ==
  Ix("submit_aggregated_bls_pubkey", NodeInCluster(authority, cluster, node),
     NodeInClusterArgs(cluster, node))

claim_node_fees_ix(authority, cluster, node, recipient) ==
  Ix("claim_node_fees",
     [node_authority |-> authority, recipient |-> recipient,
      cluster |-> cluster_acc(cluster), node |-> arx_acc(node), pool |-> fee_pool_acc],
     NodeInClusterArgs(cluster, node))

-----------------------------------------------------------------------------
(* A program and its circuits. *)

init_mxe_part1_ix(signer, program) ==
  Ix("init_mxe_part1",
     [signer |-> signer, recovery_cluster_acc |-> recovery_cluster_acc(program),
      mxe_program |-> program],
     [mxe_program |-> program])

init_mxe_part2_ix(signer, program, cluster, keygen, recovery_init, slot) ==
  Ix("init_mxe_part2",
     [signer |-> signer, address_lookup_table |-> mxe_lut_acc(program, slot),
      cluster |-> cluster_acc(cluster), mxe |-> mxe_acc(program),
      recovery_cluster_acc |-> recovery_cluster_acc(program),
      executing_pool |-> execpool_acc(cluster), mempool |-> mempool_acc(cluster),
      mxe_keygen_computation_definition |->
        computation_definition_acc(program, MXE_KEYGEN_OFFSET),
      mxe_keygen_computation |-> computation_acc(cluster, keygen),
      key_recovery_init_computation |-> computation_acc(cluster, recovery_init),
      mxe_program |-> program, program_data |-> program_data(program)],
     [cluster_offset |-> cluster, mxe_program |-> program, keygen_offset |-> keygen,
      key_recovery_init_offset |-> recovery_init, recent_offset |-> slot])

set_cluster_ix(signer, program, cluster) ==
  Ix("set_cluster",
     [signer |-> signer, mxe |-> mxe_acc(program), cluster |-> cluster_acc(cluster),
      mxe_program |-> program],
     [cluster_offset |-> cluster])

init_computation_definition_ix(signer, def, program, slot) ==
  Ix("init_computation_definition",
     [signer |-> signer, mxe |-> mxe_acc(program),
      address_lookup_table |-> mxe_lut_acc(program, slot),
      comp_def_acc |-> computation_definition_acc(program, def)],
     [mxe_program |-> program, comp_def_offset |-> def])

\* What a chunk of a circuit is named by.
CircuitChunk(signer, program, def, chunk) ==
  [signer |-> signer, comp_def_acc |-> computation_definition_acc(program, def),
   comp_def_raw |-> raw_circuit_acc(computation_definition_acc(program, def), chunk)]

CircuitChunkArgs(program, def, chunk) ==
  [mxe_program |-> program, comp_def_offset |-> def, raw_circuit_index |-> chunk]

init_raw_circuit_acc_ix(signer, def, program, chunk) ==
  Ix("init_raw_circuit_acc", CircuitChunk(signer, program, def, chunk),
     CircuitChunkArgs(program, def, chunk))

upload_circuit_ix(signer, program, def, chunk) ==
  Ix("upload_circuit", CircuitChunk(signer, program, def, chunk),
     CircuitChunkArgs(program, def, chunk))

embiggen_raw_circuit_acc_ix(signer, def, program, chunk) ==
  Ix("embiggen_raw_circuit_acc", CircuitChunk(signer, program, def, chunk),
     CircuitChunkArgs(program, def, chunk))

\* Names the first chunk whatever the number of chunks.
finalize_computation_definition_ix(signer, def, program) ==
  Ix("finalize_computation_definition", CircuitChunk(signer, program, def, 0),
     [mxe_program |-> program, comp_def_offset |-> def])

-----------------------------------------------------------------------------
(* Computations. *)

\* The cluster is the one in the program's account as the caller has read it.
queue_computation_ix(payer, program, comp, def, mxe_data) ==
  Ix("queue_computation",
     [signer |-> payer, sign_seed |-> signer_acc(program),
      cluster |-> cluster_acc(mxe_data.cluster), mxe |-> mxe_acc(program),
      mempool |-> mempool_acc(mxe_data.cluster),
      executing_pool |-> execpool_acc(mxe_data.cluster),
      comp_def_acc |-> computation_definition_acc(program, def),
      comp |-> computation_acc(mxe_data.cluster, comp)],
     [mxe_program |-> program, comp_offset |-> comp, comp_def_offset |-> def])

callback_computation_ix(signer, program, comp, def, node, cluster) ==
  Ix("callback_computation",
     [signer |-> signer, node |-> arx_acc(node), comp |-> computation_acc(cluster, comp),
      mxe |-> mxe_acc(program), cluster_acc |-> cluster_acc(cluster),
      mempool |-> mempool_acc(cluster), executing_pool |-> execpool_acc(cluster),
      comp_def_acc |-> computation_definition_acc(program, def)],
     [node_offset |-> node, comp_def_offset |-> def, comp_offset |-> comp,
      mxe_program |-> program])

claim_failure_init_ix(signer, program, cluster, def, comp, node, len) ==
  Ix("claim_failure_init",
     [signer |-> signer, node_acc |-> arx_acc(node), mxe |-> mxe_acc(program),
      cluster_acc |-> cluster_acc(cluster), comp_acc |-> computation_acc(cluster, comp),
      comp_def_acc |-> computation_definition_acc(program, def),
      failure_acc |-> failure_claim_acc(program, comp)],
     [comp_offset |-> comp, node_offset |-> node, mxe_program |-> program,
      output_len_bytes |-> len])

claim_failure_append_ix(signer, program, comp, chunk_len, position) ==
  Ix("claim_failure_append",
     [signer |-> signer, failure_acc |-> failure_claim_acc(program, comp)],
     [comp_offset |-> comp, mxe_program |-> program, chunk_len |-> chunk_len,
      failure_claim_offset |-> position])

claim_failure_finalize_ix(signer, program, cluster, comp, node) ==
  Ix("claim_failure_finalize",
     [signer |-> signer, failure_acc |-> failure_claim_acc(program, comp),
      executing_pool |-> execpool_acc(cluster), mempool |-> mempool_acc(cluster),
      comp |-> computation_acc(cluster, comp), cluster_acc |-> cluster_acc(cluster),
      mxe |-> mxe_acc(program)],
     [comp_offset |-> comp, node_offset |-> node, mxe_program |-> program])

reclaim_failure_rent_idempotent_ix(signer, recipient, program, comp) ==
  Ix("reclaim_failure_rent_idempotent",
     [signer |-> signer, recipient |-> recipient,
      failure_acc |-> failure_claim_acc(program, comp)],
     [comp_offset |-> comp, mxe_program |-> program])

\* The callback of the program itself: the accounts every callback starts with,
\* then those the program has named when it queued the computation.
callback_computation_ix_user(program, callback_accs, def) ==
  Ix("callback",
     [comp_def_acc |-> computation_definition_acc(program, def), callback_accs |-> callback_accs],
     [mxe_program |-> program])

-----------------------------------------------------------------------------
(* The keys of a program. *)

requeue_mxe_keygen_ix(signer, program, cluster, comp) ==
  Ix("requeue_mxe_keygen",
     [signer |-> signer, mxe |-> mxe_acc(program), mempool |-> mempool_acc(cluster),
      executing_pool |-> execpool_acc(cluster), cluster |-> cluster_acc(cluster),
      mxe_keygen_computation |-> computation_acc(cluster, comp), mxe_program |-> program],
     [cluster_offset |-> cluster])

queue_key_recovery_init_ix(signer, program, cluster, comp) ==
  Ix("queue_key_recovery_init",
     [signer |-> signer, mxe |-> mxe_acc(program),
      recovery_cluster_acc |-> recovery_cluster_acc(program),
      executing_pool |-> execpool_acc(cluster), mempool |-> mempool_acc(cluster),
      key_recovery_init_computation_definition |->
        computation_definition_acc(program, MXE_KEY_RECOVERY_INIT_OFFSET),
      key_recovery_init_computation |-> computation_acc(cluster, comp), mxe_program |-> program],
     [cluster_offset |-> cluster, mxe_program |-> program])

\* What a node that brings a share of the keys is named by.
NodeOfMxe(signer, program, node, cluster) ==
  [signer |-> signer, node |-> arx_acc(node), mxe |-> mxe_acc(program),
   cluster_acc |-> cluster_acc(cluster)]

NodeOfMxeArgs(program, node) == [node_offset |-> node, mxe_program |-> program]

set_mxe_keys_ix(signer, program, node, cluster) ==
  Ix("set_mxe_keys", NodeOfMxe(signer, program, node, cluster), NodeOfMxeArgs(program, node))

finalize_mxe_keys_ix(signer, program, cluster) ==
  Ix("finalize_mxe_keys",
     [signer |-> signer, mxe |-> mxe_acc(program), cluster |-> cluster_acc(cluster)],
     [mxe_program |-> program])

RecoveryCluster(program) == [recovery_cluster_acc |-> recovery_cluster_acc(program)]

set_mxe_recovery_keys_init_ix(signer, program, node, cluster) ==
  Ix("set_mxe_recovery_keys_init",
     NodeOfMxe(signer, program, node, cluster) ++ RecoveryCluster(program),
     NodeOfMxeArgs(program, node))

extend_recovery_keyshares_ix(signer, program, node, cluster) ==
  Ix("extend_recovery_keyshares",
     NodeOfMxe(signer, program, node, cluster) ++ RecoveryCluster(program),
     NodeOfMxeArgs(program, node))

finalize_key_recovery_shares_upload_ix(signer, program, node, cluster, comp) ==
  Ix("finalize_key_recovery_shares_upload",
     NodeOfMxe(signer, program, node, cluster) ++ RecoveryCluster(program)
       ++ [comp |-> computation_acc(cluster, comp)],
     NodeOfMxeArgs(program, node) ++ [computation_offset |-> comp])

-----------------------------------------------------------------------------
(* The recovery of a program's keys by a backup program. *)

recover_mxe_ix(authority, program) ==
  Ix("recover_mxe",
     [authority |-> authority, mxe |-> mxe_acc(program), mxe_program |-> program],
     [mxe_program |-> program])

\* Mutant of Recovery: the two programs in the wrong order.
RecoverySwapped(original, backup) ==
  [original_mxe |-> mxe_acc(original), mxe_recovery_account |-> mxe_recovery_acc(original, backup),
   original_mxe_program |-> original, backup_mxe_program |-> backup]

\* What every step of a recovery names.
Recovery(original, backup) ==
  [original_mxe |-> mxe_acc(original), mxe_recovery_account |-> mxe_recovery_acc(backup, original),
   original_mxe_program |-> original, backup_mxe_program |-> backup]

RecoveryArgs(original, backup) ==
  [original_mxe_program |-> original, backup_mxe_program |-> backup]

RecoveryDef(backup) ==
  computation_definition_acc(backup, MXE_KEY_RECOVERY_FINALIZE_OFFSET)

init_key_recovery_execution_part1_ix(authority, payer, original, backup) ==
  Ix("init_key_recovery_execution_part1",
     [authority |-> authority, payer |-> payer] ++ Recovery(original, backup),
     RecoveryArgs(original, backup))

init_key_recovery_execution_part2_ix(payer, original, backup) ==
  Ix("init_key_recovery_execution_part2",
     [authority |-> payer, payer |-> payer, backup_mxe |-> mxe_acc(backup),
      key_recovery_finalize_comp_def |-> RecoveryDef(backup)]
       ++ RecoveryCluster(original) ++ Recovery(original, backup),
     RecoveryArgs(original, backup))

submit_key_recovery_share_ix(signer, original, backup, peer) ==
  Ix("submit_key_recovery_share",
     [signer |-> signer, recovery_peer_account |-> recovery_peer_acc(peer)]
       ++ RecoveryCluster(original) ++ Recovery(original, backup),
     RecoveryArgs(original, backup) ++ [peer_offset |-> peer])

finalize_key_recovery_execution_ix(authority, payer, original, backup, cluster, comp) ==
  Ix("finalize_key_recovery_execution",
     [authority |-> authority, payer |-> payer, backup_mxe |-> mxe_acc(backup),
      key_recovery_finalize_comp_def |-> RecoveryDef(backup),
      key_recovery_finalize_computation |-> computation_acc(cluster, comp),
      executing_pool |-> execpool_acc(cluster), mempool |-> mempool_acc(cluster)]
       ++ RecoveryCluster(original) ++ Recovery(original, backup),
     RecoveryArgs(original, backup) ++ [cluster_offset |-> cluster])

requeue_key_recovery_finalize_ix(authority, payer, original, backup, cluster, new, previous) ==
  Ix("requeue_key_recovery_finalize",
     [authority |-> authority, payer |-> payer, backup_mxe |-> mxe_acc(backup),
      key_recovery_finalize_comp_def |-> RecoveryDef(backup),
      previous_computation |-> computation_acc(cluster, previous),
      new_computation |-> computation_acc(cluster, new),
      executing_pool |-> execpool_acc(cluster), mempool |-> mempool_acc(cluster)]
       ++ Recovery(original, backup),
     RecoveryArgs(original, backup)
       ++ [cluster_offset |-> cluster, new_key_recovery_finalize_offset |-> new])

finalize_key_recovery_callback_ix(signer, original, backup, cluster, comp, node) ==
  Ix("finalize_key_recovery_callback",
     [signer |-> signer, backup_mxe |-> mxe_acc(backup),
      computation |-> computation_acc(cluster, comp), comp_def |-> RecoveryDef(backup),
      node |-> arx_acc(node), cluster_acc |-> cluster_acc(cluster),
      executing_pool |-> execpool_acc(cluster), mempool |-> mempool_acc(cluster)]
       ++ Recovery(original, backup),
     RecoveryArgs(original, backup)
       ++ [cluster_offset |-> cluster, comp_offset |-> comp, node_offset |-> node])

close_key_recovery_ix(authority, original, backup) ==
  Ix("close_key_recovery",
     [authority |-> authority, backup_mxe |-> mxe_acc(backup),
      key_recovery_finalize_comp_def |-> RecoveryDef(backup)] ++ Recovery(original, backup),
     RecoveryArgs(original, backup))

-----------------------------------------------------------------------------
(* Staking. *)

\* The token: its mint is the account of a key that is part of the library.
arcium_mint_keypair == <<"ArciumTokenMint">>

init_arcium_token_mint_ixs(signer) ==
  <<Ix("create_account", [from |-> signer, mint |-> arcium_mint_keypair], NoArgs),
    Ix("initialize_mint", [mint |-> arcium_mint_keypair], NoArgs)>>

airdrop_arcium_token_ixs(signer, recipient) ==
  <<Ix("create_associated_token_account_idempotent",
       [payer |-> signer, owner |-> recipient, ata |-> get_associated_token_address(recipient)],
       NoArgs),
    Ix("mint_to", [mint_authority |-> signer, ata |-> get_associated_token_address(recipient)],
       NoArgs)>>

init_primary_stake_acc_ix(signer) ==
  Ix("init_primary_stake",
     [from |-> signer, from_ta |-> get_associated_token_address(signer),
      primary_stake_account |-> primary_stake_acc(signer),
      stake_queue |-> stake_queue_acc(primary_stake_acc(signer))],
     NoArgs)

activate_primary_stake_acc_ix(signer) ==
  Ix("activate_primary_stake",
     [signer |-> signer, primary_stake_account |-> primary_stake_acc(signer)], NoArgs)

deactivate_primary_stake_acc_ix(signer, node) ==
  Ix("deactivate_primary_stake",
     [signer |-> signer, primary_stake_account |-> primary_stake_acc(signer)],
     [node_offset |-> node])

finalize_epoch_rewards_ix(signer, owner, node) ==
  Ix("finalize_epoch_rewards",
     [signer |-> signer, primary_stake_owner |-> owner,
      primary_stake_owner_ata |-> get_associated_token_address(owner),
      stake_queue |-> stake_queue_acc(primary_stake_acc(owner)),
      primary_stake_account |-> primary_stake_acc(owner)],
     [node_offset |-> node])

init_delegated_stake_master_acc_ix(signer, owner) ==
  Ix("init_stake_master_acc",
     [signer |-> signer, master_stake_account |-> stake_master_acc(owner), owner |-> owner], NoArgs)

init_delegated_stake_acc_ix(signer, stake) ==
  Ix("init_delegated_stake_acc",
     [from |-> signer, from_ata |-> get_associated_token_address(signer),
      master_stake_account |-> stake_master_acc(signer),
      user_stake_account |-> delegated_stake_acc(stake)],
     [stake_offset |-> stake])

delegate_stake_ix(signer, stake, owner) ==
  Ix("delegate_stake",
     [signer |-> signer, primary_acc_owner |-> owner,
      user_stake_account |-> delegated_stake_acc(stake), primary |-> primary_stake_acc(owner),
      stake_queue |-> stake_queue_acc(primary_stake_acc(owner))],
     [stake_offset |-> stake])

undelegate_stake_ix(signer, stake, owner) ==
  Ix("undelegate_stake",
     [signer |-> signer, user_stake_account |-> delegated_stake_acc(stake),
      primary |-> primary_stake_acc(owner)],
     [stake_offset |-> stake])

\* Those who may delegate a stake and those who may withdraw it, and its queue.
StakeAuthorities(target, delegation, withdrawal) ==
  [delegation_authority |-> delegation, withdrawal_authority |-> withdrawal,
   delegation_master |-> stake_master_acc(delegation),
   withdrawal_master |-> stake_master_acc(withdrawal),
   stake_queue |-> stake_queue_acc(primary_stake_acc(target))]

split_delegated_stake_account_ix(target, delegation, withdrawal, stake, new) ==
  Ix("split_delegated_stake_account",
     StakeAuthorities(target, delegation, withdrawal)
       ++ [old_stake_account |-> delegated_stake_acc(stake),
           new_stake_account |-> delegated_stake_acc(new)],
     [stake_offset |-> stake, stake_offset_new |-> new])

merge_delegated_stake_account_ix(target, delegation, withdrawal, keep, close) ==
  Ix("merge_delegated_stake_account",
     StakeAuthorities(target, delegation, withdrawal)
       ++ [stake_acc_to_keep |-> delegated_stake_acc(keep),
           stake_acc_to_close |-> delegated_stake_acc(close)],
     [stake_offset_keep |-> keep, stake_offset_close |-> close])

close_delegated_stake_ix(signer, owner, stake) ==
  Ix("close_delegated_stake",
     [signer |-> signer, signer_ata |-> get_associated_token_address(signer),
      withdrawal_master |-> stake_master_acc(signer), delegation_master |-> stake_master_acc(owner),
      delegation_owner |-> owner, user_stake_account |-> delegated_stake_acc(stake)],
     [stake_offset |-> stake])
=============================================================================
