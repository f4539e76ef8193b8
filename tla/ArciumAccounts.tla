---------------------------- MODULE ArciumAccounts ----------------------------
(***************************************************************************)
(* The addresses arcium-client derives (pda.rs).  A derived address is the *)
(* tuple of its seeds: different seeds give different addresses.  The bump *)
(* is left out, and so is the program that owns the account, except where  *)
(* it is not Arcium's.                                                     *)
(***************************************************************************)

\* Records and other functions are joined; the first has precedence.
f ++ g == [x \in DOMAIN f \union DOMAIN g |-> IF x \in DOMAIN f THEN f[x] ELSE g[x]]

\* One account and its content.
Entry(address, content) == [a \in {address} |-> content]

\* Nodes, clusters and those who share keys.
arx_acc(node)            == <<"ArxNode", node>>
operator_acc(owner)      == <<"Operator", owner>>
recovery_peer_acc(peer)  == <<"RecoveryPeerAccount", peer>>
cluster_acc(cluster)     == <<"Cluster", cluster>>

\* What a cluster is to compute, and what it is computing.  The account of a
\* computation belongs to the cluster: all programs of a cluster share its offsets.
mempool_acc(cluster)           == <<"Mempool", cluster>>
execpool_acc(cluster)          == <<"Execpool", cluster>>
computation_acc(cluster, comp) == <<"ComputationAccount", cluster, comp>>

\* The claim that a computation failed belongs to the program.
failure_claim_acc(program, comp) == <<"FailureClaimAccountHeader", program, comp>>

\* A program that computes with Arcium, its circuits and its signer.
mxe_acc(program)                         == <<"MXEAccount", program>>
mxe_lut_acc(program, slot)               == <<"LookupTable", mxe_acc(program), slot>>
computation_definition_acc(program, def) == <<"ComputationDefinitionAccount", program, def>>
raw_circuit_acc(def_acc, chunk)          == <<"ComputationDefinitionRaw", def_acc, chunk>>
signer_acc(program)                      == <<"ArciumSignerAccount", program>>

\* Its keys: their shares, and their recovery by another program.
recovery_cluster_acc(program)      == <<"RecoveryClusterAccount", program>>
mxe_recovery_acc(backup, original) == <<"MxeRecoveryAccount", backup, original>>

\* One of each.
clock_acc    == <<"ClockAccount">>
fee_pool_acc == <<"FeePool">>

\* Staking.  The account of a delegated stake belongs to nobody.
staking_pool_acc           == <<"StakingPoolAccount">>
primary_stake_acc(owner)   == <<"PrimaryStakingAccount", owner>>
stake_queue_acc(primary)   == <<"StakeQueueAccount", primary>>
stake_master_acc(owner)    == <<"DelegationMasterAccount", owner>>
delegated_stake_acc(stake) == <<"DelegatedStakingAccount", stake>>

\* Derived by the libraries of Solana: the data of an upgradeable program, and the
\* account in which an owner holds Arcium's token.
program_data(program)               == <<"ProgramData", program>>
get_associated_token_address(owner) == <<"TokenAccount", owner>>
=============================================================================
