---------------------------- MODULE ArciumProgram -----------------------------
(***************************************************************************)
(* What becomes of a transaction (external: the Arcium program is not in   *)
(* the repository).  The addresses an instruction must name, the accounts  *)
(* that sign, and those it creates and closes are those of idls/*.json.    *)
(* acc is the chain: a function from the addresses of the accounts that    *)
(* exist to their contents.  Contents are kept as far as the library or an *)
(* address depends on them.                                                *)
(***************************************************************************)
EXTENDS ArciumInstructions, Mempool

CONSTANTS Wallets,          \* the keys that sign
          Programs,         \* the programs that compute with Arcium
          Fee,              \* the fee of a computation, by its offset
          FinalizeOffset    \* the offset that a new recovery account holds

\* A fee is a u64.
ASSUME FeesAssumption == \A offset \in DOMAIN Fee : Fee[offset] \in Nat

\* A transaction: its instructions and the keys it is signed with.
Tx(ixs, keys) == [ixs |-> ixs, keys |-> keys]

Present    == [present |-> TRUE]
Inactive   == [state |-> "Inactive", cluster |-> None]
Proposed(c) == [state |-> "Proposed", cluster |-> c]
Active(c)   == [state |-> "Active", cluster |-> c]

Computation(program, def, stage) == [mxe |-> program, def |-> def, stage |-> stage]

-----------------------------------------------------------------------------
(* Addresses. *)

Program(ix) ==
  IF "mxe_program" \in DOMAIN ix.args THEN ix.args.mxe_program ELSE ix.accs.mxe_program

\* The cluster is an argument, or the program's, or that of the node.
ClusterOf(acc, ix) ==
  IF "cluster_offset" \in DOMAIN ix.args THEN ix.args.cluster_offset
  ELSE IF ix.ix = "deactivate_arx" THEN acc[ix.accs.arx_node_acc].cluster_membership.cluster
  ELSE acc[ix.accs.mxe].cluster

ComputationOf(acc, ix, comp) == computation_acc(ClusterOf(acc, ix), comp)

\* The owner of the primary stake that an instruction names.
StakeOwner(ix) ==
  IF "primary_stake_owner" \in DOMAIN ix.accs THEN ix.accs.primary_stake_owner
  ELSE IF "primary_acc_owner" \in DOMAIN ix.accs THEN ix.accs.primary_acc_owner
  ELSE IF "from" \in DOMAIN ix.accs THEN ix.accs.from ELSE ix.accs.signer

StakeQueue(acc, ix) ==
  IF "old_stake_account" \in DOMAIN ix.accs
    THEN stake_queue_acc(acc[ix.accs.old_stake_account].delegation_target)
  ELSE IF "stake_acc_to_keep" \in DOMAIN ix.accs
    THEN stake_queue_acc(acc[ix.accs.stake_acc_to_keep].delegation_target)
  ELSE stake_queue_acc(primary_stake_acc(StakeOwner(ix)))

\* The address an instruction must name in a role; any, if the role is not listed.
Prescribed(acc, ix, role) ==
  CASE role \in {"fee_pool", "pool"} -> fee_pool_acc
    [] role = "clock" -> clock_acc
    [] role \in {"arx_node_acc", "node", "node_acc"} -> arx_acc(ix.args.node_offset)
    [] role = "operator_acc" ->
         operator_acc(IF ix.ix = "init_operator" THEN ix.accs.signer ELSE ix.accs.operator_signer)
    [] role = "recovery_peer_account" -> recovery_peer_acc(ix.args.peer_offset)
    [] role \in {"cluster", "cluster_acc"} /\ ix.accs[role] # <<None>> ->
         cluster_acc(ClusterOf(acc, ix))
    [] role = "mempool" -> mempool_acc(ClusterOf(acc, ix))
    [] role \in {"execpool", "executing_pool"} -> execpool_acc(ClusterOf(acc, ix))
    [] role = "mxe" -> mxe_acc(Program(ix))
    [] role = "original_mxe" -> mxe_acc(ix.args.original_mxe_program)
    [] role = "backup_mxe" -> mxe_acc(ix.args.backup_mxe_program)
    [] role = "recovery_cluster_acc" ->
         recovery_cluster_acc(IF "original_mxe_program" \in DOMAIN ix.args
                                THEN ix.args.original_mxe_program ELSE Program(ix))
    [] role = "mxe_recovery_account" ->
         mxe_recovery_acc(ix.args.backup_mxe_program, ix.args.original_mxe_program)
    [] role = "program_data" -> program_data(Program(ix))
    [] role = "sign_seed" -> signer_acc(Program(ix))
    [] role \in {"comp", "comp_acc", "computation"} ->
         ComputationOf(acc, ix, IF "comp_offset" \in DOMAIN ix.args THEN ix.args.comp_offset
                                                                    ELSE ix.args.computation_offset)
    [] role = "mxe_keygen_computation" ->
         ComputationOf(acc, ix, IF "keygen_offset" \in DOMAIN ix.args THEN ix.args.keygen_offset
                                ELSE acc[ix.accs.mxe].keygen_offset)
    [] role = "key_recovery_init_computation" ->
         ComputationOf(acc, ix, IF "key_recovery_init_offset" \in DOMAIN ix.args
                                THEN ix.args.key_recovery_init_offset
                                ELSE acc[ix.accs.mxe].key_recovery_init_offset)
    [] role \in {"key_recovery_finalize_computation", "previous_computation"} ->
         ComputationOf(acc, ix, acc[ix.accs.mxe_recovery_account].key_recovery_finalize_offset)
    [] role = "new_computation" ->
         ComputationOf(acc, ix, ix.args.new_key_recovery_finalize_offset)
    [] role = "comp_def_acc" /\ ix.ix # "callback" ->
         computation_definition_acc(Program(ix), IF ix.ix = "claim_failure_init"
                                                   THEN acc[ix.accs.comp_acc].def
                                                   ELSE ix.args.comp_def_offset)
    [] role = "mxe_keygen_computation_definition" -> computation_definition_acc(Program(ix), 1)
    [] role = "key_recovery_init_computation_definition" ->
         computation_definition_acc(Program(ix), 2)
    [] role \in {"key_recovery_finalize_comp_def", "comp_def"} ->
         computation_definition_acc(ix.args.backup_mxe_program, 3)
    [] role = "comp_def_raw" ->
         raw_circuit_acc(ix.accs.comp_def_acc, IF "raw_circuit_index" \in DOMAIN ix.args
                                                 THEN ix.args.raw_circuit_index ELSE 0)
    [] role = "failure_acc" /\ ix.ix # "reclaim_failure_rent_idempotent" ->
         failure_claim_acc(Program(ix), ix.args.comp_offset)
    [] role = "primary_stake_account" -> primary_stake_acc(StakeOwner(ix))
    [] role = "primary" /\ ix.ix = "delegate_stake" -> primary_stake_acc(StakeOwner(ix))
    [] role \in {"from_ta", "primary_stake_owner_ata"} ->
         get_associated_token_address(StakeOwner(ix))
    [] role = "stake_queue" -> StakeQueue(acc, ix)
    [] role = "master_stake_account" ->
         stake_master_acc(IF "owner" \in DOMAIN ix.accs THEN ix.accs.owner ELSE ix.accs.from)
    [] role = "delegation_master" ->
         stake_master_acc(IF "delegation_owner" \in DOMAIN ix.accs THEN ix.accs.delegation_owner
                                                                   ELSE ix.accs.delegation_authority)
    [] role = "withdrawal_master" ->
         stake_master_acc(IF ix.ix = "close_delegated_stake" THEN ix.accs.signer
                                                             ELSE ix.accs.withdrawal_authority)
    [] role \in {"user_stake_account", "old_stake_account"} ->
         delegated_stake_acc(ix.args.stake_offset)
    [] role = "new_stake_account" -> delegated_stake_acc(ix.args.stake_offset_new)
    [] role = "stake_acc_to_keep" -> delegated_stake_acc(ix.args.stake_offset_keep)
    [] role = "stake_acc_to_close" -> delegated_stake_acc(ix.args.stake_offset_close)
    [] OTHER -> ix.accs[role]

AddressesMatch(acc, ix) == \A role \in DOMAIN ix.accs : ix.accs[role] = Prescribed(acc, ix, role)

-----------------------------------------------------------------------------
(* Signatures: those of the accounts that must sign, and no other. *)

SignerRoles ==
  {"signer", "operator_signer", "authority", "payer", "current_authority", "cluster_authority",
   "node_authority", "delegation_authority", "from", "mint_authority", "sign_seed"}

RequiredKeys(ix) ==
  {ix.accs[role] : role \in (DOMAIN ix.accs \intersect SignerRoles)
                            \ (IF ix.ix = "init_cluster" THEN {"authority"} ELSE {})}
  \union (IF ix.ix = "create_account" THEN {ix.accs.mint} ELSE {})

SignedRight(tx) == UNION {RequiredKeys(ix) : ix \in ToSet(tx.ixs)} = tx.keys

-----------------------------------------------------------------------------
(* Accounts that an instruction creates and closes. *)

CreatedRoles(name) ==
  CASE name = "init" -> {"fee_pool", "clock"}
    [] name = "init_operator" -> {"operator_acc"}
    [] name = "init_arx_node" -> {"arx_node_acc"}
    [] name = "init_recovery_peer_account" -> {"recovery_peer_account"}
    [] name = "init_cluster" -> {"cluster_acc", "mempool", "execpool"}
    [] name = "init_mxe_part1" -> {"recovery_cluster_acc"}
    [] name = "init_mxe_part2" ->
         {"mxe", "address_lookup_table", "mxe_keygen_computation_definition",
          "mxe_keygen_computation", "key_recovery_init_computation"}
    [] name = "init_computation_definition" -> {"comp_def_acc"}
    [] name = "init_raw_circuit_acc" -> {"comp_def_raw"}
    [] name = "queue_computation" -> {"comp"}
    [] name = "queue_key_recovery_init" -> {"key_recovery_init_computation_definition"}
    [] name = "init_key_recovery_execution_part1" -> {"mxe_recovery_account"}
    [] name = "init_key_recovery_execution_part2" -> {"key_recovery_finalize_comp_def"}
    [] name = "finalize_key_recovery_execution" -> {"key_recovery_finalize_computation"}
    [] name = "requeue_key_recovery_finalize" -> {"new_computation"}
    [] name = "claim_failure_init" -> {"failure_acc"}
    [] name = "create_account" -> {"mint"}
    [] name = "init_primary_stake" -> {"primary_stake_account", "stake_queue"}
    [] name = "init_stake_master_acc" -> {"master_stake_account"}
    [] name = "init_delegated_stake_acc" -> {"user_stake_account"}
    [] name = "split_delegated_stake_account" -> {"new_stake_account"}
    [] OTHER -> {}

\* Created unless they are there, or closed if they are: the two idempotent ones.
OptionalRoles(name) ==
  CASE name = "create_associated_token_account_idempotent" -> {"ata"}
    [] name = "reclaim_failure_rent_idempotent" -> {"failure_acc"}
    [] OTHER -> {}

ClosedRoles(name) ==
  CASE name = "close_key_recovery" -> {"mxe_recovery_account", "key_recovery_finalize_comp_def"}
    [] name = "reclaim_failure_rent_idempotent" -> {"failure_acc"}
    [] name = "merge_delegated_stake_account" -> {"stake_acc_to_close"}
    [] name = "close_delegated_stake" -> {"user_stake_account"}
    [] OTHER -> {}

\* Accounts that are there whatever Arcium does, and the account not given.
Standing ==
  Wallets \union Programs \union {<<None>>}
    \union {signer_acc(p) : p \in Programs} \union {program_data(p) : p \in Programs}

\* The accounts whose contents determine other addresses are there.
SourcesExist(acc, ix) ==
  \A role \in (DOMAIN ix.accs \ CreatedRoles(ix.ix))
                \intersect {"mxe", "comp_acc", "arx_node_acc", "mxe_recovery_account",
                            "old_stake_account", "stake_acc_to_keep"} :
    ix.accs[role] \in DOMAIN acc

\* Each account that is created is new, and is created once.
AccountsMatch(acc, ix) ==
  /\ \A role \in DOMAIN ix.accs \ (OptionalRoles(ix.ix) \union {"callback_accs"}) :
       IF role \in CreatedRoles(ix.ix) THEN ix.accs[role] \notin DOMAIN acc
                                       ELSE ix.accs[role] \in DOMAIN acc \union Standing
  /\ \A r \in CreatedRoles(ix.ix) : \A q \in CreatedRoles(ix.ix) \ {r} : ix.accs[r] # ix.accs[q]

-----------------------------------------------------------------------------
(* What the program itself asks (its errors, in idls/arcium.json). *)

\* The computation an instruction puts in the mempool, and the reference to it.
QueuedRole(name) ==
  CASE name = "queue_computation" -> "comp"
    [] name \in {"init_mxe_part2", "requeue_mxe_keygen"} -> "mxe_keygen_computation"
    [] name = "queue_key_recovery_init" -> "key_recovery_init_computation"
    [] name = "finalize_key_recovery_execution" -> "key_recovery_finalize_computation"
    [] name = "requeue_key_recovery_finalize" -> "new_computation"
    [] OTHER -> None

\* Computations without a fee of their own pay none.
FeeOf(offset) == IF offset \in DOMAIN Fee THEN Fee[offset] ELSE 0

\* The last part of a computation's address is its offset.
RefTo(address) == Ref(address[3], FeeOf(address[3]))

\* A computation that waits or runs.
Underway(acc, address) ==
  address \in DOMAIN acc /\ acc[address].stage \in {"queued", "executing"}

Allowed(acc, ix) ==
  LET node == acc[ix.accs.arx_node_acc]
      stage(role) == IF ix.accs[role] \in DOMAIN acc THEN acc[ix.accs[role]].stage ELSE None
      pool == ix.accs.mempool
      original == acc[ix.accs.original_mxe]
      recovery == acc[ix.accs.mxe_recovery_account]
  IN  /\ QueuedRole(ix.ix) # None => pool \in DOMAIN acc /\ HasRoom(acc[pool])
      /\ CASE ix.ix = "activate_arx" -> ~ node.is_active
           [] ix.ix = "deactivate_arx" ->
                /\ node.is_active
                /\ node.cluster_membership.state = "Active" =>
                     ~ acc[cluster_acc(node.cluster_membership.cluster)].active
           [] ix.ix = "propose_join_cluster" ->
                /\ node.cluster_membership = Inactive
                /\ ix.args.node_offset \notin acc[ix.accs.cluster_acc].nodes
           [] ix.ix = "join_cluster" ->
                node.cluster_membership = Proposed(ix.args.cluster_offset)
           [] ix.ix = "activate_cluster" ->
                ~ acc[ix.accs.cluster_acc].active /\ acc[ix.accs.cluster_acc].nodes # {}
           [] ix.ix = "deactivate_cluster" -> acc[ix.accs.cluster_acc].active
           [] ix.ix = "set_cluster" -> acc[ix.accs.mxe].cluster = None
           [] ix.ix = "finalize_computation_definition" -> ~ acc[ix.accs.comp_def_acc].complete
           [] ix.ix = "queue_computation" ->
                acc[ix.accs.mxe].status = "Active" /\ acc[ix.accs.comp_def_acc].complete
           [] ix.ix = "callback_computation" -> stage("comp") = "executing"
           [] ix.ix = "claim_failure_init" -> stage("comp_acc") = "executing"
           [] ix.ix = "claim_failure_append" -> acc[ix.accs.failure_acc].state = "init"
           [] ix.ix = "claim_failure_finalize" ->
                acc[ix.accs.failure_acc].state = "appended" /\ stage("comp") = "executing"
           [] ix.ix = "finalize_mxe_keys" -> ~ acc[ix.accs.mxe].keys_set
           [] ix.ix = "requeue_mxe_keygen" -> stage("mxe_keygen_computation") = "expired"
           [] ix.ix = "queue_key_recovery_init" ->
                acc[ix.accs.mxe].keys_set /\ stage("key_recovery_init_computation") = "waiting"
           [] ix.ix = "recover_mxe" -> acc[ix.accs.mxe].status = "Active"
           [] ix.ix = "init_key_recovery_execution_part1" -> original.status = "Recovery"
           [] ix.ix = "finalize_key_recovery_execution" -> ~ recovery.is_finalized
           [] ix.ix = "requeue_key_recovery_finalize" ->
                stage("previous_computation") \in {"expired", "final"}
           [] ix.ix = "finalize_key_recovery_callback" -> stage("computation") = "executing"
           [] ix.ix = "close_key_recovery" ->
                ~ Underway(acc, computation_acc(acc[ix.accs.backup_mxe].cluster,
                                                recovery.key_recovery_finalize_offset))
           [] ix.ix = "delegate_stake" -> acc[ix.accs.user_stake_account].delegation_target = <<None>>
           [] ix.ix = "undelegate_stake" ->
                acc[ix.accs.user_stake_account].delegation_target = ix.accs.primary
           [] ix.ix = "merge_delegated_stake_account" ->
                /\ ix.accs.stake_acc_to_close # ix.accs.stake_acc_to_keep
                /\ acc[ix.accs.stake_acc_to_close].delegation_target
                     = acc[ix.accs.stake_acc_to_keep].delegation_target
           [] ix.ix = "close_delegated_stake" ->
                acc[ix.accs.user_stake_account].delegation_target = <<None>>
           [] OTHER -> TRUE

-----------------------------------------------------------------------------
(* Effects. *)

\* The contents of an account that is created.
NewContent(acc, ix, role) ==
  CASE role = "arx_node_acc" -> [is_active |-> FALSE, cluster_membership |-> Inactive]
    [] role = "cluster_acc" -> [nodes |-> {}, pending_nodes |-> {}, active |-> FALSE]
    [] role = "mempool" -> NewMempool
    [] role = "execpool" -> NewExecpool
    [] role = "mxe" ->
         [cluster |-> ix.args.cluster_offset, keygen_offset |-> ix.args.keygen_offset,
          key_recovery_init_offset |-> ix.args.key_recovery_init_offset,
          keys_set |-> FALSE, status |-> "Active"]
    [] role = "mxe_keygen_computation" -> Computation(Program(ix), 1, "queued")
    [] role = "key_recovery_init_computation" -> Computation(Program(ix), 2, "waiting")
    [] role = "comp" -> Computation(Program(ix), ix.args.comp_def_offset, "queued")
    [] role \in {"key_recovery_finalize_computation", "new_computation"} ->
         Computation(ix.accs.backup_mxe_program, 3, "queued")
    [] role = "comp_def_acc" -> [complete |-> FALSE]
    [] role = "mxe_recovery_account" ->
         [key_recovery_finalize_offset |-> FinalizeOffset, is_finalized |-> FALSE]
    [] role = "failure_acc" -> [state |-> "init"]
    [] role = "user_stake_account" -> [delegation_target |-> <<None>>]
    [] role = "new_stake_account" ->
         [delegation_target |-> acc[ix.accs.old_stake_account].delegation_target]
    [] OTHER -> Present

Created(acc, ix) ==
  LET roles == (CreatedRoles(ix.ix) \union OptionalRoles(ix.ix)) \ ClosedRoles(ix.ix)
      roleAt(a) == CHOOSE role \in roles : ix.accs[role] = a
  IN  [a \in {ix.accs[role] : role \in roles} |-> NewContent(acc, ix, roleAt(a))]

Closed(ix) == {ix.accs[role] : role \in ClosedRoles(ix.ix)}

\* The computation at an address has come to its end.
Ended(acc, comp, pool) ==
  Entry(comp, [acc[comp] EXCEPT !.stage = "final"])
    ++ Entry(pool, [k \in 1 .. PoolSize |-> IF acc[pool][k] = RefTo(comp) THEN Zeroed
                                                                         ELSE acc[pool][k]])

\* The contents of the accounts that change.
Changed(acc, ix) ==
  LET at(role) == ix.accs[role]
      was(role) == acc[ix.accs[role]]
      becomes(role, content) == Entry(ix.accs[role], content)
      queued == IF QueuedRole(ix.ix) = None THEN <<>>
                ELSE becomes("mempool", Push(was("mempool"), RefTo(at(QueuedRole(ix.ix)))))
      n == ix.args.node_offset
      c == ix.args.cluster_offset
  IN  queued ++
      CASE ix.ix = "activate_arx" ->
             becomes("arx_node_acc", [was("arx_node_acc") EXCEPT !.is_active = TRUE])
        [] ix.ix = "deactivate_arx" ->
             becomes("arx_node_acc", [is_active |-> FALSE, cluster_membership |-> Inactive])
        [] ix.ix = "propose_join_cluster" ->
             becomes("arx_node_acc", [was("arx_node_acc") EXCEPT !.cluster_membership = Proposed(c)])
               ++ becomes("cluster_acc", [was("cluster_acc") EXCEPT !.pending_nodes = @ \union {n}])
        [] ix.ix = "join_cluster" ->
             becomes("arx_node_acc",
                [was("arx_node_acc") EXCEPT
                   !.cluster_membership = IF ix.args.join THEN Active(c) ELSE Inactive])
               ++ becomes("cluster_acc",
                    [was("cluster_acc") EXCEPT
                       !.pending_nodes = @ \ {n},
                       !.nodes = IF ix.args.join THEN @ \union {n} ELSE @])
        [] ix.ix \in {"activate_cluster", "deactivate_cluster"} ->
             becomes("cluster_acc",
                     [was("cluster_acc") EXCEPT !.active = (ix.ix = "activate_cluster")])
        [] ix.ix = "finalize_computation_definition" -> becomes("comp_def_acc", [complete |-> TRUE])
        [] ix.ix = "callback_computation" -> Ended(acc, at("comp"), at("executing_pool"))
        [] ix.ix = "finalize_key_recovery_callback" ->
             Ended(acc, at("computation"), at("executing_pool"))
        [] ix.ix = "claim_failure_append" -> becomes("failure_acc", [state |-> "appended"])
        [] ix.ix = "claim_failure_finalize" ->
             becomes("failure_acc", [state |-> "final"])
               ++ Ended(acc, at("comp"), at("executing_pool"))
        [] ix.ix = "finalize_mxe_keys" -> becomes("mxe", [was("mxe") EXCEPT !.keys_set = TRUE])
        [] ix.ix \in {"requeue_mxe_keygen", "queue_key_recovery_init"} ->
             becomes(QueuedRole(ix.ix), [was(QueuedRole(ix.ix)) EXCEPT !.stage = "queued"])
        [] ix.ix = "recover_mxe" -> becomes("mxe", [was("mxe") EXCEPT !.status = "Recovery"])
        [] ix.ix = "finalize_key_recovery_execution" ->
             becomes("mxe_recovery_account", [was("mxe_recovery_account") EXCEPT !.is_finalized = TRUE])
        [] ix.ix = "requeue_key_recovery_finalize" ->
             becomes("mxe_recovery_account",
               [was("mxe_recovery_account") EXCEPT
                  !.key_recovery_finalize_offset = ix.args.new_key_recovery_finalize_offset])
        [] ix.ix \in {"delegate_stake", "undelegate_stake"} ->
             becomes("user_stake_account",
               [delegation_target |-> IF ix.ix = "delegate_stake" THEN at("primary") ELSE <<None>>])
        [] OTHER -> <<>>

\* The chain after an instruction.
Executed(acc, ix) ==
  LET changed == Changed(acc, ix)
      created == [a \in DOMAIN Created(acc, ix) \ DOMAIN acc |-> Created(acc, ix)[a]]
  IN  [a \in (DOMAIN acc \union DOMAIN created) \ Closed(ix) |->
         IF a \in DOMAIN changed THEN changed[a]
         ELSE IF a \in DOMAIN created THEN created[a] ELSE acc[a]]

\* What an instruction fails for, if it fails.
Refusal(acc, ix) ==
  IF ~ SourcesExist(acc, ix) THEN "account"
  ELSE IF ~ AddressesMatch(acc, ix) THEN "address"
  ELSE IF ~ AccountsMatch(acc, ix) THEN "account"
  ELSE IF ~ Allowed(acc, ix) THEN "refused" ELSE "none"

\* A transaction takes effect as a whole or not at all.
Outcome(acc, tx) ==
  LET run[n \in 0 .. Len(tx.ixs)] ==
        IF n = 0 THEN [refusal |-> "none", acc |-> acc]
        ELSE LET r == run[n - 1]
                 refusal == Refusal(r.acc, tx.ixs[n])
             IN  IF r.refusal # "none" THEN r
                 ELSE [refusal |-> refusal,
                       acc |-> IF refusal = "none" THEN Executed(r.acc, tx.ixs[n]) ELSE acc]
  IN  IF SignedRight(tx) THEN run[Len(tx.ixs)] ELSE [refusal |-> "signature", acc |-> acc]
=============================================================================
