---------------------------- MODULE MCPsiCircuit ----------------------------
(* A small instance of PsiCircuit: two slots, so that repeated contacts,     *)
(* empty slots between filled ones and counts below and above the capacity   *)
(* all occur; two values per half, so that hashes that share one half occur. *)
EXTENDS PsiCircuit

MCHalf    == {0, 1}
MCCounts  == {0, 1, 2, 3}
MCClients == {"alice", "bob"}

=============================================================================
