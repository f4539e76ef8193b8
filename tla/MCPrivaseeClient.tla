-------------------------- MODULE MCPrivaseeClient --------------------------
(* Two wallets and up to two calls at a time; an address that is no public   *)
(* key; contacts that differ in case only, in one list and across lists.     *)
EXTENDS PrivaseeClient

MCWallets  == {"alice", "bob"}
MCTargets  == {"bob", "no-key"}
MCContacts == {"Ann", "ann", "Eve"}
MCNormal   == [x \in MCContacts |-> IF x = "Eve" THEN "eve" ELSE "ann"]
MCLists    == {<<"Ann">>, <<"Eve", "ann", "Ann">>}
MCNoMutual == "Discovery complete. No mutual contacts found."

=============================================================================
