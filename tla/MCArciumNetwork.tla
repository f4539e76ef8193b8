--------------------------- MODULE MCArciumNetwork ----------------------------
(* Two of everything that can compete.  The offset 0 has no fee: the         *)
(* reference to that computation is all zero.                                *)
EXTENDS ArciumNetwork

MCOffsets == 0 .. 2
MCFee     == [o \in (0 .. 2) \union (11 .. 15) |-> IF o <= 1 THEN 0 ELSE o % 3]
MCChunks  == 0 .. 1
MCStakes  == 1 .. 2
MCTopics  == {"nodes", "discovery", "programs", "computations", "keys", "recovery", "staking"}

=============================================================================
