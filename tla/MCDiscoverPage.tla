--------------------------- MODULE MCDiscoverPage ---------------------------
(* Three runs, so that two discoveries and a setup overlap in any order.     *)
EXTENDS DiscoverPage

MCCalls == 1..3

=============================================================================
