---------------------------- MODULE MCRegisterPage ----------------------------
(* Two registrations, so that one of a page that was left and one of the next *)
(* overlap; a paste can fill the list and more, with an address twice.        *)
EXTENDS RegisterPage

MCCalls == 1 .. 2

=============================================================================
