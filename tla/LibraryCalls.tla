---------------------------- MODULE LibraryCalls ----------------------------
(***************************************************************************)
(* What a page sees of the client library: a call is made once, waits, and *)
(* then either returns, in one of the two modes, or throws, unless it is   *)
(* lost with its page.  It does neither twice, and it does not wait for    *)
(* ever.                                                                   *)
(***************************************************************************)
CONSTANT Calls

VARIABLES
  outcome,  \* what has become of each call
  mode      \* the mode in which a call has returned

callVars == <<outcome, mode>>

CallInit ==
  /\ outcome = [c \in Calls |-> "none"]
  /\ mode = [c \in Calls |-> "none"]

Make(c) ==
  /\ outcome[c] = "none"
  /\ outcome' = [outcome EXCEPT ![c] = "waiting"]
  /\ UNCHANGED mode

Returns(c) ==
  /\ outcome[c] = "waiting"
  /\ outcome' = [outcome EXCEPT ![c] = "returned"]
  /\ \E m \in {"arcium", "demo"} : mode' = [mode EXCEPT ![c] = m]

Throws(c) ==
  /\ outcome[c] = "waiting"
  /\ outcome' = [outcome EXCEPT ![c] = "thrown"]
  /\ UNCHANGED mode

IsLost(c) ==
  /\ outcome[c] = "waiting"
  /\ outcome' = [outcome EXCEPT ![c] = "lost"]
  /\ UNCHANGED mode

CallNext == \E c \in Calls : Make(c) \/ Returns(c) \/ Throws(c) \/ IsLost(c)

\* Every call that waits comes to an end.
CallsEnd == \A c \in Calls : WF_callVars(Returns(c) \/ Throws(c))

CallSpec == CallInit /\ [][CallNext]_callVars /\ CallsEnd
=============================================================================
