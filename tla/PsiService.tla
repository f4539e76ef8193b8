----------------------------- MODULE PsiService -----------------------------
(***************************************************************************)
(* What the PrivaSee program promises the people who use it, without       *)
(* accounts, offsets of computation definitions or a cluster: a user       *)
(* registers a contact set and may replace it; a request pairs the sets    *)
(* registered at that moment, under a number nobody has used; a request is *)
(* answered at most once and never taken back.                             *)
(***************************************************************************)
EXTENDS Integers

CONSTANTS Users, Offsets, Sets

VARIABLES
  registered,  \* the set each registered user has registered last
  jobs         \* the requests made so far: the pair of sets and whether answered

vars == <<registered, jobs>>

Job == [sets : Sets \X Sets, answered : BOOLEAN]

\* A partial function like f, with x mapped to y.
Put(f, x, y) == [z \in DOMAIN f \cup {x} |-> IF z = x THEN y ELSE f[z]]

Init ==
  /\ registered = [u \in {} |-> {}]
  /\ jobs = [k \in {} |-> {}]

Register(u, s) ==
  /\ registered' = Put(registered, u, s)
  /\ UNCHANGED jobs

Request(u, t, o) ==
  /\ {u, t} \subseteq DOMAIN registered
  /\ \A k \in DOMAIN jobs : k[2] # o
  /\ jobs' = Put(jobs, <<u, o>>,
                 [sets |-> <<registered[u], registered[t]>>, answered |-> FALSE])
  /\ UNCHANGED registered

Answer(k) ==
  /\ k \in DOMAIN jobs
  /\ ~jobs[k].answered
  /\ jobs' = [jobs EXCEPT ![k].answered = TRUE]
  /\ UNCHANGED registered

Next ==
  \/ \E u \in Users, s \in Sets : Register(u, s)
  \/ \E u, t \in Users, o \in Offsets : Request(u, t, o)
  \/ \E k \in DOMAIN jobs : Answer(k)

Spec == Init /\ [][Next]_vars
=============================================================================
