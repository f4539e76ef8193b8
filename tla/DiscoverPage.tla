---------------------------- MODULE DiscoverPage ----------------------------
(***************************************************************************)
(* The page app/discover/page.tsx over the client library, of which it     *)
(* sees the calls of LibraryCalls.                                         *)
(*                                                                         *)
(* A run is one execution of handleDiscover or handleSetupNetwork and      *)
(* makes one call of the library, which has the number of the run.  Runs   *)
(* suspend at timers and at calls; all of them write one status.  The      *)
(* state updates of one synchronous stretch are one step, as React renders *)
(* them at once; those of a page that was left have no effect.  Matches    *)
(* and transaction of a result are identified with its call.               *)
(***************************************************************************)
EXTENDS LibraryCalls, Naturals

Runs == Calls

ASSUME PageAssumption == Calls \subseteq Nat \ {0}

VARIABLES
  connected,  \* whether a wallet is connected
  page,       \* the state of the mounted page
  run         \* the runs so far

vars == <<callVars, connected, page, run>>

Busy == {"encrypting", "computing", "decrypting"}

Page == [status       : Busy \cup {"idle", "complete", "error"},
         matches      : SUBSET Calls,         \* those of a call, or none
         txSignature  : Calls \cup {0},       \* that of a call, or null
         errorMessage : BOOLEAN,              \* whether there is one
         resultMode   : {"arcium", "demo"}]

Run == [kind    : {"discover", "setup"},
        at      : {"encrypting", "calling", "decrypting", "ended"},
        mounted : BOOLEAN]   \* whether the page shown is the one it was started on

FreshPage == [status |-> "idle", matches |-> {}, txSignature |-> 0,
              errorMessage |-> FALSE, resultMode |-> "demo"]

Init ==
  /\ CallInit
  /\ connected = FALSE
  /\ page = FreshPage
  /\ run = [r \in {} |-> {}]

-----------------------------------------------------------------------------
\* Runs are numbered in the order in which they start.
NextRun(r) == r \notin DOMAIN run /\ \A q \in Runs : q < r => q \in DOMAIN run

StartRun(r, kind, place) ==
  run' = [q \in DOMAIN run \cup {r} |->
            IF q = r THEN [kind |-> kind, at |-> place, mounted |-> TRUE] ELSE run[q]]

\* Run r is suspended at a place.
At(r, kind, place) == r \in DOMAIN run /\ run[r].kind = kind /\ run[r].at = place

\* Run r goes on to a place; the page changes if it is still the page of the run.
Resume(r, place, changed) ==
  /\ run' = [run EXCEPT ![r].at = place]
  /\ page' = IF run[r].mounted THEN changed ELSE page

\* Mutant of FormShown: the form is also there while a run is under way.
FormAlwaysShown == connected /\ page.status # "complete"

FormShown == connected /\ page.status \in {"idle", "error"}

\* handleDiscover up to its first timer.
ClickDiscover(r) ==
  /\ NextRun(r)
  /\ FormShown
  /\ StartRun(r, "discover", "encrypting")
  /\ page' = [page EXCEPT !.status = "encrypting", !.matches = {},
                          !.txSignature = 0, !.errorMessage = FALSE]
  /\ UNCHANGED <<callVars, connected>>

\* handleDiscover returns early: what was entered is no address.
RejectInput ==
  /\ FormShown
  /\ page' = [page EXCEPT !.errorMessage = TRUE]
  /\ UNCHANGED <<callVars, connected, run>>

\* The first timer fires: the library is called with what was entered.
StartDiscovery(r) ==
  /\ At(r, "discover", "encrypting")
  /\ Make(r)
  /\ Resume(r, "calling", [page EXCEPT !.status = "computing"])
  /\ UNCHANGED connected

DiscoveryReturns(r) ==
  /\ At(r, "discover", "calling") /\ outcome[r] = "returned"
  /\ Resume(r, "decrypting", [page EXCEPT !.status = "decrypting"])
  /\ UNCHANGED <<callVars, connected>>

DiscoveryThrows(r) ==
  /\ At(r, "discover", "calling") /\ outcome[r] = "thrown"
  /\ Resume(r, "ended", [page EXCEPT !.status = "error", !.errorMessage = TRUE])
  /\ UNCHANGED <<callVars, connected>>

\* Mutant of ShowResult: the mode of an earlier result stays.
ShowResultKeepingMode(r) ==
  /\ At(r, "discover", "decrypting")
  /\ Resume(r, "ended", [page EXCEPT !.status = "complete", !.matches = {r},
                                     !.txSignature = r])
  /\ UNCHANGED <<callVars, connected>>

\* Mutant of ShowResult: the result waits for the wallet.
ShowResultConnected(r) ==
  /\ connected
  /\ At(r, "discover", "decrypting")
  /\ Resume(r, "ended", [page EXCEPT !.status = "complete", !.matches = {r},
                                     !.txSignature = r, !.resultMode = mode[r]])
  /\ UNCHANGED <<callVars, connected>>

\* The second timer fires.
ShowResult(r) ==
  /\ At(r, "discover", "decrypting")
  /\ Resume(r, "ended", [page EXCEPT !.status = "complete", !.matches = {r},
                                     !.txSignature = r, !.resultMode = mode[r]])
  /\ UNCHANGED <<callVars, connected>>

\* handleSetupNetwork, whose button is there in every status.
ClickSetup(r) ==
  /\ NextRun(r)
  /\ connected
  /\ StartRun(r, "setup", "calling")
  /\ Make(r)
  /\ page' = [page EXCEPT !.status = "encrypting"]
  /\ UNCHANGED connected

\* handleSetupNetwork's call has returned.
SetupReturns(r) ==
  /\ At(r, "setup", "calling") /\ outcome[r] = "returned"
  /\ Resume(r, "ended", [page EXCEPT !.status = "idle"])
  /\ UNCHANGED <<callVars, connected>>

\* Mutant of SetupThrows: the status is left as the setup has set it.
SetupThrowsSilently(r) ==
  /\ At(r, "setup", "calling") /\ outcome[r] = "thrown"
  /\ Resume(r, "ended", [page EXCEPT !.errorMessage = TRUE])
  /\ UNCHANGED <<callVars, connected>>

SetupThrows(r) ==
  /\ At(r, "setup", "calling") /\ outcome[r] = "thrown"
  /\ Resume(r, "ended", [page EXCEPT !.errorMessage = TRUE, !.status = "error"])
  /\ UNCHANGED <<callVars, connected>>

\* Mutant of ClickNewSearch: the mode of the result is cleared too.
ClickNewSearchClearingMode ==
  /\ connected /\ page.status = "complete"
  /\ page' = [page EXCEPT !.status = "idle", !.matches = {}, !.txSignature = 0,
                          !.resultMode = "none"]
  /\ UNCHANGED <<callVars, connected, run>>

ClickNewSearch ==
  /\ connected /\ page.status = "complete"
  /\ page' = [page EXCEPT !.status = "idle", !.matches = {}, !.txSignature = 0]
  /\ UNCHANGED <<callVars, connected, run>>

\* A call of the library ends while its page waits.
CallEnds(r) ==
  /\ Returns(r) \/ Throws(r)
  /\ UNCHANGED <<connected, page, run>>

\* The wallet is connected or disconnected; what runs goes on, with the wallet it
\* was started with.
ChangeWallet ==
  /\ connected' = ~connected
  /\ UNCHANGED <<callVars, page, run>>

\* The page is left and opened again: its runs go on, but write nothing to it.
LeavePage ==
  /\ page' = FreshPage
  /\ run' = [r \in DOMAIN run |-> [run[r] EXCEPT !.mounted = FALSE]]
  /\ UNCHANGED <<callVars, connected>>

\* The page is reloaded: runs and calls are gone.
ReloadPage ==
  /\ page' = FreshPage
  /\ run' = [r \in DOMAIN run |-> [run[r] EXCEPT !.mounted = FALSE, !.at = "ended"]]
  /\ outcome' = [c \in Calls |-> IF outcome[c] = "waiting" THEN "lost" ELSE outcome[c]]
  /\ UNCHANGED <<mode, connected>>

\* A suspended run goes on.
ResumeRun(r) ==
  \/ StartDiscovery(r)
  \/ DiscoveryReturns(r)
  \/ DiscoveryThrows(r)
  \/ ShowResult(r)
  \/ SetupReturns(r)
  \/ SetupThrows(r)

Next ==
  \/ \E r \in Runs :
       \/ ClickDiscover(r)
       \/ ClickSetup(r)
       \/ ResumeRun(r)
       \/ CallEnds(r)
  \/ RejectInput
  \/ ClickNewSearch
  \/ ChangeWallet
  \/ LeavePage
  \/ ReloadPage

\* Timers fire, calls end as LibraryCalls promises, and runs that await them go on.
Spec ==
  /\ Init /\ [][Next]_vars
  /\ \A r \in Runs : WF_vars(ResumeRun(r)) /\ WF_vars(CallEnds(r))

-----------------------------------------------------------------------------
(* Properties. *)

\* Every variable has its type.
TypeOK ==
  /\ outcome \in [Calls -> {"none", "waiting", "returned", "thrown", "lost"}]
  /\ mode \in [Calls -> {"none", "arcium", "demo"}]
  /\ connected \in BOOLEAN
  /\ page \in Page
  /\ DOMAIN run \subseteq Runs
  /\ \A r \in DOMAIN run : run[r] \in Run

\* Whether run r is under way and writes the page that is shown.
Live(r) == r \in DOMAIN run /\ run[r].at # "ended" /\ run[r].mounted

\* What is shown as complete is the result of one discovery: matches, transaction
\* and mode belong together, whatever other runs have written in between.
ShownIsOneResult ==
  page.status = "complete" =>
    \E r \in DOMAIN run :
      /\ run[r].kind = "discover" /\ run[r].mounted
      /\ outcome[r] = "returned"
      /\ page.matches = {r} /\ page.txSignature = r /\ page.resultMode = mode[r]

\* The page shows its spinner only while a run of its own is under way.
SpinnerIsLive == page.status \in Busy => \E r \in Runs : Live(r)

\* Two discoveries of the page overlap only when the network setup, which shares
\* the status, was started on the same page before the second.
OnlySetupOverlaps ==
  \A q, r \in Runs :
    (q < r /\ Live(q) /\ Live(r) /\ run[q].kind = "discover" /\ run[r].kind = "discover") =>
      \E s \in DOMAIN run : s < r /\ run[s].kind = "setup" /\ run[s].mounted

\* The spinner goes away, whatever fails.
SpinnerEnds == page.status \in Busy ~> page.status \notin Busy
=============================================================================
