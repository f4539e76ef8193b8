-------------------------- MODULE DiscoverPageProofs ---------------------------
(***************************************************************************)
(* Proofs about the discover page, for every number of runs.               *)
(***************************************************************************)
EXTENDS DiscoverPage, TLAPS

\* Runs are numbered without gaps.
NumberedInOrder == \A r \in DOMAIN run, q \in Runs : q < r => q \in DOMAIN run

\* A result that is about to be shown is one the library has returned.
ResultsAreReturned ==
  \A r \in DOMAIN run : run[r].at = "decrypting" => outcome[r] = "returned"

\* While a discovery is under way and the form is not hidden by the spinner, a
\* setup has been started on the page: only that brings the form back.
FormIsBackBySetup ==
  \A q \in DOMAIN run :
    (Live(q) /\ run[q].kind = "discover" /\ page.status \notin Busy) =>
      \E s \in DOMAIN run : run[s].kind = "setup" /\ run[s].mounted

\* A mode is known when the call has returned.
ModesAreKnown == \A c \in Calls : outcome[c] = "returned" => mode[c] \in {"arcium", "demo"}

\* The inductive invariant.
Inv ==
  /\ TypeOK
  /\ NumberedInOrder
  /\ ResultsAreReturned
  /\ ModesAreKnown
  /\ FormIsBackBySetup
  /\ ShownIsOneResult
  /\ SpinnerIsLive
  /\ OnlySetupOverlaps

-----------------------------------------------------------------------------
\* The initial state satisfies the invariant.
LEMMA InitEstablishesInv == Init => Inv
<1> SUFFICES ASSUME Init PROVE Inv
  OBVIOUS
<1>1. page \in Page /\ page.status = "idle" /\ DOMAIN run = {}
  BY DEF Init, FreshPage, Page, Busy
<1>2. \A c \in Calls : outcome[c] = "none" /\ mode[c] = "none"
  BY DEF Init, CallInit
<1>3. TypeOK
  BY <1>1 DEF Init, CallInit, TypeOK
<1> QED
  BY <1>1, <1>2, <1>3 DEF Inv, NumberedInOrder, ResultsAreReturned, ModesAreKnown, FormIsBackBySetup,
     ShownIsOneResult, SpinnerIsLive, OnlySetupOverlaps, Live, Busy, Runs

-----------------------------------------------------------------------------
\* A run starts: what becomes of the calls, and that the page shows its spinner.
LEMMA StartStep ==
  ASSUME Inv, NEW r \in Runs, NEW kind \in {"discover", "setup"}, NEW place \in {"encrypting", "calling"},
         NextRun(r), StartRun(r, kind, place),
         page' \in Page, page'.status \in Busy, connected' = connected,
         kind = "discover" => page.status \notin Busy,
         outcome' \in [Calls -> {"none", "waiting", "returned", "thrown", "lost"}],
         \A c \in Calls : outcome[c] = "returned" <=> outcome'[c] = "returned",
         mode' = mode
  PROVE  Inv'
<1> USE DEF Runs
<1>1. /\ DOMAIN run' = DOMAIN run \cup {r} /\ r \notin DOMAIN run
      /\ \A q \in DOMAIN run : run'[q] = run[q]
      /\ run'[r] = [kind |-> kind, at |-> place, mounted |-> TRUE]
  BY DEF NextRun, StartRun
<1>2. run'[r] \in Run /\ run'[r].at # "ended" /\ run'[r].at # "decrypting" /\ run'[r].mounted
  BY <1>1 DEF Run
<1>3. TypeOK'
  BY <1>1, <1>2 DEF Inv, TypeOK
<1>4. NumberedInOrder' /\ \A q \in DOMAIN run : q < r
  <2>1. \A q \in DOMAIN run : q \in Nat /\ r \in Nat /\ q # r
    BY <1>1, PageAssumption DEF Inv, TypeOK
  <2>2. \A q \in DOMAIN run : ~ (r < q)
    BY <1>1 DEF Inv, NumberedInOrder
  <2>3. \A q \in DOMAIN run : q < r
    BY <2>1, <2>2
  <2> QED BY <2>3, <1>1 DEF Inv, NumberedInOrder, NextRun
<1>5. ResultsAreReturned' /\ ModesAreKnown'
  BY <1>1, <1>2 DEF Inv, TypeOK, ResultsAreReturned, ModesAreKnown
<1>6. FormIsBackBySetup' /\ ShownIsOneResult'
  BY DEF FormIsBackBySetup, ShownIsOneResult, Busy
<1>7. SpinnerIsLive'
  BY <1>1, <1>2 DEF SpinnerIsLive, Live
<1>8. OnlySetupOverlaps'
  <2> SUFFICES ASSUME NEW p \in Runs, NEW q \in Runs,
                      (p < q /\ Live(p) /\ Live(q) /\ run[p].kind = "discover" /\ run[q].kind = "discover")'
               PROVE  \E s \in DOMAIN run' : s < q /\ run'[s].kind = "setup" /\ run'[s].mounted
    BY DEF OnlySetupOverlaps
  <2>1. p # r
    <3>1. p \in Nat /\ q \in Nat
      BY PageAssumption
    <3>2. p = r => q \in DOMAIN run
      BY <1>1, <3>1 DEF Live
    <3> QED BY <3>1, <3>2, <1>4
  <2>2. p \in DOMAIN run /\ Live(p) /\ run[p].kind = "discover"
    BY <2>1, <1>1 DEF Live
  <2>3. CASE q = r
    <3>1. kind = "discover"
      BY <2>3, <1>1
    <3>2. \E s \in DOMAIN run : run[s].kind = "setup" /\ run[s].mounted
      BY <2>2, <3>1 DEF Inv, FormIsBackBySetup
    <3> QED BY <2>3, <3>2, <1>1, <1>4
  <2>4. CASE q # r
    <3>1. q \in DOMAIN run /\ Live(q) /\ run[q].kind = "discover"
      BY <2>4, <1>1 DEF Live
    <3>2. \E s \in DOMAIN run : s < q /\ run[s].kind = "setup" /\ run[s].mounted
      BY <2>2, <3>1 DEF Inv, OnlySetupOverlaps
    <3> QED BY <3>2, <1>1
  <2> QED BY <2>3, <2>4
<1> QED
  BY <1>3, <1>4, <1>5, <1>6, <1>7, <1>8 DEF Inv

\* A run goes on.  If the page is its own, the page shows the spinner as long as the
\* run is under way, and a result only if it is the one of this run.
LEMMA ResumeStep ==
  ASSUME Inv, NEW r \in DOMAIN run, NEW place \in {"calling", "decrypting", "ended"}, NEW changed,
         run[r].at # "ended", Resume(r, place, changed),
         changed \in Page, changed.status \in Busy <=> place # "ended",
         changed.status = "complete" =>
           /\ run[r].kind = "discover" /\ outcome[r] = "returned"
           /\ changed.matches = {r} /\ changed.txSignature = r /\ changed.resultMode = mode[r],
         place = "decrypting" => outcome[r] = "returned",
         connected' = connected,
         outcome' \in [Calls -> {"none", "waiting", "returned", "thrown", "lost"}],
         \A c \in Calls : outcome[c] = "returned" <=> outcome'[c] = "returned",
         mode' = mode
  PROVE  Inv'
<1> USE DEF Runs
<1>1. /\ DOMAIN run' = DOMAIN run
      /\ \A q \in DOMAIN run : q # r => run'[q] = run[q]
      /\ run'[r] = [run[r] EXCEPT !.at = place]
      /\ r \in Calls
  BY DEF Resume, Inv, TypeOK
<1>2. run[r] \in Run
  BY DEF Inv, TypeOK
<1>3. /\ run'[r] \in Run /\ run'[r].at = place
      /\ run'[r].kind = run[r].kind /\ run'[r].mounted = run[r].mounted
  BY <1>1, <1>2 DEF Run
<1>4. /\ run[r].mounted => page' = changed
      /\ ~ run[r].mounted => page' = page
  BY DEF Resume
<1>5. TypeOK'
  BY <1>1, <1>3, <1>4 DEF Inv, TypeOK
<1>6. NumberedInOrder'
  BY <1>1 DEF Inv, NumberedInOrder
<1>7. ResultsAreReturned' /\ ModesAreKnown'
  <2>1. ModesAreKnown'
    BY DEF Inv, ModesAreKnown
  <2>2. ASSUME NEW q \in DOMAIN run, run'[q].at = "decrypting"
        PROVE  outcome'[q] = "returned"
    <3>1. q \in Calls
      BY DEF Inv, TypeOK
    <3>2. outcome[q] = "returned"
      BY <2>2, <1>1, <1>3 DEF Inv, ResultsAreReturned
    <3> QED BY <3>1, <3>2
  <2> QED BY <2>1, <2>2, <1>1 DEF ResultsAreReturned
<1>8. \A q \in DOMAIN run : /\ run'[q].kind = run[q].kind /\ run'[q].mounted = run[q].mounted
                            /\ Live(q)' => Live(q)
  BY <1>1, <1>3 DEF Live
<1>9. FormIsBackBySetup'
  <2> SUFFICES ASSUME NEW q \in DOMAIN run, Live(q)', run[q].kind = "discover", page'.status \notin Busy
               PROVE  \E s \in DOMAIN run : run[s].kind = "setup" /\ run[s].mounted
    BY <1>1, <1>8 DEF FormIsBackBySetup
  <2>1. Live(q)
    BY <1>8
  <2>2. CASE ~ run[r].mounted
    BY <2>1, <2>2, <1>4 DEF Inv, FormIsBackBySetup
  <2>3. CASE run[r].mounted /\ run[r].kind = "setup"
    BY <2>3
  <2>4. CASE run[r].mounted /\ run[r].kind = "discover"
    <3>1. q # r
      BY <2>4, <1>3, <1>4 DEF Live
    <3>2. Live(r)
      BY <2>4 DEF Live
    <3>3. q \in Nat /\ r \in Nat /\ q \in Runs
      BY <1>1, PageAssumption DEF Inv, TypeOK
    <3>4. q < r \/ r < q
      BY <3>1, <3>3
    <3> QED BY <3>2, <3>3, <3>4, <2>1, <2>4, <1>1 DEF Inv, OnlySetupOverlaps
  <2> QED BY <2>2, <2>3, <2>4, <1>2 DEF Run
<1>10. ShownIsOneResult'
  <2>1. CASE run[r].mounted
    <3> SUFFICES ASSUME changed.status = "complete"
                 PROVE  ShownIsOneResult'
      BY <2>1, <1>4 DEF ShownIsOneResult
    <3>1. /\ run'[r].kind = "discover" /\ run'[r].mounted /\ outcome'[r] = "returned"
          /\ page'.matches = {r} /\ page'.txSignature = r /\ page'.resultMode = mode'[r]
      BY <2>1, <1>1, <1>3, <1>4
    <3> QED BY <3>1, <1>1 DEF ShownIsOneResult
  <2>2. CASE ~ run[r].mounted
    <3> SUFFICES ASSUME page.status = "complete"
                 PROVE  ShownIsOneResult'
      BY <2>2, <1>4 DEF ShownIsOneResult
    <3>1. PICK q \in DOMAIN run :
            /\ run[q].kind = "discover" /\ run[q].mounted /\ outcome[q] = "returned"
            /\ page.matches = {q} /\ page.txSignature = q /\ page.resultMode = mode[q]
      BY DEF Inv, ShownIsOneResult
    <3>2. q \in Calls
      BY DEF Inv, TypeOK
    <3> QED BY <2>2, <3>1, <3>2, <1>1, <1>4, <1>8 DEF ShownIsOneResult
  <2> QED BY <2>1, <2>2
<1>11. SpinnerIsLive'
  <2>1. CASE run[r].mounted
    BY <2>1, <1>1, <1>3, <1>4 DEF SpinnerIsLive, Live
  <2>2. CASE ~ run[r].mounted
    <3>1. \A q \in Runs : Live(q) => q # r /\ Live(q)'
      BY <2>2, <1>1 DEF Live
    <3> QED BY <2>2, <3>1, <1>4 DEF Inv, SpinnerIsLive
  <2> QED BY <2>1, <2>2
<1>12. OnlySetupOverlaps'
  <2>1. \A q \in Runs : Live(q)' => q \in DOMAIN run
    BY <1>1 DEF Live
  <2> QED BY <2>1, <1>1, <1>8 DEF Inv, OnlySetupOverlaps
<1> QED
  BY <1>5, <1>6, <1>7, <1>9, <1>10, <1>11, <1>12 DEF Inv

\* The page changes while the runs go on; it neither hides nor brings back the form.
LEMMA PageStep ==
  ASSUME Inv, page' \in Page, UNCHANGED <<callVars, run>>, connected' \in BOOLEAN,
         page'.status \in Busy <=> page.status \in Busy,
         page'.status = "complete" =>
           /\ page.status = "complete" /\ page'.matches = page.matches
           /\ page'.txSignature = page.txSignature /\ page'.resultMode = page.resultMode
  PROVE  Inv'
<1>1. outcome' = outcome /\ mode' = mode /\ run' = run
  BY DEF callVars
<1>2. TypeOK'
  BY <1>1 DEF Inv, TypeOK
<1>3. \A q \in Runs : Live(q)' <=> Live(q)
  BY <1>1 DEF Live
<1>4. NumberedInOrder' /\ ResultsAreReturned' /\ ModesAreKnown'
  BY <1>1 DEF Inv, NumberedInOrder, ResultsAreReturned, ModesAreKnown
<1>5. FormIsBackBySetup' /\ OnlySetupOverlaps'
  BY <1>1 DEF Inv, FormIsBackBySetup, OnlySetupOverlaps, Live
<1>6. ShownIsOneResult'
  BY <1>1 DEF Inv, ShownIsOneResult
<1>7. SpinnerIsLive'
  BY <1>3 DEF Inv, SpinnerIsLive
<1> QED
  BY <1>2, <1>4, <1>5, <1>6, <1>7 DEF Inv

\* A call ends; its run has not taken notice of it.
LEMMA CallEndsStep ==
  ASSUME Inv, NEW r \in Runs, CallEnds(r)
  PROVE  Inv'
<1> USE DEF Runs
<1>1. connected' = connected /\ page' = page /\ run' = run /\ r \in Calls /\ outcome[r] = "waiting"
  BY DEF CallEnds, Returns, Throws
<1>2. /\ outcome' \in [Calls -> {"none", "waiting", "returned", "thrown", "lost"}]
      /\ mode' \in [Calls -> {"none", "arcium", "demo"}]
      /\ \A c \in Calls \ {r} : outcome'[c] = outcome[c] /\ mode'[c] = mode[c]
      /\ outcome'[r] = "returned" => mode'[r] \in {"arcium", "demo"}
  BY DEF CallEnds, Returns, Throws, Inv, TypeOK
<1>3. \A c \in Calls : outcome[c] = "returned" =>
                         c # r /\ outcome'[c] = "returned" /\ mode'[c] = mode[c]
  BY <1>1, <1>2
<1>4. DOMAIN run \subseteq Calls
  BY DEF Inv, TypeOK
<1>5. TypeOK'
  BY <1>1, <1>2 DEF Inv, TypeOK
<1>6. NumberedInOrder' /\ FormIsBackBySetup' /\ SpinnerIsLive' /\ OnlySetupOverlaps'
  BY <1>1 DEF Inv, NumberedInOrder, FormIsBackBySetup, SpinnerIsLive, OnlySetupOverlaps, Live
<1>7. ResultsAreReturned' /\ ModesAreKnown'
  BY <1>1, <1>2, <1>3, <1>4 DEF Inv, ResultsAreReturned, ModesAreKnown
<1>8. ShownIsOneResult'
  BY <1>1, <1>3, <1>4 DEF Inv, ShownIsOneResult
<1> QED
  BY <1>5, <1>6, <1>7, <1>8 DEF Inv

\* The page is left or reloaded: it is a fresh one, and no run is its own.
LEMMA LeavePageStep ==
  ASSUME Inv, LeavePage \/ ReloadPage
  PROVE  Inv'
<1> USE DEF Runs
<1>1. /\ page' = FreshPage /\ page' \in Page /\ page'.status = "idle"
      /\ connected' = connected /\ mode' = mode
  <2>1. page' = FreshPage /\ connected' = connected /\ mode' = mode
    BY DEF LeavePage, ReloadPage, callVars
  <2>2. FreshPage \in Page /\ FreshPage.status = "idle"
    BY DEF FreshPage, Page
  <2> QED BY <2>1, <2>2
<1>2. /\ DOMAIN run' = DOMAIN run
      /\ \A r \in DOMAIN run : \/ run'[r] = [run[r] EXCEPT !.mounted = FALSE]
                               \/ run'[r] = [run[r] EXCEPT !.mounted = FALSE, !.at = "ended"]
  BY DEF LeavePage, ReloadPage
<1>3. \A r \in DOMAIN run : run[r] \in Run
  BY DEF Inv, TypeOK
<1>4. \A r \in DOMAIN run : /\ run'[r] \in Run /\ run'[r].mounted = FALSE
                            /\ run'[r].at = "decrypting" => run[r].at = "decrypting"
  BY <1>2, <1>3 DEF Run
<1>5. /\ outcome' \in [Calls -> {"none", "waiting", "returned", "thrown", "lost"}]
      /\ \A c \in Calls : outcome[c] = "returned" <=> outcome'[c] = "returned"
  BY DEF LeavePage, ReloadPage, callVars, Inv, TypeOK
<1>6. \A q \in Runs : ~ Live(q)'
  BY <1>2, <1>4 DEF Live
<1>7. TypeOK'
  BY <1>1, <1>2, <1>4, <1>5 DEF Inv, TypeOK
<1>8. NumberedInOrder' /\ ResultsAreReturned' /\ ModesAreKnown'
  <2>1. NumberedInOrder'
    BY <1>2 DEF Inv, NumberedInOrder
  <2>2. ResultsAreReturned'
    <3>1. \A r \in DOMAIN run : r \in Calls
      BY DEF Inv, TypeOK
    <3> QED BY <3>1, <1>2, <1>4, <1>5 DEF Inv, ResultsAreReturned
  <2>3. ModesAreKnown'
    BY <1>1, <1>5 DEF Inv, ModesAreKnown
  <2> QED BY <2>1, <2>2, <2>3
<1>9. FormIsBackBySetup' /\ OnlySetupOverlaps'
  BY <1>2, <1>6 DEF Inv, TypeOK, FormIsBackBySetup, OnlySetupOverlaps
<1>10. ShownIsOneResult' /\ SpinnerIsLive'
  BY <1>1 DEF ShownIsOneResult, SpinnerIsLive, Busy
<1> QED
  BY <1>7, <1>8, <1>9, <1>10 DEF Inv

-----------------------------------------------------------------------------
\* The steps of a run are those of StartStep and ResumeStep.
LEMMA RunSteps ==
  ASSUME Inv, NEW r \in Runs, ClickDiscover(r) \/ ClickSetup(r) \/ ResumeRun(r)
  PROVE  Inv'
<1> USE DEF Runs
<1>1. page \in Page /\ outcome \in [Calls -> {"none", "waiting", "returned", "thrown", "lost"}]
  BY DEF Inv, TypeOK
<1>2. ASSUME Make(r)
      PROVE  /\ outcome' \in [Calls -> {"none", "waiting", "returned", "thrown", "lost"}]
             /\ \A c \in Calls : outcome[c] = "returned" <=> outcome'[c] = "returned"
             /\ mode' = mode
  BY <1>1, <1>2 DEF Make
<1>3. CASE ClickDiscover(r)
  <2>1. /\ NextRun(r) /\ StartRun(r, "discover", "encrypting") /\ page.status \notin Busy
        /\ outcome' = outcome /\ mode' = mode /\ connected' = connected
    BY <1>3 DEF ClickDiscover, FormShown, callVars, Busy
  <2>2. page' \in Page /\ page'.status \in Busy
    BY <1>1, <1>3 DEF ClickDiscover, Page, Busy
  <2> QED BY <1>1, <2>1, <2>2, StartStep
<1>4. CASE ClickSetup(r)
  <2>1. /\ NextRun(r) /\ StartRun(r, "setup", "calling") /\ Make(r) /\ connected' = connected
    BY <1>4 DEF ClickSetup
  <2>2. page' \in Page /\ page'.status \in Busy
    BY <1>1, <1>4 DEF ClickSetup, Page, Busy
  <2> QED BY <1>2, <2>1, <2>2, StartStep
<1>5. CASE StartDiscovery(r)
  <2> DEFINE changed == [page EXCEPT !.status = "computing"]
  <2>1. /\ r \in DOMAIN run /\ run[r].at = "encrypting" /\ Make(r)
        /\ Resume(r, "calling", changed) /\ connected' = connected
    BY <1>5 DEF StartDiscovery, At
  <2>2. changed \in Page /\ changed.status = "computing"
    BY <1>1 DEF Page, Busy
  <2> QED BY <1>2, <2>1, <2>2, ResumeStep DEF Busy
<1>6. CASE DiscoveryReturns(r)
  <2> DEFINE changed == [page EXCEPT !.status = "decrypting"]
  <2>1. /\ r \in DOMAIN run /\ run[r].at = "calling" /\ outcome[r] = "returned"
        /\ Resume(r, "decrypting", changed)
        /\ outcome' = outcome /\ mode' = mode /\ connected' = connected
    BY <1>6 DEF DiscoveryReturns, At, callVars
  <2>2. changed \in Page /\ changed.status = "decrypting"
    BY <1>1 DEF Page, Busy
  <2> QED BY <1>1, <2>1, <2>2, ResumeStep DEF Busy
<1>7. CASE DiscoveryThrows(r)
  <2> DEFINE changed == [page EXCEPT !.status = "error", !.errorMessage = TRUE]
  <2>1. /\ r \in DOMAIN run /\ run[r].at = "calling" /\ Resume(r, "ended", changed)
        /\ outcome' = outcome /\ mode' = mode /\ connected' = connected
    BY <1>7 DEF DiscoveryThrows, At, callVars
  <2>2. changed \in Page /\ changed.status = "error"
    BY <1>1 DEF Page
  <2> QED BY <1>1, <2>1, <2>2, ResumeStep DEF Busy
<1>8. CASE ShowResult(r)
  <2> DEFINE changed == [page EXCEPT !.status = "complete", !.matches = {r},
                                     !.txSignature = r, !.resultMode = mode[r]]
  <2>1. /\ r \in DOMAIN run /\ run[r].at = "decrypting" /\ run[r].kind = "discover"
        /\ Resume(r, "ended", changed)
        /\ outcome' = outcome /\ mode' = mode /\ connected' = connected
    BY <1>8 DEF ShowResult, At, callVars
  <2>2. outcome[r] = "returned" /\ mode[r] \in {"arcium", "demo"}
    BY <2>1 DEF Inv, ResultsAreReturned, ModesAreKnown
  <2>3. /\ changed \in Page /\ changed.status = "complete"
        /\ changed.matches = {r} /\ changed.txSignature = r /\ changed.resultMode = mode[r]
    BY <1>1, <2>2 DEF Page
  <2> HIDE DEF changed
  <2> QED BY <1>1, <2>1, <2>2, <2>3, ResumeStep DEF Busy
<1>9. CASE SetupReturns(r)
  <2> DEFINE changed == [page EXCEPT !.status = "idle"]
  <2>1. /\ r \in DOMAIN run /\ run[r].at = "calling" /\ Resume(r, "ended", changed)
        /\ outcome' = outcome /\ mode' = mode /\ connected' = connected
    BY <1>9 DEF SetupReturns, At, callVars
  <2>2. changed \in Page /\ changed.status = "idle"
    BY <1>1 DEF Page
  <2> QED BY <1>1, <2>1, <2>2, ResumeStep DEF Busy
<1>10. CASE SetupThrows(r)
  <2> DEFINE changed == [page EXCEPT !.errorMessage = TRUE, !.status = "error"]
  <2>1. /\ r \in DOMAIN run /\ run[r].at = "calling" /\ Resume(r, "ended", changed)
        /\ outcome' = outcome /\ mode' = mode /\ connected' = connected
    BY <1>10 DEF SetupThrows, At, callVars
  <2>2. changed \in Page /\ changed.status = "error"
    BY <1>1 DEF Page
  <2> QED BY <1>1, <2>1, <2>2, ResumeStep DEF Busy
<1> QED
  BY <1>3, <1>4, <1>5, <1>6, <1>7, <1>8, <1>9, <1>10 DEF ResumeRun

\* Every step preserves the invariant.
LEMMA StepPreservesInv == Inv /\ [Next]_vars => Inv'
<1> SUFFICES ASSUME Inv, [Next]_vars PROVE Inv'
  OBVIOUS
<1>1. page \in Page /\ connected \in BOOLEAN
  BY DEF Inv, TypeOK
<1>2. CASE \E r \in Runs : ClickDiscover(r) \/ ClickSetup(r) \/ ResumeRun(r)
  BY <1>2, RunSteps
<1>3. CASE \E r \in Runs : CallEnds(r)
  BY <1>3, CallEndsStep
<1>4. CASE RejectInput
  <2>1. page' \in Page /\ page'.status = page.status /\ page.status # "complete"
    BY <1>1, <1>4 DEF RejectInput, FormShown, Page
  <2>2. UNCHANGED <<callVars, run>> /\ connected' = connected
    BY <1>4 DEF RejectInput
  <2> QED BY <1>1, <2>1, <2>2, PageStep
<1>5. CASE ClickNewSearch
  <2>1. page' \in Page /\ page'.status = "idle" /\ page.status = "complete"
    BY <1>1, <1>5 DEF ClickNewSearch, Page
  <2>2. UNCHANGED <<callVars, run>> /\ connected' = connected
    BY <1>5 DEF ClickNewSearch
  <2> QED BY <1>1, <2>1, <2>2, PageStep DEF Busy
<1>6. CASE ChangeWallet
  <2>1. page' = page /\ UNCHANGED <<callVars, run>> /\ connected' \in BOOLEAN
    BY <1>6 DEF ChangeWallet
  <2> QED BY <1>1, <2>1, PageStep
<1>7. CASE LeavePage \/ ReloadPage
  BY <1>7, LeavePageStep
<1>8. CASE UNCHANGED vars
  <2>1. page' = page /\ UNCHANGED <<callVars, run>> /\ connected' = connected
    BY <1>8 DEF vars
  <2> QED BY <1>1, <2>1, PageStep
<1> QED
  BY <1>2, <1>3, <1>4, <1>5, <1>6, <1>7, <1>8 DEF Next

\* The invariant holds in every behaviour of the page.
LEMMA InvHolds == Spec => []Inv
  BY InitEstablishesInv, StepPreservesInv, PTL DEF Spec

\* The page, its runs and their calls keep their types.
THEOREM TypeCorrect == Spec => []TypeOK
<1>1. Inv => TypeOK
  BY DEF Inv
<1> QED BY <1>1, InvHolds, PTL

\* Matches, transaction and mode that are shown are those of one discovery of the
\* page, however many runs have written the status in between.
THEOREM ShownTogether == Spec => []ShownIsOneResult
<1>1. Inv => ShownIsOneResult
  BY DEF Inv
<1> QED BY <1>1, InvHolds, PTL

\* The spinner is never left behind by a run that has ended or by another page.
THEOREM SpinnerOfLiveRun == Spec => []SpinnerIsLive
<1>1. Inv => SpinnerIsLive
  BY DEF Inv
<1> QED BY <1>1, InvHolds, PTL

\* Without a setup started on the page, its discoveries follow one another.
THEOREM OverlapsNeedSetup == Spec => []OnlySetupOverlaps
<1>1. Inv => OnlySetupOverlaps
  BY DEF Inv
<1> QED BY <1>1, InvHolds, PTL
=============================================================================
