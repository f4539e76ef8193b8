----------------------------- MODULE RegisterPage -----------------------------
(***************************************************************************)
(* The page app/register/page.tsx with its ContactInput, over the client   *)
(* library, of which it sees the calls of LibraryCalls.                    *)
(*                                                                         *)
(* A run is one execution of handleSubmit and makes one call, which has    *)
(* the number of the run.  handleSubmit sets 'encrypting' and 'submitting' *)
(* in one synchronous stretch, so that only the second is ever rendered.   *)
(* The effect that reads what is registered runs after the rendering that  *)
(* asks for it.  Pages in other tabs are left out.                         *)
(***************************************************************************)
EXTENDS ContactInput, LibraryCalls

CONSTANTS Wallets, NoWallet

Runs == Calls

ASSUME PageAssumption == Calls \subseteq Nat \ {0} /\ NoWallet \notin Wallets

VARIABLES
  wallet,      \* the wallet that is connected
  page,        \* the state of the mounted page
  effectDue,   \* whether the effect has still to run
  run,         \* the runs so far
  registered   \* localStorage: how many contacts each wallet has registered

vars == <<contacts, callVars, wallet, page, effectDue, run, registered>>

Counts == 0 .. maxContacts

Page == [status            : {"idle", "submitting", "complete", "error"},
         txSignature       : Calls \cup {0},   \* that of a call, or null
         errorMessage      : BOOLEAN,          \* whether there is one
         registeredCount   : Counts,
         alreadyRegistered : BOOLEAN,
         existingCount     : Counts,
         resultMode        : {"arcium", "demo"}]

FreshPage == [status |-> "idle", txSignature |-> 0, errorMessage |-> FALSE,
              registeredCount |-> 0, alreadyRegistered |-> FALSE, existingCount |-> 0,
              resultMode |-> "demo"]

Init ==
  /\ CallInit
  /\ contacts = <<>>
  /\ wallet = NoWallet
  /\ page = FreshPage
  /\ effectDue = TRUE
  /\ run = [r \in {} |-> {}]
  /\ registered = [w \in Wallets |-> 0]

-----------------------------------------------------------------------------
\* ContactInput is there unless a result is shown or no wallet is connected.
InputMounted(status, w) == w # NoWallet /\ status # "complete"

InputShown == InputMounted(page.status, wallet)

\* Mutant of isSubmitting: the input is not told.
neverSubmitting == FALSE

isSubmitting == page.status = "submitting"

\* Mutant of EffectIsDue: the effect does not depend on the status.
EffectIsDueOfWallet(status, w) == effectDue \/ w # wallet

\* The effect depends on the wallet and the status.
EffectIsDue(status, w) == effectDue \/ w # wallet \/ status # page.status

\* The page becomes p under wallet w; an input that is no longer shown loses its list.
Render(p, w) ==
  /\ page' = p /\ wallet' = w
  /\ effectDue' = EffectIsDue(p.status, w)
  /\ IF InputMounted(p.status, w) THEN UNCHANGED contacts ELSE contacts' = <<>>

-----------------------------------------------------------------------------
(* The input. *)

\* Enter or the Add button.
EnterContact(address) ==
  /\ InputShown /\ ~ isSubmitting
  /\ addContact(address)
  /\ UNCHANGED <<callVars, wallet, page, effectDue, run, registered>>

PasteContacts(text) ==
  /\ InputShown /\ ~ isSubmitting
  /\ handlePaste(text)
  /\ UNCHANGED <<callVars, wallet, page, effectDue, run, registered>>

\* The buttons in the list are there while a submission is under way, too.
ClickRemove(index) ==
  /\ InputShown
  /\ removeContact(index)
  /\ UNCHANGED <<callVars, wallet, page, effectDue, run, registered>>

-----------------------------------------------------------------------------
(* handleSubmit. *)

\* Runs are numbered in the order in which they start.
NextRun(r) == r \notin DOMAIN run /\ \A q \in Runs : q < r => q \in DOMAIN run

\* Up to the call, which is given the list, kept as its length, and the wallet of this
\* moment.  The button is disabled for an empty list.
ClickRegister(r) ==
  /\ NextRun(r)
  /\ InputShown /\ ~ isSubmitting /\ contacts # <<>>
  /\ Make(r)
  /\ run' = [q \in DOMAIN run \cup {r} |->
               IF q = r THEN [wallet |-> wallet, count |-> Len(contacts),
                              at |-> "calling", mounted |-> TRUE]
                        ELSE run[q]]
  /\ Render([page EXCEPT !.status = "submitting", !.errorMessage = FALSE], wallet)
  /\ UNCHANGED registered

\* Run r comes to its end; the page changes if it is still the page of the run.
Finish(r, changed) ==
  /\ run' = [run EXCEPT ![r].at = "ended"]
  /\ Render(IF run[r].mounted THEN changed ELSE page, wallet)
  /\ UNCHANGED <<callVars, registered>>

Calling(r) == r \in DOMAIN run /\ run[r].at = "calling"

\* Mutant of RegistrationReturns: the contacts in the list now are counted.
ReturnsCountingList(r) ==
  /\ Calling(r) /\ outcome[r] = "returned"
  /\ Finish(r, [page EXCEPT !.status = "complete", !.txSignature = r,
                            !.registeredCount = Len(contacts), !.resultMode = mode[r]])

RegistrationReturns(r) ==
  /\ Calling(r) /\ outcome[r] = "returned"
  /\ Finish(r, [page EXCEPT !.status = "complete", !.txSignature = r,
                            !.registeredCount = run[r].count, !.resultMode = mode[r]])

\* Mutant of RegistrationThrows: the status is left.
ThrowsSilently(r) ==
  /\ Calling(r) /\ outcome[r] = "thrown"
  /\ Finish(r, [page EXCEPT !.errorMessage = TRUE])

RegistrationThrows(r) ==
  /\ Calling(r) /\ outcome[r] = "thrown"
  /\ Finish(r, [page EXCEPT !.status = "error", !.errorMessage = TRUE])

ResumeRun(r) == RegistrationReturns(r) \/ RegistrationThrows(r)

\* The call of run r ends: before it returns it has stored what it was given, unless
\* localStorage is full, which it swallows.
CallEnds(r) ==
  /\ \/ /\ Returns(r)
        /\ registered' \in {registered, [registered EXCEPT ![run[r].wallet] = run[r].count]}
     \/ Throws(r) /\ UNCHANGED registered
  /\ UNCHANGED <<contacts, wallet, page, effectDue, run>>

-----------------------------------------------------------------------------
(* The rest of the page. *)

ClickRegisterMore ==
  /\ wallet # NoWallet /\ page.status = "complete"
  /\ Render([page EXCEPT !.status = "idle", !.txSignature = 0], wallet)
  /\ UNCHANGED <<callVars, run, registered>>

\* The effect leaves what it has read for the last wallet if there is none.
RunEffect ==
  /\ effectDue
  /\ effectDue' = FALSE
  /\ page' = IF wallet = NoWallet THEN page
             ELSE [page EXCEPT !.alreadyRegistered = registered[wallet] > 0,
                               !.existingCount = registered[wallet]]
  /\ UNCHANGED <<contacts, callVars, wallet, run, registered>>

\* What runs goes on, with the wallet it was started with.
ChangeWallet(w) ==
  /\ w # wallet
  /\ Render(page, w)
  /\ UNCHANGED <<callVars, run, registered>>

\* The page is left and opened again: its runs go on, but write nothing to it.
LeavePage ==
  /\ page' = FreshPage /\ contacts' = <<>> /\ effectDue' = TRUE
  /\ run' = [r \in DOMAIN run |-> [run[r] EXCEPT !.mounted = FALSE]]
  /\ UNCHANGED <<callVars, wallet, registered>>

\* The page is reloaded: runs and calls are gone.
ReloadPage ==
  /\ page' = FreshPage /\ contacts' = <<>> /\ effectDue' = TRUE
  /\ run' = [r \in DOMAIN run |-> [run[r] EXCEPT !.mounted = FALSE, !.at = "ended"]]
  /\ outcome' = [c \in Calls |-> IF outcome[c] = "waiting" THEN "lost" ELSE outcome[c]]
  /\ UNCHANGED <<mode, wallet, registered>>

Next ==
  \/ \E address \in Addresses \cup {Invalid} : EnterContact(address)
  \/ \E text \in BoundedSeq(Addresses \cup {Invalid}, MaxPaste) : PasteContacts(text)
  \/ \E index \in 1 .. maxContacts : ClickRemove(index)
  \/ \E r \in Runs : ClickRegister(r) \/ ResumeRun(r) \/ CallEnds(r)
  \/ ClickRegisterMore
  \/ RunEffect
  \/ \E w \in Wallets \cup {NoWallet} : ChangeWallet(w)
  \/ LeavePage
  \/ ReloadPage

\* Calls end as LibraryCalls promises, and runs that await them go on.
Spec ==
  /\ Init /\ [][Next]_vars
  /\ \A r \in Runs : WF_vars(ResumeRun(r)) /\ WF_vars(CallEnds(r))

-----------------------------------------------------------------------------
(* Properties. *)

\* Every variable has its type; the list holds valid addresses only.
TypeOK ==
  /\ contacts \in Seq(Addresses)
  /\ outcome \in [Calls -> {"none", "waiting", "returned", "thrown", "lost"}]
  /\ mode \in [Calls -> {"none", "arcium", "demo"}]
  /\ wallet \in Wallets \cup {NoWallet}
  /\ page \in Page
  /\ effectDue \in BOOLEAN
  /\ DOMAIN run \subseteq Runs
  /\ \A r \in DOMAIN run : /\ run[r].wallet \in Wallets
                           /\ run[r].count \in Nat
                           /\ run[r].at \in {"calling", "ended"}
                           /\ run[r].mounted \in BOOLEAN
  /\ registered \in [Wallets -> Counts]

\* However addresses are typed, pasted and removed, the list never grows past the limit,
\* and what is submitted has between one contact and the limit.
\* (addContact, handlePaste, handleSubmit)
WithinLimit ==
  /\ Len(contacts) <= maxContacts
  /\ \A r \in DOMAIN run : run[r].count \in 1 .. maxContacts

\* What is added to the list was not in it before: an address is in the list twice only
\* when one paste had it twice. (addContact, handlePaste)
NewToTheList ==
  [][\A k \in DOMAIN contacts' \ DOMAIN contacts : contacts'[k] \notin ToSet(contacts)]_vars

\* What is shown as complete is one registration: transaction, count and mode belong
\* together, whatever has been removed from the list and whichever wallet was chosen
\* meanwhile. (handleSubmit)
ShownIsOneRegistration ==
  page.status = "complete" =>
    \E r \in DOMAIN run :
      /\ run[r].mounted /\ outcome[r] = "returned"
      /\ page.txSignature = r /\ page.resultMode = mode[r]
      /\ page.registeredCount = run[r].count

\* A page has one registration under way at most, and only while it shows its spinner;
\* changing or disconnecting the wallet does not bring the button back. (isSubmitting)
OneRegistrationAtATime ==
  \A r \in DOMAIN run :
    (run[r].mounted /\ Calling(r)) =>
      /\ page.status = "submitting"
      /\ \A q \in DOMAIN run : (run[q].mounted /\ Calling(q)) => q = r

\* Once the effect has run, the notice tells what the connected wallet has registered,
\* unless it was registered by a page that was left with its call under way.
\* (the effect and the notice)
NoticeIsOfWallet ==
  (wallet # NoWallet /\ page.status = "idle" /\ ~ effectDue) =>
    \/ /\ page.existingCount = registered[wallet]
       /\ page.alreadyRegistered <=> registered[wallet] > 0
    \/ \E r \in DOMAIN run :
         /\ ~ run[r].mounted /\ run[r].wallet = wallet /\ outcome[r] = "returned"
         /\ registered[wallet] = run[r].count

\* The spinner goes away, whatever fails.
SpinnerEnds == page.status = "submitting" ~> page.status # "submitting"
=============================================================================
