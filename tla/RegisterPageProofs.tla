-------------------------- MODULE RegisterPageProofs ---------------------------
(***************************************************************************)
(* Proofs about the register page, for every number of registrations and   *)
(* every set of wallets and addresses.  Nothing is asked of the list: the  *)
(* proofs hold whatever is entered, pasted and removed.                    *)
(***************************************************************************)
EXTENDS RegisterPage, SubsequencesProofs

\* The shape of the state: as much of its types as the steps of the page need, and that
\* a call that waits is the call of a run.
Shape ==
  /\ DOMAIN page = {"status", "txSignature", "errorMessage", "registeredCount",
                    "alreadyRegistered", "existingCount", "resultMode"}
  /\ DOMAIN run \subseteq Runs
  /\ \A r \in DOMAIN run : /\ DOMAIN run[r] = {"wallet", "count", "at", "mounted"}
                           /\ run[r].wallet \in Wallets
  /\ DOMAIN outcome = Calls /\ DOMAIN mode = Calls /\ DOMAIN registered = Wallets
  /\ wallet \in Wallets \cup {NoWallet}
  /\ effectDue \in BOOLEAN
  /\ \A c \in Calls : outcome[c] = "waiting" => Calling(c)

\* The inductive invariant: that a notice is true rests on the other parts.
Inv ==
  /\ Shape
  /\ OneRegistrationAtATime
  /\ ShownIsOneRegistration
  /\ NoticeIsOfWallet

-----------------------------------------------------------------------------
\* The initial state satisfies the invariant.
LEMMA InitEstablishesInv == Init => Inv
  BY DEF Init, CallInit, FreshPage, Inv, Shape, OneRegistrationAtATime,
         ShownIsOneRegistration, NoticeIsOfWallet, Calling

\* Steps of the list alone.
LEMMA ListSteps ==
  ASSUME Inv,
         UNCHANGED <<callVars, wallet, page, effectDue, run, registered>>
  PROVE  Inv'
  BY DEF Inv, Shape, OneRegistrationAtATime, ShownIsOneRegistration, NoticeIsOfWallet,
         Calling, callVars

\* A registration starts.
LEMMA ClickRegisterStep ==
  ASSUME Inv, NEW r \in Runs, ClickRegister(r)
  PROVE  Inv'
<1> DEFINE p == [page EXCEPT !.status = "submitting", !.errorMessage = FALSE]
<1>1. /\ r \notin DOMAIN run
      /\ wallet \in Wallets
      /\ page.status # "submitting"
      /\ outcome[r] = "none" /\ outcome' = [outcome EXCEPT ![r] = "waiting"] /\ mode' = mode
      /\ registered' = registered
  BY DEF ClickRegister, NextRun, InputShown, InputMounted, isSubmitting, Make, Inv, Shape
<1>2. DOMAIN run' = DOMAIN run \cup {r}
  BY DEF ClickRegister
<1>3. /\ \A q \in DOMAIN run : q # r /\ run'[q] = run[q]
      /\ run'[r] = [wallet |-> wallet, count |-> Len(contacts), at |-> "calling", mounted |-> TRUE]
  BY <1>1 DEF ClickRegister
<1>4. page' = p /\ wallet' = wallet /\ effectDue' = EffectIsDue(p.status, wallet)
  BY DEF ClickRegister, Render
<1>5. page'.status = "submitting" /\ DOMAIN page' = DOMAIN page
  BY <1>4 DEF Inv, Shape
<1>6. effectDue' \in BOOLEAN
  BY <1>4 DEF EffectIsDue
<1>7. \A q \in DOMAIN run : ~ (run[q].mounted /\ Calling(q))
  BY <1>1 DEF Inv, OneRegistrationAtATime
<1>8. Shape'
  <2>1. \A c \in Calls : outcome'[c] = "waiting" => Calling(c)'
    BY <1>1, <1>2, <1>3 DEF Inv, Shape, Calling, Runs
  <2> QED BY <2>1, <1>1, <1>2, <1>3, <1>4, <1>5, <1>6 DEF Inv, Shape
<1>9. OneRegistrationAtATime'
  BY <1>2, <1>3, <1>5, <1>7 DEF OneRegistrationAtATime, Calling
<1> QED
  BY <1>5, <1>8, <1>9 DEF Inv, ShownIsOneRegistration, NoticeIsOfWallet

\* A run goes on after its call, and the page shows it if it is still the page of the run.
LEMMA ResumeRunStep ==
  ASSUME Inv, NEW r \in Runs, ResumeRun(r)
  PROVE  Inv'
<1>1. /\ r \in DOMAIN run /\ run[r].at = "calling"
      /\ outcome[r] \in {"returned", "thrown"}
      /\ run' = [run EXCEPT ![r].at = "ended"]
      /\ outcome' = outcome /\ mode' = mode /\ registered' = registered /\ wallet' = wallet
  BY DEF ResumeRun, RegistrationReturns, RegistrationThrows, Finish, Render, callVars, Calling
<1>2. /\ DOMAIN run' = DOMAIN run
      /\ \A q \in DOMAIN run : /\ DOMAIN run'[q] = DOMAIN run[q]
                               /\ run'[q].wallet = run[q].wallet
                               /\ run'[q].count = run[q].count
                               /\ run'[q].mounted = run[q].mounted
                               /\ q # r => run'[q] = run[q]
      /\ run'[r].at = "ended"
  BY <1>1 DEF Inv, Shape
<1>3. ~ run[r].mounted => page' = page
  BY DEF ResumeRun, RegistrationReturns, RegistrationThrows, Finish, Render
<1>4. run[r].mounted =>
        /\ page'.status \in {"complete", "error"}
        /\ page'.status = "complete" =>
             /\ outcome[r] = "returned"
             /\ page'.txSignature = r /\ page'.resultMode = mode[r]
             /\ page'.registeredCount = run[r].count
  <2> SUFFICES ASSUME run[r].mounted
               PROVE  /\ page'.status \in {"complete", "error"}
                      /\ page'.status = "complete" =>
                           /\ outcome[r] = "returned"
                           /\ page'.txSignature = r /\ page'.resultMode = mode[r]
                           /\ page'.registeredCount = run[r].count
    OBVIOUS
  <2>1. CASE RegistrationReturns(r)
    <3>1. page' = [page EXCEPT !.status = "complete", !.txSignature = r,
                               !.registeredCount = run[r].count, !.resultMode = mode[r]]
      BY <2>1 DEF RegistrationReturns, Finish, Render
    <3> QED BY <3>1, <2>1 DEF Inv, Shape, RegistrationReturns
  <2>2. CASE RegistrationThrows(r)
    <3>1. page' = [page EXCEPT !.status = "error", !.errorMessage = TRUE]
      BY <2>2 DEF RegistrationThrows, Finish, Render
    <3> QED BY <3>1 DEF Inv, Shape
  <2> QED BY <2>1, <2>2 DEF ResumeRun
<1>5. DOMAIN page' = DOMAIN page /\ effectDue' \in BOOLEAN
  BY DEF ResumeRun, RegistrationReturns, RegistrationThrows, Finish, Render, EffectIsDue,
         Inv, Shape
<1>6. ~ effectDue' => ~ effectDue /\ page'.status = page.status
  BY DEF ResumeRun, RegistrationReturns, RegistrationThrows, Finish, Render, EffectIsDue,
         Inv, Shape
<1>7. Shape'
  <2>1. \A c \in Calls : outcome'[c] = "waiting" => Calling(c)'
    BY <1>1, <1>2 DEF Inv, Shape, Calling
  <2> QED BY <2>1, <1>1, <1>2, <1>5 DEF Inv, Shape
<1>8. OneRegistrationAtATime'
  <2> SUFFICES ASSUME NEW q \in DOMAIN run', (run[q].mounted /\ Calling(q))'
               PROVE  /\ page'.status = "submitting"
                      /\ \A s \in DOMAIN run' : (run[s].mounted /\ Calling(s))' => s = q
    BY DEF OneRegistrationAtATime
  <2>1. q # r /\ q \in DOMAIN run /\ run[q].mounted /\ Calling(q)
    BY <1>2 DEF Calling
  <2>2. page.status = "submitting" /\ ~ run[r].mounted
    BY <2>1, <1>1 DEF Inv, OneRegistrationAtATime, Calling
  <2>3. \A s \in DOMAIN run : (run[s].mounted /\ Calling(s))' => run[s].mounted /\ Calling(s)
    BY <1>2 DEF Calling
  <2> QED BY <2>1, <2>2, <2>3, <1>2, <1>3 DEF Inv, OneRegistrationAtATime
<1>9. ShownIsOneRegistration'
  <2>1. CASE run[r].mounted
    BY <2>1, <1>1, <1>2, <1>4 DEF ShownIsOneRegistration
  <2>2. CASE ~ run[r].mounted
    BY <2>2, <1>1, <1>2, <1>3 DEF Inv, ShownIsOneRegistration
  <2> QED BY <2>1, <2>2
<1>10. NoticeIsOfWallet'
  <2>1. CASE run[r].mounted
    BY <2>1, <1>4 DEF NoticeIsOfWallet
  <2>2. CASE ~ run[r].mounted
    BY <2>2, <1>1, <1>2, <1>3, <1>6 DEF Inv, NoticeIsOfWallet
  <2> QED BY <2>1, <2>2
<1> QED
  BY <1>7, <1>8, <1>9, <1>10 DEF Inv

\* A call ends; the page that shows a notice is not the page of its run.
LEMMA CallEndsStep ==
  ASSUME Inv, NEW r \in Runs, CallEnds(r)
  PROVE  Inv'
<1>1. /\ outcome[r] = "waiting" /\ r \in Calls
      /\ DOMAIN outcome' = Calls /\ DOMAIN mode' = Calls
      /\ outcome'[r] \in {"returned", "thrown"}
      /\ \A c \in Calls \ {r} : outcome'[c] = outcome[c] /\ mode'[c] = mode[c]
  BY DEF CallEnds, Returns, Throws, Inv, Shape, Runs
<1>2. page' = page /\ run' = run /\ wallet' = wallet /\ effectDue' = effectDue
  BY DEF CallEnds
<1>3. /\ DOMAIN registered' = Wallets
      /\ \/ registered' = registered
         \/ /\ outcome'[r] = "returned"
            /\ registered' = [registered EXCEPT ![run[r].wallet] = run[r].count]
  BY DEF CallEnds, Returns, Throws, Inv, Shape, Runs
<1>4. Calling(r) /\ r \in DOMAIN run /\ run[r].wallet \in Wallets
  BY <1>1 DEF Inv, Shape, Calling
<1>5. Shape'
  BY <1>1, <1>2, <1>3 DEF Inv, Shape, Calling
<1>6. OneRegistrationAtATime'
  BY <1>2 DEF Inv, OneRegistrationAtATime, Calling
<1>7. ShownIsOneRegistration'
  BY <1>1, <1>2 DEF Inv, Shape, ShownIsOneRegistration, Runs
<1>8. NoticeIsOfWallet'
  <2> SUFFICES ASSUME wallet # NoWallet, page.status = "idle", ~ effectDue
               PROVE  NoticeIsOfWallet'
    BY <1>2 DEF NoticeIsOfWallet
  <2>1. ~ run[r].mounted
    BY <1>4 DEF Inv, OneRegistrationAtATime
  <2>2. CASE registered' # registered /\ run[r].wallet = wallet
    <3>1. outcome'[r] = "returned" /\ registered'[wallet] = run[r].count
      BY <2>2, <1>3, <1>4 DEF Inv, Shape
    <3> QED BY <3>1, <2>1, <2>2, <1>2, <1>4 DEF NoticeIsOfWallet
  <2>3. CASE registered' = registered \/ run[r].wallet # wallet
    <3>1. registered'[wallet] = registered[wallet]
      BY <2>3, <1>3, <1>4 DEF Inv, Shape
    <3>2. \A q \in DOMAIN run : outcome[q] = "returned" => outcome'[q] = "returned"
      BY <1>1 DEF Inv, Shape, Runs
    <3> QED BY <3>1, <3>2, <1>2 DEF Inv, NoticeIsOfWallet
  <2> QED BY <2>2, <2>3
<1> QED
  BY <1>5, <1>6, <1>7, <1>8 DEF Inv

\* The other steps of the page.
LEMMA ClickRegisterMoreStep ==
  ASSUME Inv, ClickRegisterMore
  PROVE  Inv'
<1>1. /\ page.status = "complete" /\ page'.status = "idle" /\ DOMAIN page' = DOMAIN page
      /\ outcome' = outcome /\ mode' = mode /\ registered' = registered /\ run' = run
      /\ wallet' = wallet
  BY DEF ClickRegisterMore, Render, callVars, Inv, Shape
<1>2. effectDue' = TRUE
  BY DEF ClickRegisterMore, Render, EffectIsDue, Inv, Shape
<1> QED
  BY <1>1, <1>2 DEF Inv, Shape, OneRegistrationAtATime, ShownIsOneRegistration,
                    NoticeIsOfWallet, Calling

\* The effect runs.
LEMMA RunEffectStep ==
  ASSUME Inv, RunEffect
  PROVE  Inv'
<1>1. /\ effectDue' = FALSE
      /\ outcome' = outcome /\ mode' = mode /\ registered' = registered /\ run' = run
      /\ wallet' = wallet
  BY DEF RunEffect, callVars
<1>2. /\ DOMAIN page' = DOMAIN page
      /\ page'.status = page.status /\ page'.txSignature = page.txSignature
      /\ page'.registeredCount = page.registeredCount /\ page'.resultMode = page.resultMode
  BY DEF RunEffect, Inv, Shape
<1>3. wallet # NoWallet => /\ page'.existingCount = registered[wallet]
                           /\ page'.alreadyRegistered = (registered[wallet] > 0)
  BY DEF RunEffect, Inv, Shape
<1>4. Shape'
  BY <1>1, <1>2 DEF Inv, Shape, Calling
<1>5. OneRegistrationAtATime' /\ ShownIsOneRegistration'
  BY <1>1, <1>2 DEF Inv, OneRegistrationAtATime, ShownIsOneRegistration, Calling
<1>6. NoticeIsOfWallet'
  BY <1>1, <1>3 DEF NoticeIsOfWallet
<1> QED
  BY <1>4, <1>5, <1>6 DEF Inv

\* The wallet changes.
LEMMA ChangeWalletStep ==
  ASSUME Inv, NEW w \in Wallets \cup {NoWallet}, ChangeWallet(w)
  PROVE  Inv'
<1>1. /\ page' = page /\ wallet' = w
      /\ outcome' = outcome /\ mode' = mode /\ registered' = registered /\ run' = run
  BY DEF ChangeWallet, Render, callVars
<1>2. effectDue' = TRUE
  BY DEF ChangeWallet, Render, EffectIsDue
<1> QED
  BY <1>1, <1>2 DEF Inv, Shape, OneRegistrationAtATime, ShownIsOneRegistration,
                    NoticeIsOfWallet, Calling

\* The page is left.
LEMMA LeavePageStep ==
  ASSUME Inv, LeavePage \/ ReloadPage
  PROVE  Inv'
<1>1. /\ page' = FreshPage /\ effectDue' = TRUE /\ wallet' = wallet
      /\ mode' = mode /\ registered' = registered
  BY DEF LeavePage, ReloadPage, callVars
<1>2. /\ DOMAIN run' = DOMAIN run
      /\ \A r \in DOMAIN run : /\ DOMAIN run'[r] = DOMAIN run[r]
                               /\ run'[r].wallet = run[r].wallet
                               /\ run'[r].mounted = FALSE
  <2>1. \/ run' = [r \in DOMAIN run |-> [run[r] EXCEPT !.mounted = FALSE]]
        \/ run' = [r \in DOMAIN run |-> [run[r] EXCEPT !.mounted = FALSE, !.at = "ended"]]
    BY DEF LeavePage, ReloadPage
  <2>2. \A r \in DOMAIN run : DOMAIN run[r] = {"wallet", "count", "at", "mounted"}
    BY DEF Inv, Shape
  <2>3. DOMAIN run' = DOMAIN run
    BY <2>1
  <2>4. \A r \in DOMAIN run : \/ run'[r] = [run[r] EXCEPT !.mounted = FALSE]
                              \/ run'[r] = [run[r] EXCEPT !.mounted = FALSE, !.at = "ended"]
    BY <2>1
  <2> QED BY <2>2, <2>3, <2>4
<1>3. /\ DOMAIN outcome' = Calls
      /\ \A c \in Calls : outcome'[c] = "waiting" => Calling(c)'
  <2>1. CASE LeavePage
    <3>1. outcome' = outcome /\ \A r \in DOMAIN run : run'[r].at = run[r].at
      BY <2>1 DEF LeavePage, callVars, Inv, Shape
    <3> QED BY <3>1, <1>2 DEF Inv, Shape, Calling
  <2>2. CASE ReloadPage
    BY <2>2 DEF ReloadPage, Inv, Shape
  <2> QED BY <2>1, <2>2
<1>4. Shape'
  BY <1>1, <1>2, <1>3 DEF Inv, Shape, FreshPage
<1> QED
  BY <1>1, <1>2, <1>4 DEF Inv, FreshPage, OneRegistrationAtATime, ShownIsOneRegistration,
                          NoticeIsOfWallet

-----------------------------------------------------------------------------
\* Every step preserves the invariant.
LEMMA StepPreservesInv == Inv /\ [Next]_vars => Inv'
<1> SUFFICES ASSUME Inv, [Next]_vars PROVE Inv'
  OBVIOUS
<1>1. ASSUME NEW address, EnterContact(address) PROVE Inv'
  BY <1>1, ListSteps DEF EnterContact
<1>2. ASSUME NEW text, PasteContacts(text) PROVE Inv'
  BY <1>2, ListSteps DEF PasteContacts
<1>3. ASSUME NEW index, ClickRemove(index) PROVE Inv'
  BY <1>3, ListSteps DEF ClickRemove
<1>4. CASE \E r \in Runs : ClickRegister(r) \/ ResumeRun(r) \/ CallEnds(r)
  BY <1>4, ClickRegisterStep, ResumeRunStep, CallEndsStep
<1>5. CASE ClickRegisterMore
  BY <1>5, ClickRegisterMoreStep
<1>6. CASE RunEffect
  BY <1>6, RunEffectStep
<1>7. CASE \E w \in Wallets \cup {NoWallet} : ChangeWallet(w)
  BY <1>7, ChangeWalletStep
<1>8. CASE LeavePage \/ ReloadPage
  BY <1>8, LeavePageStep
<1>9. CASE UNCHANGED vars
  BY <1>9, ListSteps DEF vars
<1> QED
  BY <1>1, <1>2, <1>3, <1>4, <1>5, <1>6, <1>7, <1>8, <1>9 DEF Next

\* The invariant holds in every behaviour of the page.
LEMMA InvHolds == Spec => []Inv
  BY InitEstablishesInv, StepPreservesInv, PTL DEF Spec

\* A page has one registration under way at most, whatever happens to the wallet: its
\* button stays disabled from the click to the end of the run.
THEOREM OneRegistration == Spec => []OneRegistrationAtATime
<1>1. Inv => OneRegistrationAtATime
  BY DEF Inv
<1> QED BY <1>1, InvHolds, PTL

\* Transaction, count and mode that are shown are those of one registration.
THEOREM ShownTogether == Spec => []ShownIsOneRegistration
<1>1. Inv => ShownIsOneRegistration
  BY DEF Inv
<1> QED BY <1>1, InvHolds, PTL

\* The notice tells what the connected wallet has registered, or what it had before a
\* page that was left registered it again.
THEOREM NoticeOfWallet == Spec => []NoticeIsOfWallet
<1>1. Inv => NoticeIsOfWallet
  BY DEF Inv
<1> QED BY <1>1, InvHolds, PTL
-----------------------------------------------------------------------------
(* The list. *)

\* A list of addresses within the limit.
List == {l \in Seq(Addresses) : Len(l) <= maxContacts}

\* What a paste finds new: addresses that are not in the list.
LEMMA NewAddresses ==
  ASSUME contacts \in Seq(Addresses), NEW text \in Seq(Addresses \cup {Invalid})
  PROVE  New(text) \in Seq(Addresses \ ToSet(contacts))
<1> DEFINE S == {a \in Addresses : isValidAddress(a) /\ a \notin ToSet(contacts)}
<1>1. Kept(text, S) \in Seq((Addresses \cup {Invalid}) \cap S)
  BY KeptFacts
<1>2. (Addresses \cup {Invalid}) \cap S = Addresses \ ToSet(contacts)
  BY DEF isValidAddress
<1>3. New(text) = Kept(text, S)
  BY DEF New
<1> QED BY <1>1, <1>2, <1>3

\* Entering, pasting and removing keep the list within its limit, and what they add to it
\* was not in it.
LEMMA ListChanges ==
  ASSUME contacts \in List,
         \/ \E address : addContact(address)
         \/ \E text \in Seq(Addresses \cup {Invalid}) : handlePaste(text)
         \/ \E index : removeContact(index)
  PROVE  /\ contacts' \in List
         /\ \A k \in DOMAIN contacts' \ DOMAIN contacts : contacts'[k] \notin ToSet(contacts)
<1> USE InputAssumption DEF List
<1>1. ASSUME NEW address, addContact(address)
      PROVE  /\ contacts' \in List
             /\ \A k \in DOMAIN contacts' \ DOMAIN contacts : contacts'[k] \notin ToSet(contacts)
  <2>1. CASE contacts' = contacts
    BY <2>1
  <2>2. CASE /\ address \in Addresses /\ address \notin ToSet(contacts)
             /\ Len(contacts) < maxContacts /\ contacts' = Append(contacts, address)
    BY <2>2
  <2> QED BY <1>1, <2>1, <2>2 DEF addContact, isValidAddress
<1>2. ASSUME NEW text \in Seq(Addresses \cup {Invalid}), handlePaste(text)
      PROVE  /\ contacts' \in List
             /\ \A k \in DOMAIN contacts' \ DOMAIN contacts : contacts'[k] \notin ToSet(contacts)
  <2> DEFINE new  == New(text)
             room == maxContacts - Len(contacts)
             n    == IF Len(new) < room THEN Len(new) ELSE room
             part == SubSeq(new, 1, n)
  <2>1. new \in Seq(Addresses \ ToSet(contacts))
    BY NewAddresses
  <2>2. contacts' = contacts \o part
    BY <1>2 DEF handlePaste
  <2> HIDE DEF new
  <2>3. n \in 0 .. Len(new) /\ n <= room
    BY <2>1
  <2> HIDE DEF n
  <2>4. /\ part \in Seq(Addresses \ ToSet(contacts)) /\ Len(part) = n
    BY <2>1, <2>3
  <2> HIDE DEF part
  <2>5. /\ contacts' \in Seq(Addresses) /\ Len(contacts') = Len(contacts) + n
        /\ \A i \in 1 .. Len(contacts) + n :
             contacts'[i] = IF i <= Len(contacts) THEN contacts[i] ELSE part[i - Len(contacts)]
    <3>1. part \in Seq(Addresses)
      BY <2>4, SeqMonotonic
    <3> QED BY <3>1, <2>2, <2>4, ConcatProperties
  <2>6. ASSUME NEW k \in DOMAIN contacts' \ DOMAIN contacts
        PROVE  contacts'[k] \notin ToSet(contacts)
    <3>1. k - Len(contacts) \in 1 .. n /\ contacts'[k] = part[k - Len(contacts)]
      BY <2>2, <2>3, <2>4, <2>5
    <3> QED BY <3>1, <2>4
  <2> QED BY <2>3, <2>5, <2>6
<1>3. ASSUME NEW index, removeContact(index)
      PROVE  /\ contacts' \in List
             /\ \A k \in DOMAIN contacts' \ DOMAIN contacts : contacts'[k] \notin ToSet(contacts)
  <2> DEFINE before == SubSeq(contacts, 1, index - 1)
             after  == SubSeq(contacts, index + 1, Len(contacts))
  <2>1. index \in 1 .. Len(contacts) /\ contacts' = before \o after
    BY <1>3 DEF removeContact, RemoveAt
  <2>2. before \in Seq(Addresses) /\ Len(before) = index - 1
    BY <2>1
  <2>3. after \in Seq(Addresses) /\ Len(after) = Len(contacts) - index
    BY <2>1
  <2> HIDE DEF before, after
  <2>4. contacts' \in Seq(Addresses) /\ Len(contacts') = Len(contacts) - 1
    <3>1. before \o after \in Seq(Addresses) /\ Len(before \o after) = Len(before) + Len(after)
      BY <2>2, <2>3, ConcatProperties
    <3> QED BY <3>1, <2>1, <2>2, <2>3
  <2>5. DOMAIN contacts' \ DOMAIN contacts = {}
    BY <2>4
  <2> QED BY <2>4, <2>5
<1> QED BY <1>1, <1>2, <1>3

\* Whatever the page does, its list stays within the limit and grows by what is new.
LEMMA ListOfStep ==
  ASSUME contacts \in List, [Next]_vars
  PROVE  /\ contacts' \in List
         /\ \A k \in DOMAIN contacts' \ DOMAIN contacts : contacts'[k] \notin ToSet(contacts)
<1> DEFINE Fine == /\ contacts' \in List
                   /\ \A k \in DOMAIN contacts' \ DOMAIN contacts :
                        contacts'[k] \notin ToSet(contacts)
<1>1. ASSUME contacts' \in {contacts, <<>>} PROVE Fine
  <2>1. CASE contacts' = contacts
    BY <2>1
  <2>2. CASE contacts' = <<>>
    <3>1. <<>> \in List /\ DOMAIN <<>> = {}
      BY InputAssumption DEF List
    <3> QED BY <2>2, <3>1
  <2> QED BY <1>1, <2>1, <2>2
<1>2. ASSUME NEW address, EnterContact(address) PROVE Fine
  BY <1>2, ListChanges DEF EnterContact
<1>3. ASSUME NEW text \in BoundedSeq(Addresses \cup {Invalid}, MaxPaste), PasteContacts(text)
      PROVE  Fine
  <2>1. text \in Seq(Addresses \cup {Invalid})
    BY InputAssumption DEF BoundedSeq, SeqOf
  <2> QED BY <2>1, <1>3, ListChanges DEF PasteContacts
<1>4. ASSUME NEW index, ClickRemove(index) PROVE Fine
  BY <1>4, ListChanges DEF ClickRemove
<1>5. ASSUME NEW p, NEW w, Render(p, w) PROVE contacts' \in {contacts, <<>>}
  BY <1>5 DEF Render
<1>6. CASE \E r \in Runs : ClickRegister(r) \/ ResumeRun(r) \/ CallEnds(r)
  <2> PICK r \in Runs : ClickRegister(r) \/ ResumeRun(r) \/ CallEnds(r)
    BY <1>6
  <2>1. CASE ClickRegister(r)
    BY <2>1, <1>1, <1>5 DEF ClickRegister
  <2>2. CASE ResumeRun(r)
    BY <2>2, <1>1, <1>5 DEF ResumeRun, RegistrationReturns, RegistrationThrows, Finish
  <2>3. CASE CallEnds(r)
    BY <2>3, <1>1 DEF CallEnds
  <2> QED BY <2>1, <2>2, <2>3
<1>7. CASE ClickRegisterMore \/ \E w \in Wallets \cup {NoWallet} : ChangeWallet(w)
  BY <1>7, <1>1, <1>5 DEF ClickRegisterMore, ChangeWallet
<1>8. CASE RunEffect \/ LeavePage \/ ReloadPage \/ UNCHANGED vars
  BY <1>8, <1>1 DEF RunEffect, LeavePage, ReloadPage, vars
<1> QED
  BY <1>2, <1>3, <1>4, <1>6, <1>7, <1>8 DEF Next

-----------------------------------------------------------------------------
(* The types. *)

\* A call that has returned has done so in one of the two modes.
ModeIsKnown(out, md) == \A c \in Calls : out[c] = "returned" => md[c] \in {"arcium", "demo"}

\* The type invariant with what it takes to keep it: the limit, for the counts, and the
\* modes, for the page that shows them.
Types == TypeOK /\ WithinLimit /\ ModeIsKnown(outcome, mode)

\* Runs: each was started for a wallet, with a list that is not empty.
RunsTyped(f) ==
  /\ DOMAIN f \subseteq Runs
  /\ \A r \in DOMAIN f : /\ f[r].wallet \in Wallets
                         /\ f[r].count \in 1 .. maxContacts
                         /\ f[r].at \in {"calling", "ended"}
                         /\ f[r].mounted \in BOOLEAN

\* The types and the limit, together, in the words of the next lemmas.
Typed(list, out, md, w, p, due, runs, reg) ==
  /\ list \in List
  /\ out \in [Calls -> {"none", "waiting", "returned", "thrown", "lost"}]
  /\ md \in [Calls -> {"none", "arcium", "demo"}]
  /\ w \in Wallets \cup {NoWallet}
  /\ p \in Page
  /\ due \in BOOLEAN
  /\ RunsTyped(runs)
  /\ reg \in [Wallets -> Counts]
  /\ ModeIsKnown(out, md)

\* The types, variable by variable.
LEMMA TypesAre ==
  /\ Types <=> Typed(contacts, outcome, mode, wallet, page, effectDue, run, registered)
  /\ Types' <=> Typed(contacts', outcome', mode', wallet', page', effectDue', run', registered')
  BY InputAssumption DEF Types, TypeOK, WithinLimit, List, RunsTyped, Typed, ModeIsKnown

\* Every step of the page keeps them.
LEMMA TypesOfStep ==
  ASSUME Inv, Types, [Next]_vars
  PROVE  Types'
<1>1. Typed(contacts, outcome, mode, wallet, page, effectDue, run, registered)
  BY TypesAre
<1>2. contacts' \in List
  BY <1>1, ListOfStep DEF Typed
<1> USE DEF Typed
<1>3. ASSUME NEW p \in Page, NEW w \in Wallets \cup {NoWallet}, Render(p, w)
      PROVE  page' \in Page /\ wallet' \in Wallets \cup {NoWallet} /\ effectDue' \in BOOLEAN
  BY <1>3 DEF Render, EffectIsDue
<1>4. ASSUME NEW r \in Runs, ClickRegister(r)
      PROVE  Types'
  <2>1. wallet \in Wallets /\ Len(contacts) \in 1 .. maxContacts
    BY <1>1, <1>4, InputAssumption DEF ClickRegister, InputShown, InputMounted, List
  <2>2. RunsTyped(run')
    BY <1>1, <1>4, <2>1 DEF RunsTyped, ClickRegister
  <2>3. [page EXCEPT !.status = "submitting", !.errorMessage = FALSE] \in Page
    BY <1>1 DEF Page
  <2>4. page' \in Page /\ wallet' \in Wallets \cup {NoWallet} /\ effectDue' \in BOOLEAN
    BY <1>1, <1>3, <1>4, <2>3 DEF ClickRegister
  <2> QED
    BY <1>1, <1>2, <1>4, <2>2, <2>4, TypesAre DEF ClickRegister, Make, Runs, ModeIsKnown
<1>5. ASSUME NEW r \in Runs, ResumeRun(r)
      PROVE  Types'
  <2>1. r \in DOMAIN run /\ run' = [run EXCEPT ![r].at = "ended"] /\ UNCHANGED <<outcome, mode, registered>>
    BY <1>5 DEF ResumeRun, RegistrationReturns, RegistrationThrows, Finish, callVars, Calling
  <2>2. RunsTyped(run')
    BY <1>1, <2>1 DEF RunsTyped, Inv, Shape
  <2>3. \E p \in Page : Render(p, wallet)
    <3>1. CASE RegistrationReturns(r)
      <4>1. run[r].count \in Counts
        BY <1>1, <2>1, InputAssumption DEF RunsTyped, Counts
      <4>2. mode[r] \in {"arcium", "demo"} /\ r \in Calls \cup {0}
        BY <3>1, <1>1, <2>1 DEF RegistrationReturns, ModeIsKnown, RunsTyped, Runs
      <4>3. [page EXCEPT !.status = "complete", !.txSignature = r,
                         !.registeredCount = run[r].count, !.resultMode = mode[r]] \in Page
        BY <4>1, <4>2, <1>1 DEF Page
      <4> QED BY <3>1, <4>3, <1>1 DEF RegistrationReturns, Finish
    <3>2. CASE RegistrationThrows(r)
      <4>1. [page EXCEPT !.status = "error", !.errorMessage = TRUE] \in Page
        BY <1>1 DEF Page
      <4> QED BY <3>2, <4>1, <1>1 DEF RegistrationThrows, Finish
    <3> QED BY <1>5, <3>1, <3>2 DEF ResumeRun
  <2> QED
    BY <1>1, <1>2, <1>3, <2>1, <2>2, <2>3, TypesAre
<1>6. ASSUME NEW r \in Runs, CallEnds(r)
      PROVE  Types'
  <2>1. outcome[r] = "waiting" /\ r \in Calls
    BY <1>6 DEF CallEnds, Returns, Throws, Runs
  <2>2. r \in DOMAIN run /\ run[r].wallet \in Wallets /\ run[r].count \in Counts
    BY <1>1, <2>1, InputAssumption DEF Inv, Shape, Calling, RunsTyped, Counts
  <2>3. /\ outcome' \in [Calls -> {"none", "waiting", "returned", "thrown", "lost"}]
        /\ mode' \in [Calls -> {"none", "arcium", "demo"}]
        /\ ModeIsKnown(outcome', mode')
    BY <1>1, <1>6, <2>1 DEF CallEnds, Returns, Throws, ModeIsKnown
  <2>4. registered' \in [Wallets -> Counts]
    BY <1>1, <1>6, <2>2 DEF CallEnds
  <2> QED
    BY <1>1, <1>2, <1>6, <2>3, <2>4, TypesAre DEF CallEnds
<1>7. ASSUME ClickRegisterMore
      PROVE  Types'
  <2>1. [page EXCEPT !.status = "idle", !.txSignature = 0] \in Page
    BY <1>1 DEF Page
  <2>2. page' \in Page /\ wallet' \in Wallets \cup {NoWallet} /\ effectDue' \in BOOLEAN
    BY <1>1, <1>3, <1>7, <2>1 DEF ClickRegisterMore
  <2> QED
    BY <1>1, <1>2, <1>7, <2>2, TypesAre DEF ClickRegisterMore, callVars
<1>8. ASSUME RunEffect
      PROVE  Types'
  <2>1. wallet # NoWallet =>
          [page EXCEPT !.alreadyRegistered = registered[wallet] > 0,
                       !.existingCount = registered[wallet]] \in Page
    <3>1. wallet # NoWallet => registered[wallet] \in Counts /\ (registered[wallet] > 0) \in BOOLEAN
      BY <1>1
    <3> QED BY <3>1, <1>1 DEF Page
  <2>2. page' \in Page
    BY <1>1, <1>8, <2>1 DEF RunEffect
  <2> QED
    BY <1>1, <1>2, <1>8, <2>2, TypesAre DEF RunEffect, callVars
<1>9. ASSUME NEW w \in Wallets \cup {NoWallet}, ChangeWallet(w)
      PROVE  Types'
  <2>1. page' \in Page /\ wallet' \in Wallets \cup {NoWallet} /\ effectDue' \in BOOLEAN
    BY <1>1, <1>3, <1>9 DEF ChangeWallet
  <2> QED
    BY <1>1, <1>2, <1>9, <2>1, TypesAre DEF ChangeWallet, callVars
<1>10. ASSUME LeavePage \/ ReloadPage
       PROVE  Types'
  <2>1. FreshPage \in Page
    BY InputAssumption DEF FreshPage, Page, Counts
  <2>2. RunsTyped(run')
    <3>1. \/ run' = [r \in DOMAIN run |-> [run[r] EXCEPT !.mounted = FALSE]]
          \/ run' = [r \in DOMAIN run |-> [run[r] EXCEPT !.mounted = FALSE, !.at = "ended"]]
      BY <1>10 DEF LeavePage, ReloadPage
    <3>2. \A r \in DOMAIN run : DOMAIN run[r] = {"wallet", "count", "at", "mounted"}
      BY DEF Inv, Shape
    <3>3. DOMAIN run' = DOMAIN run
      BY <3>1
    <3>4. ASSUME NEW r \in DOMAIN run
          PROVE  /\ run'[r].wallet = run[r].wallet /\ run'[r].count = run[r].count
                 /\ run'[r].at \in {run[r].at, "ended"} /\ run'[r].mounted = FALSE
      <4>1. \/ run'[r] = [run[r] EXCEPT !.mounted = FALSE]
            \/ run'[r] = [run[r] EXCEPT !.mounted = FALSE, !.at = "ended"]
        BY <3>1
      <4> QED BY <4>1, <3>2
    <3> QED BY <1>1, <3>3, <3>4 DEF RunsTyped
  <2>3. /\ outcome' \in [Calls -> {"none", "waiting", "returned", "thrown", "lost"}]
        /\ mode' = mode /\ ModeIsKnown(outcome', mode')
    BY <1>1, <1>10 DEF LeavePage, ReloadPage, callVars, ModeIsKnown
  <2> QED
    BY <1>1, <1>2, <1>10, <2>1, <2>2, <2>3, TypesAre DEF LeavePage, ReloadPage
<1>11. ASSUME UNCHANGED <<callVars, wallet, page, effectDue, run, registered>>
       PROVE  Types'
  BY <1>1, <1>2, <1>11, TypesAre DEF callVars
<1> QED
  BY <1>4, <1>5, <1>6, <1>7, <1>8, <1>9, <1>10, <1>11
     DEF Next, vars, EnterContact, PasteContacts, ClickRemove

\* The types hold from the start.
LEMMA InitTyped == Init => Types
  BY PageAssumption, InputAssumption, TypesAre
     DEF Init, CallInit, FreshPage, Page, Counts, Typed, List, RunsTyped, ModeIsKnown

\* They hold always.
LEMMA TypesHold == Spec => [](Inv /\ Types)
<1>1. Inv /\ Types /\ [Next]_vars => (Inv /\ Types)'
  BY StepPreservesInv, TypesOfStep
<1> QED BY <1>1, InitEstablishesInv, InitTyped, PTL DEF Spec

\* Every variable keeps its type, whichever runs overlap.
THEOREM PageTypes == Spec => []TypeOK
<1>1. Types => TypeOK
  BY DEF Types
<1> QED BY <1>1, TypesHold, PTL

\* The list never grows past the limit, and what is submitted has between one contact and
\* the limit: the paste counts what it adds itself, and nothing is added while a
\* submission is under way.
THEOREM LimitKept == Spec => []WithinLimit
<1>1. Types => WithinLimit
  BY DEF Types
<1> QED BY <1>1, TypesHold, PTL

\* What a step adds to the list was not in the list before the step.
THEOREM AddedIsNew == Spec => NewToTheList
<1>1. Types /\ [Next]_vars =>
        [\A k \in DOMAIN contacts' \ DOMAIN contacts : contacts'[k] \notin ToSet(contacts)]_vars
  <2> SUFFICES ASSUME Types, [Next]_vars
               PROVE  \A k \in DOMAIN contacts' \ DOMAIN contacts :
                        contacts'[k] \notin ToSet(contacts)
    OBVIOUS
  <2>1. contacts \in List
    BY TypesAre DEF Typed
  <2> QED BY <2>1, ListOfStep
<1> QED BY <1>1, TypesHold, PTL DEF Spec, NewToTheList
=============================================================================
