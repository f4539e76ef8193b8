----------------------------- MODULE ContactInput -----------------------------
(***************************************************************************)
(* The list of contacts that app/components/ContactInput.tsx collects.  An *)
(* entry is an address or Invalid, which stands for every text that is     *)
(* none; what is being typed is left out until it is entered, and so is the *)
(* error shown beside the list, on which nothing depends.                  *)
(***************************************************************************)
EXTENDS Subsequences, SequencesExt

CONSTANTS Addresses, Invalid,
          maxContacts,   \* the limit of the list
          MaxPaste       \* bound: entries of a pasted text

ASSUME InputAssumption ==
  Invalid \notin Addresses /\ maxContacts \in Nat \ {0} /\ MaxPaste \in Nat

VARIABLE contacts   \* the list

isValidAddress(address) == address \in Addresses

-----------------------------------------------------------------------------
\* Mutant of addContact: whatever is entered is taken.
addAnything(address) ==
  contacts' = IF address \in ToSet(contacts) \/ Len(contacts) >= maxContacts
                THEN contacts ELSE Append(contacts, address)

\* Mutant of addContact: an address is taken again.
addAgain(address) ==
  contacts' = IF isValidAddress(address) /\ Len(contacts) < maxContacts
                THEN Append(contacts, address) ELSE contacts

addContact(address) ==
  contacts' = IF /\ isValidAddress(address)
                 /\ address \notin ToSet(contacts)
                 /\ Len(contacts) < maxContacts
                THEN Append(contacts, address) ELSE contacts

\* The entries of a pasted text that are looked for, and not found, in the list as it was
\* before the paste.
New(text) == Kept(text, {a \in Addresses : isValidAddress(a) /\ a \notin ToSet(contacts)})

\* Mutant of handlePaste: what the paste itself has added is not counted.
pasteUncounted(text) ==
  contacts' = IF Len(contacts) < maxContacts THEN contacts \o New(text) ELSE contacts

\* The loop stops at the limit; an address that is pasted twice is taken twice.
handlePaste(text) ==
  LET room == maxContacts - Len(contacts)
  IN  contacts' = contacts \o SubSeq(New(text), 1, IF Len(New(text)) < room THEN Len(New(text))
                                                                            ELSE room)

removeContact(index) == index \in DOMAIN contacts /\ contacts' = RemoveAt(contacts, index)
=============================================================================
