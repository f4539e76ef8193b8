-------------------------- MODULE PrivaseeClientProofs --------------------------
(***************************************************************************)
(* Proofs about the browser client, for any number of calls, any wallets   *)
(* and any contact lists.                                                  *)
(***************************************************************************)
EXTENDS PrivaseeClient, SubsequencesProofs, FiniteSetTheorems

NothingSent == {"idle", "arcium_blockhash", "arcium_send", "setup_blockhash", "setup_send"}

\* What a call has sent, by the place it is at.  After an attempt in arcium mode that
\* failed there may be one transaction; at the confirmation there is one more.
CallInv(c) ==
  /\ pc[c] \in Waiting \cup {"idle", "done", "failed", "gone"}
  /\ c \in DOMAIN job <=> pc[c] # "idle"
  /\ c \in DOMAIN reply <=> pc[c] = "done"
  /\ pc[c] = "arcium_stored" => job[c].kind = "register"
  /\ pc[c] = "arcium_delay" => job[c].kind = "discover"
  /\ pc[c] \in NothingSent => SentBy(c) = {}
  /\ pc[c] \in {"arcium_stored", "arcium_delay"} =>
       c \in DOMAIN signature /\ SentBy(c) = {signature[c]}
  /\ pc[c] \in {"memo_blockhash", "memo_send"} => \E m \in Nat : SentBy(c) \subseteq {m}
  /\ pc[c] = "memo_confirm" =>
       /\ c \in DOMAIN signature
       /\ \E m \in Nat : SentBy(c) = {m, signature[c]} /\ m <= signature[c]
  /\ pc[c] = "done" =>
       \E m \in Nat : /\ SentBy(c) = {m, reply[c].signature} /\ m <= reply[c].signature
                      /\ reply[c].mode = "arcium" => m = reply[c].signature
  /\ pc[c] \in {"failed", "gone"} => \E m, n \in Nat : SentBy(c) \subseteq {m, n}

\* The inductive invariant.
Inv ==
  /\ DOMAIN pc = Calls
  /\ DOMAIN job \subseteq Calls /\ DOMAIN reply \subseteq Calls
  /\ ledger \in Seq(Calls)
  /\ \A c \in Calls : CallInv(c)
  /\ \A w \in DOMAIN stored : stored[w].by \in DOMAIN job
  /\ StoredWasSigned
  /\ RawEntryIsTransient
  /\ KeyIsOfArciumRegistration

\* What every step of call c does and leaves alone.
StepOf(c) ==
  /\ \E l : pc' = [pc EXCEPT ![c] = l]
  /\ job' = job \/ (c \notin DOMAIN job /\ \E j : job' = Put(job, c, j))
  /\ signature' = signature \/ \E s : signature' = Put(signature, c, s)
  /\ reply' = reply \/ (c \notin DOMAIN reply /\ \E r : reply' = Put(reply, c, r))
  /\ ledger' \in {ledger, Append(ledger, c)}

\* What StoredWasSigned says of one entry, of call d.
EntrySigned(w, d) ==
  /\ job[d].kind = "register" /\ job[d].wallet = w
  /\ stored[w] \in {RawEntry(d), StoredContactData(d)}
  /\ SentBy(d) # {}

-----------------------------------------------------------------------------
\* What Put does to a function,
LEMMA PutFacts ==
  ASSUME NEW f, NEW x, NEW y
  PROVE  /\ DOMAIN Put(f, x, y) = DOMAIN f \cup {x}
         /\ Put(f, x, y)[x] = y
         /\ \A z \in DOMAIN f \ {x} : Put(f, x, y)[z] = f[z]
BY DEF Put

\* and what it leaves alone.
LEMMA PutStays ==
  ASSUME NEW f, NEW g, NEW x, g = f \/ \E y : g = Put(f, x, y)
  PROVE  /\ DOMAIN f \subseteq DOMAIN g /\ DOMAIN g \subseteq DOMAIN f \cup {x}
         /\ \A z \in DOMAIN f \ {x} : g[z] = f[z]
<1>1. CASE g = f
  BY <1>1
<1>2. ASSUME NEW y, g = Put(f, x, y)
      PROVE  /\ DOMAIN f \subseteq DOMAIN g /\ DOMAIN g \subseteq DOMAIN f \cup {x}
             /\ \A z \in DOMAIN f \ {x} : g[z] = f[z]
  BY <1>2 DEF Put
<1> QED BY <1>1, <1>2

\* Sending adds the next position of the ledger to those of the call.
LEMMA LedgerFacts ==
  ASSUME Inv, NEW c \in Calls, StepOf(c)
  PROVE  /\ ledger' \in Seq(Calls)
         /\ Len(ledger) \in Nat
         /\ \A d \in Calls : \A n \in SentBy(d) : n \in 1 .. Len(ledger)
         /\ \A d \in Calls \ {c} : SentBy(d)' = SentBy(d)
         /\ ledger' = ledger => SentBy(c)' = SentBy(c)
         /\ ledger' = Append(ledger, c) => SentBy(c)' = SentBy(c) \cup {Len(ledger) + 1}
         /\ ledger' = Append(ledger, c) => Len(ledger') = Len(ledger) + 1
<1>1. ledger \in Seq(Calls) /\ ledger' \in {ledger, Append(ledger, c)}
  BY DEF Inv, StepOf
<1>2. CASE ledger' = ledger
  BY <1>1, <1>2 DEF SentBy
<1>3. CASE ledger' = Append(ledger, c)
  <2>1. /\ ledger' \in Seq(Calls) /\ Len(ledger) \in Nat /\ Len(ledger') = Len(ledger) + 1
        /\ DOMAIN ledger = 1 .. Len(ledger) /\ DOMAIN ledger' = 1 .. (Len(ledger) + 1)
        /\ \A n \in 1 .. Len(ledger) : ledger'[n] = ledger[n]
        /\ ledger'[Len(ledger) + 1] = c
    BY <1>1, <1>3
  <2>2. \A d \in Calls \ {c} : SentBy(d)' = SentBy(d)
    BY <2>1 DEF SentBy
  <2>3. SentBy(c)' = SentBy(c) \cup {Len(ledger) + 1}
    BY <2>1 DEF SentBy
  <2>4. ledger' # ledger
    BY <2>1
  <2> QED BY <2>1, <2>2, <2>3, <2>4 DEF SentBy
<1> QED BY <1>1, <1>2, <1>3

\* The step of a call keeps what is known of the others, and its own past.
LEMMA OthersStay ==
  ASSUME Inv, NEW c \in Calls, StepOf(c)
  PROVE  /\ DOMAIN pc' = Calls
         /\ DOMAIN job \subseteq DOMAIN job' /\ DOMAIN job' \subseteq DOMAIN job \cup {c}
         /\ DOMAIN reply \subseteq DOMAIN reply' /\ DOMAIN reply' \subseteq DOMAIN reply \cup {c}
         /\ \A d \in Calls \ {c} : pc'[d] = pc[d]
         /\ \A d \in DOMAIN job : job'[d] = job[d]
         /\ \A d \in DOMAIN reply : reply'[d] = reply[d]
         /\ \A d \in Calls \ {c} : CallInv(d)'
<1>1. DOMAIN pc' = Calls /\ \A d \in Calls \ {c} : pc'[d] = pc[d]
  BY DEF Inv, StepOf
<1>2. /\ DOMAIN job \subseteq DOMAIN job' /\ DOMAIN job' \subseteq DOMAIN job \cup {c}
      /\ \A d \in DOMAIN job : job'[d] = job[d]
  <2>1. CASE job' = job
    BY <2>1
  <2>2. CASE c \notin DOMAIN job /\ \E j : job' = Put(job, c, j)
    BY <2>2, PutStays
  <2> QED BY <2>1, <2>2 DEF StepOf
<1>3. /\ DOMAIN reply \subseteq DOMAIN reply' /\ DOMAIN reply' \subseteq DOMAIN reply \cup {c}
      /\ \A d \in DOMAIN reply : reply'[d] = reply[d]
  <2>1. CASE reply' = reply
    BY <2>1
  <2>2. CASE c \notin DOMAIN reply /\ \E r : reply' = Put(reply, c, r)
    BY <2>2, PutStays
  <2> QED BY <2>1, <2>2 DEF StepOf
<1>4. \A d \in DOMAIN signature \ {c} : d \in DOMAIN signature' /\ signature'[d] = signature[d]
  BY PutStays DEF StepOf
<1>5. \A d \in Calls \ {c} : SentBy(d)' = SentBy(d)
  BY LedgerFacts
<1>6. ASSUME NEW d \in Calls \ {c} PROVE CallInv(d)'
  <2>1. CallInv(d) /\ pc'[d] = pc[d] /\ SentBy(d)' = SentBy(d)
    BY <1>1, <1>5 DEF Inv
  <2>2. (d \in DOMAIN job' <=> d \in DOMAIN job) /\ (d \in DOMAIN reply' <=> d \in DOMAIN reply)
    BY <1>2, <1>3
  <2>3. /\ d \in DOMAIN job => job'[d] = job[d]
        /\ d \in DOMAIN reply => reply'[d] = reply[d]
        /\ d \in DOMAIN signature => d \in DOMAIN signature' /\ signature'[d] = signature[d]
    BY <1>2, <1>3, <1>4
  <2> QED BY <2>1, <2>2, <2>3 DEF CallInv, Waiting, NothingSent
<1> QED BY <1>1, <1>2, <1>3, <1>6

\* What a step of call c may do to the entries and the keys: store an entry of its own
\* once it has sent, replace its raw entry before it is done, keep its key when it
\* returns in arcium mode.
LEMMA StorageStep ==
  ASSUME Inv, NEW c \in Calls, StepOf(c), pc[c] \notin {"done", "gone"}, unsaved \subseteq unsaved',
         \/ stored' = stored
         \/ /\ c \in DOMAIN job /\ job[c].kind = "register" /\ SentBy(c)' # {}
            /\ \/ stored' = Put(stored, job[c].wallet, RawEntry(c)) /\ pc'[c] = "arcium_stored"
               \/ stored' = Put(stored, job[c].wallet, StoredContactData(c)),
         \/ enc_key' = enc_key
         \/ /\ enc_key' = Put(enc_key, job[c].wallet, c)
            /\ c \in DOMAIN job /\ job[c].kind = "register"
            /\ c \in DOMAIN reply' /\ reply'[c].mode = "arcium",
         pc[c] = "arcium_stored" =>
           \/ pc'[c] = "gone" \/ c \in unsaved'
           \/ stored' = Put(stored, job[c].wallet, StoredContactData(c))
  PROVE  /\ \A w \in DOMAIN stored' : stored'[w].by \in DOMAIN job'
         /\ StoredWasSigned' /\ RawEntryIsTransient' /\ KeyIsOfArciumRegistration'
<1>1. /\ \A d \in DOMAIN job : d \in DOMAIN job' /\ job'[d] = job[d]
      /\ \A d \in DOMAIN reply : d \in DOMAIN reply' /\ reply'[d] = reply[d]
      /\ \A d \in Calls \ {c} : pc'[d] = pc[d]
  BY OthersStay
<1>2. \A d \in Calls : SentBy(d) \subseteq SentBy(d)'
  BY LedgerFacts DEF StepOf
<1>3. DOMAIN job \subseteq Calls /\ DOMAIN reply \subseteq Calls
  BY DEF Inv
<1>4. \A d \in DOMAIN job : /\ RawEntry(d)' = RawEntry(d) /\ RawEntry(d).by = d
                            /\ StoredContactData(d)' = StoredContactData(d)
                            /\ StoredContactData(d).by = d /\ StoredContactData(d).commitment
  BY <1>1 DEF RawEntry, StoredContactData
<1>5. ASSUME NEW w \in DOMAIN stored'
      PROVE  \/ w \in DOMAIN stored /\ stored'[w] = stored[w]
             \/ /\ w = job[c].wallet /\ c \in DOMAIN job /\ job[c].kind = "register"
                /\ SentBy(c)' # {}
                /\ \/ stored'[w] = RawEntry(c) /\ pc'[c] = "arcium_stored"
                   \/ stored'[w] = StoredContactData(c)
  <2>1. CASE stored' = stored
    BY <2>1
  <2>2. CASE stored' = Put(stored, job[c].wallet, RawEntry(c)) /\ stored' # stored
    <3>1. /\ c \in DOMAIN job /\ job[c].kind = "register" /\ SentBy(c)' # {}
          /\ pc'[c] = "arcium_stored" \/ stored' = Put(stored, job[c].wallet, StoredContactData(c))
      BY <2>2
    <3>2. CASE w = job[c].wallet
      BY <3>1, <3>2, <2>2 DEF Put
    <3>3. CASE w # job[c].wallet
      BY <3>3, <2>2 DEF Put
    <3> QED BY <3>2, <3>3
  <2>3. CASE stored' = Put(stored, job[c].wallet, StoredContactData(c)) /\ stored' # stored
    <3>1. c \in DOMAIN job /\ job[c].kind = "register" /\ SentBy(c)' # {}
      BY <2>3
    <3>2. CASE w = job[c].wallet
      BY <3>1, <3>2, <2>3 DEF Put
    <3>3. CASE w # job[c].wallet
      BY <3>3, <2>3 DEF Put
    <3> QED BY <3>2, <3>3
  <2> QED BY <2>1, <2>2, <2>3
<1>6. ASSUME NEW w \in DOMAIN stored
      PROVE  LET d == stored[w].by
             IN  /\ d \in DOMAIN job /\ d \in Calls /\ job[d].kind = "register" /\ job[d].wallet = w
                 /\ stored[w] \in {RawEntry(d), StoredContactData(d)}
                 /\ SentBy(d) # {}
                 /\ ~ stored[w].commitment => pc[d] \in {"arcium_stored", "gone"} \/ d \in unsaved
  BY <1>3 DEF Inv, StoredWasSigned, RawEntryIsTransient
<1>7. ASSUME NEW w \in DOMAIN stored'
      PROVE  stored'[w].by \in DOMAIN job'
  BY <1>1, <1>4, <1>5, <1>6
<1>8. StoredWasSigned'
  <2> SUFFICES ASSUME NEW w \in DOMAIN stored', NEW d, d = stored'[w].by
               PROVE  EntrySigned(w, d)'
    BY DEF StoredWasSigned, EntrySigned, RawEntry, StoredContactData, SentBy
  <2>1. CASE w \in DOMAIN stored /\ stored'[w] = stored[w]
    BY <2>1, <1>1, <1>2, <1>4, <1>6 DEF EntrySigned
  <2>2. CASE /\ w = job[c].wallet /\ c \in DOMAIN job /\ job[c].kind = "register" /\ SentBy(c)' # {}
             /\ stored'[w] \in {RawEntry(c), StoredContactData(c)}
    BY <2>2, <1>1, <1>4 DEF EntrySigned
  <2> QED BY <2>1, <2>2, <1>5
<1>9. RawEntryIsTransient'
  <2> SUFFICES ASSUME NEW w \in DOMAIN stored', ~ stored'[w].commitment
               PROVE  LET d == stored'[w].by
                      IN  pc'[d] \in {"arcium_stored", "gone"} \/ d \in unsaved'
    BY DEF RawEntryIsTransient
  <2>1. CASE w \in DOMAIN stored /\ stored'[w] = stored[w] /\ stored[w].by # c
    BY <2>1, <1>1, <1>6
  <2>2. CASE w \in DOMAIN stored /\ stored'[w] = stored[w] /\ stored[w].by = c
    <3>1. /\ w = job[c].wallet /\ c \in DOMAIN job
          /\ c \in unsaved \/ pc[c] = "arcium_stored"
      BY <2>2, <1>6
    <3>2. stored' # Put(stored, job[c].wallet, StoredContactData(c))
      <4>1. ASSUME stored' = Put(stored, job[c].wallet, StoredContactData(c))
            PROVE  stored'[w] = StoredContactData(c)
        BY <4>1, <3>1 DEF Put
      <4> QED BY <4>1, <3>1, <1>4
    <3>3. pc'[c] = "gone" \/ c \in unsaved'
      BY <3>1, <3>2
    <3> QED BY <2>2, <3>3
  <2>3. CASE c \in DOMAIN job /\ stored'[w] = RawEntry(c) /\ pc'[c] = "arcium_stored"
    BY <2>3, <1>4
  <2> QED BY <2>1, <2>2, <2>3, <1>4, <1>5
<1>10. KeyIsOfArciumRegistration'
  <2> SUFFICES ASSUME NEW w \in DOMAIN enc_key'
               PROVE  LET d == enc_key'[w]
                      IN  /\ d \in DOMAIN reply' /\ reply'[d].mode = "arcium"
                          /\ job'[d].kind = "register" /\ job'[d].wallet = w
    BY DEF KeyIsOfArciumRegistration
  <2>1. CASE w \in DOMAIN enc_key /\ enc_key'[w] = enc_key[w]
    <3> DEFINE d == enc_key[w]
    <3>1. /\ d \in DOMAIN reply /\ reply[d].mode = "arcium"
          /\ job[d].kind = "register" /\ job[d].wallet = w
      BY <2>1 DEF Inv, KeyIsOfArciumRegistration
    <3>2. d \in DOMAIN job
      BY <3>1, <1>3 DEF Inv, CallInv
    <3> QED BY <2>1, <3>1, <3>2, <1>1
  <2>2. CASE /\ w = job[c].wallet /\ enc_key'[w] = c /\ c \in DOMAIN job /\ job[c].kind = "register"
             /\ c \in DOMAIN reply' /\ reply'[c].mode = "arcium"
    BY <2>2, <1>1
  <2>3. CASE enc_key' = enc_key
    BY <2>1, <2>3
  <2>4. CASE /\ enc_key' = Put(enc_key, job[c].wallet, c)
             /\ c \in DOMAIN job /\ job[c].kind = "register"
             /\ c \in DOMAIN reply' /\ reply'[c].mode = "arcium"
    <3>1. CASE w = job[c].wallet
      <4>1. enc_key'[w] = c
        BY <2>4, <3>1 DEF Put
      <4> QED BY <4>1, <2>2, <2>4, <3>1
    <3>2. CASE w # job[c].wallet
      <4>1. w \in DOMAIN enc_key /\ enc_key'[w] = enc_key[w]
        BY <2>4, <3>2 DEF Put
      <4> QED BY <4>1, <2>1
    <3> QED BY <3>1, <3>2
  <2> QED BY <2>3, <2>4
<1> QED BY <1>7, <1>8, <1>9, <1>10

\* A step of call c preserves the invariant if it keeps that of its call.
LEMMA OneCall ==
  ASSUME Inv, NEW c \in Calls, StepOf(c), CallInv(c)',
         \A w \in DOMAIN stored' : stored'[w].by \in DOMAIN job',
         StoredWasSigned', RawEntryIsTransient', KeyIsOfArciumRegistration'
  PROVE  Inv'
<1>1. /\ DOMAIN pc' = Calls
      /\ DOMAIN job' \subseteq DOMAIN job \cup {c} /\ DOMAIN reply' \subseteq DOMAIN reply \cup {c}
      /\ \A d \in Calls \ {c} : CallInv(d)'
  BY OthersStay
<1>2. ledger' \in Seq(Calls) /\ Calls' = Calls
  BY LedgerFacts DEF Calls
<1> QED BY <1>1, <1>2 DEF Inv

-----------------------------------------------------------------------------
\* The initial state satisfies the invariant.
LEMMA InitEstablishesInv == Init => Inv
<1> SUFFICES ASSUME Init PROVE Inv
  OBVIOUS
<1>1. /\ DOMAIN pc = Calls /\ DOMAIN job = {} /\ DOMAIN reply = {} /\ DOMAIN stored = {}
      /\ DOMAIN enc_key = {} /\ ledger = <<>>
      /\ \A c \in Calls : pc[c] = "idle" /\ SentBy(c) = {}
  BY DEF Init, SentBy
<1> QED
  BY <1>1 DEF Inv, CallInv, NothingSent, Waiting, StoredWasSigned, RawEntryIsTransient,
              KeyIsOfArciumRegistration

\* A call is made.
LEMMA CallIsMade ==
  ASSUME Inv, NEW c \in Calls, NextCall(c), NEW j, NEW l,
         l \in {"arcium_blockhash", "memo_blockhash", "setup_blockhash"},
         job' = Put(job, c, j), Goto(c, l),
         UNCHANGED <<signature, reply, ledger, stored, enc_key, unsaved>>
  PROVE  Inv'
<1>1. pc[c] = "idle" /\ c \notin DOMAIN job /\ c \notin DOMAIN reply /\ SentBy(c) = {}
  BY DEF NextCall, Inv, CallInv, NothingSent
<1>2. StepOf(c)
  BY <1>1 DEF StepOf, Goto
<1>3. pc'[c] = l /\ c \in DOMAIN job' /\ SentBy(c)' = {}
  BY <1>1 DEF Goto, Inv, Put, SentBy
<1>4. CallInv(c)'
  BY <1>1, <1>3 DEF CallInv, NothingSent, Waiting
<1> QED
  BY <1>1, <1>2, <1>4, OneCall, StorageStep

\* A call goes on without sending, storing or returning.
LEMMA CallMoves ==
  ASSUME Inv, NEW c \in Calls, NEW l, Goto(c, l),
         UNCHANGED <<job, signature, reply, ledger, stored, enc_key, unsaved>>,
         \/ pc[c] = "arcium_blockhash" /\ l \in {"arcium_send", "memo_blockhash"}
         \/ pc[c] = "memo_blockhash" /\ l \in {"memo_send", "failed"}
         \/ pc[c] = "setup_blockhash" /\ l \in {"setup_send", "failed"}
         \/ pc[c] = "memo_confirm" /\ l = "failed"
         \/ pc[c] \in Waiting /\ l = "gone"
  PROVE  Inv'
<1>1. CallInv(c) /\ SentBy(c)' = SentBy(c) /\ pc'[c] = l
  BY DEF Inv, SentBy, Goto
<1>2. StepOf(c)
  BY DEF StepOf, Goto
<1>3. \A n \in SentBy(c) : n \in Nat
  BY <1>2, LedgerFacts
<1>4. \E m, n \in Nat : SentBy(c) \subseteq {m, n}
  <2>1. CASE SentBy(c) = {}
    BY <2>1
  <2>2. CASE pc[c] \in {"arcium_stored", "arcium_delay", "memo_blockhash", "memo_send"}
    <3>1. \E m : SentBy(c) \subseteq {m}
      BY <2>2, <1>1 DEF CallInv
    <3> QED BY <3>1, <1>3
  <2>3. CASE pc[c] = "memo_confirm"
    <3>1. PICK m \in Nat : SentBy(c) = {m, signature[c]}
      BY <2>3, <1>1 DEF CallInv
    <3> QED BY <3>1, <1>3
  <2> QED BY <2>1, <2>2, <2>3, <1>1 DEF CallInv, NothingSent, Waiting
<1>5. pc[c] = "memo_blockhash" => \E m \in Nat : SentBy(c) \subseteq {m}
  BY <1>1 DEF CallInv
<1>6. CallInv(c)'
  BY <1>1, <1>4, <1>5 DEF CallInv, NothingSent, Waiting
<1>7. pc[c] \notin {"done", "gone"} /\ (pc[c] = "arcium_stored" => pc'[c] = "gone")
  BY <1>1 DEF Waiting
<1> QED
  BY <1>2, <1>6, <1>7, OneCall, StorageStep

\* A transaction whose answer is lost is counted, and is the only one yet if it was
\* sent in arcium mode.
LEMMA SendThrowsStep ==
  ASSUME Inv, NEW c \in Calls, SendThrows(c)
  PROVE  Inv'
<1>1. /\ CallInv(c)
      /\ UNCHANGED <<job, signature, reply, stored, enc_key, unsaved>>
      /\ ledger' \in {ledger, Append(ledger, c)}
      /\ \/ pc[c] = "arcium_send" /\ Goto(c, "memo_blockhash")
         \/ pc[c] \in {"memo_send", "setup_send"} /\ Goto(c, "failed")
  BY DEF SendThrows, Inv
<1>2. StepOf(c)
  BY <1>1 DEF StepOf, Goto
<1>3. \/ pc[c] = "arcium_send" /\ pc'[c] = "memo_blockhash"
      \/ pc[c] \in {"memo_send", "setup_send"} /\ pc'[c] = "failed"
  BY <1>1 DEF Goto, Inv
<1>4. PICK k \in Nat : SentBy(c)' \subseteq SentBy(c) \cup {k}
  <2>1. Len(ledger) + 1 \in Nat
    BY <1>2, LedgerFacts
  <2>2. SentBy(c)' \subseteq SentBy(c) \cup {Len(ledger) + 1}
    BY <1>1, <1>2, LedgerFacts
  <2> QED BY <2>1, <2>2
<1>5. pc[c] = "arcium_send" => SentBy(c)' \subseteq {k}
  BY <1>1, <1>4 DEF CallInv, NothingSent
<1>6. pc[c] \in {"memo_send", "setup_send"} => \E m, n \in Nat : SentBy(c)' \subseteq {m, n}
  BY <1>1, <1>4 DEF CallInv, NothingSent
<1>7. CallInv(c)'
  BY <1>1, <1>3, <1>5, <1>6 DEF CallInv, NothingSent, Waiting
<1> QED
  BY <1>1, <1>2, <1>3, <1>7, OneCall, StorageStep

\* What sending does: the new transaction is the last one and the one the call holds.
LEMMA SentFacts ==
  ASSUME Inv, NEW c \in Calls, Sent(c), StepOf(c)
  PROVE  /\ c \in DOMAIN signature' /\ signature'[c] \in Nat
         /\ SentBy(c)' = SentBy(c) \cup {signature'[c]}
         /\ \A n \in SentBy(c) : n \in Nat /\ n <= signature'[c]
<1>1. ledger' = Append(ledger, c) /\ signature' = Put(signature, c, Len(ledger'))
  BY DEF Sent
<1>2. c \in DOMAIN signature' /\ signature'[c] = Len(ledger) + 1 /\ Len(ledger) \in Nat
  BY <1>1, LedgerFacts DEF Put
<1>3. SentBy(c)' = SentBy(c) \cup {Len(ledger) + 1}
  BY <1>1, LedgerFacts
<1>4. \A n \in SentBy(c) : n \in 1 .. Len(ledger)
  BY LedgerFacts
<1> QED BY <1>2, <1>3, <1>4

\* registerContactsArcium after the await, with and without its entry.
LEMMA ArciumRegistrationSentStep ==
  ASSUME Inv, NEW c \in Calls, ArciumRegistrationSent(c)
  PROVE  Inv'
<1>1. /\ CallInv(c) /\ pc[c] = "arcium_send" /\ job[c].kind = "register" /\ c \in DOMAIN job
      /\ SentBy(c) = {}
      /\ Sent(c) /\ UNCHANGED <<job, reply, enc_key, unsaved>>
      /\ \/ stored' = Put(stored, job[c].wallet, RawEntry(c)) /\ Goto(c, "arcium_stored")
         \/ UNCHANGED stored /\ Goto(c, "memo_blockhash")
  BY DEF ArciumRegistrationSent, Inv, CallInv, NothingSent
<1>2. StepOf(c)
  BY <1>1 DEF StepOf, Goto, Sent
<1>3. \/ stored' = Put(stored, job[c].wallet, RawEntry(c)) /\ pc'[c] = "arcium_stored"
      \/ stored' = stored /\ pc'[c] = "memo_blockhash"
  BY <1>1 DEF Goto, Inv
<1>4. c \in DOMAIN signature' /\ signature'[c] \in Nat /\ SentBy(c)' = {signature'[c]}
  BY <1>1, <1>2, SentFacts
<1>5. CallInv(c)'
  BY <1>1, <1>3, <1>4 DEF CallInv, NothingSent, Waiting
<1>6. SentBy(c)' # {}
  BY <1>4
<1> QED
  BY <1>1, <1>2, <1>3, <1>5, <1>6, OneCall, StorageStep

\* The memo of a discovery in arcium mode is sent.
LEMMA ArciumDiscoverySentStep ==
  ASSUME Inv, NEW c \in Calls, ArciumDiscoverySent(c)
  PROVE  Inv'
<1>1. /\ CallInv(c) /\ pc[c] = "arcium_send" /\ SentBy(c) = {} /\ c \in DOMAIN job
      /\ job[c].kind = "discover"
      /\ Sent(c) /\ Goto(c, "arcium_delay") /\ UNCHANGED <<job, reply, stored, enc_key, unsaved>>
  BY DEF ArciumDiscoverySent, Inv, CallInv, NothingSent
<1>2. StepOf(c)
  BY <1>1 DEF StepOf, Goto, Sent
<1>3. pc'[c] = "arcium_delay"
  BY <1>1 DEF Goto, Inv
<1>4. c \in DOMAIN signature' /\ signature'[c] \in Nat /\ SentBy(c)' = {signature'[c]}
  BY <1>1, <1>2, SentFacts
<1>5. CallInv(c)'
  BY <1>1, <1>3, <1>4 DEF CallInv, NothingSent, Waiting
<1> QED
  BY <1>1, <1>2, <1>3, <1>5, OneCall, StorageStep

\* The memo of the demo mode is sent.
LEMMA MemoSentStep ==
  ASSUME Inv, NEW c \in Calls, MemoSent(c)
  PROVE  Inv'
<1>1. /\ CallInv(c) /\ pc[c] = "memo_send" /\ c \in DOMAIN job
      /\ Sent(c) /\ Goto(c, "memo_confirm") /\ UNCHANGED <<job, reply, stored, enc_key, unsaved>>
  BY DEF MemoSent, Inv, CallInv
<1>2. StepOf(c)
  BY <1>1 DEF StepOf, Goto, Sent
<1>3. pc'[c] = "memo_confirm"
  BY <1>1 DEF Goto, Inv
<1>4. /\ c \in DOMAIN signature' /\ signature'[c] \in Nat
      /\ SentBy(c)' = SentBy(c) \cup {signature'[c]}
      /\ \A n \in SentBy(c) : n \in Nat /\ n <= signature'[c]
  BY <1>1, <1>2, SentFacts
<1>5. \E m \in Nat : SentBy(c)' = {m, signature'[c]} /\ m <= signature'[c]
  <2>1. PICK m \in Nat : SentBy(c) \subseteq {m}
    BY <1>1 DEF CallInv
  <2>2. CASE SentBy(c) = {}
    BY <2>2, <1>4
  <2>3. CASE SentBy(c) = {m}
    BY <2>3, <1>4
  <2> QED BY <2>1, <2>2, <2>3
<1>6. CallInv(c)'
  BY <1>1, <1>3, <1>4, <1>5 DEF CallInv, NothingSent, Waiting
<1> QED
  BY <1>1, <1>2, <1>3, <1>6, OneCall, StorageStep

\* The transaction of a setup is sent.
LEMMA SetupSentStep ==
  ASSUME Inv, NEW c \in Calls, SetupSent(c)
  PROVE  Inv'
<1>1. /\ CallInv(c) /\ pc[c] = "setup_send" /\ SentBy(c) = {} /\ c \in DOMAIN job /\ c \notin DOMAIN reply
      /\ Sent(c) /\ Goto(c, "done") /\ UNCHANGED <<job, stored, enc_key, unsaved>>
      /\ reply' = Put(reply, c, [signature |-> signature'[c], mode |-> "arcium", matches |-> <<>>])
  BY DEF SetupSent, Return, Inv, CallInv, NothingSent
<1>2. StepOf(c)
  BY <1>1 DEF StepOf, Goto, Sent
<1>3. /\ pc'[c] = "done" /\ c \in DOMAIN reply'
      /\ reply'[c].signature = signature'[c]
  BY <1>1 DEF Goto, Inv, Put
<1>4. signature'[c] \in Nat /\ SentBy(c)' = {signature'[c]}
  BY <1>1, <1>2, SentFacts
<1>5. CallInv(c)'
  BY <1>1, <1>3, <1>4 DEF CallInv, NothingSent, Waiting
<1> QED
  BY <1>1, <1>2, <1>3, <1>5, OneCall, StorageStep

\* A call returns what it holds.
LEMMA ReturnFacts ==
  ASSUME Inv, NEW c \in Calls, NEW mode \in {"arcium", "demo"}, NEW matches,
         Return(c, mode, matches), UNCHANGED <<job, signature, ledger>>,
         \/ pc[c] \in {"arcium_stored", "arcium_delay"} /\ mode = "arcium"
         \/ pc[c] = "memo_confirm" /\ mode = "demo"
  PROVE  /\ StepOf(c) /\ CallInv(c)' /\ SentBy(c)' # {} /\ c \in DOMAIN job
         /\ c \in DOMAIN reply' /\ reply'[c].mode = mode
<1>1. CallInv(c) /\ c \in DOMAIN job /\ c \notin DOMAIN reply /\ SentBy(c)' = SentBy(c)
  BY DEF Inv, CallInv, SentBy
<1>2. reply' = Put(reply, c, [signature |-> signature[c], mode |-> mode, matches |-> matches])
      /\ Goto(c, "done")
  BY DEF Return
<1>3. StepOf(c)
  BY <1>1, <1>2 DEF StepOf, Goto
<1>4. /\ pc'[c] = "done" /\ c \in DOMAIN reply'
      /\ reply'[c].signature = signature[c] /\ reply'[c].mode = mode
  BY <1>2 DEF Goto, Inv, Put
<1>5. \E m \in Nat : /\ SentBy(c) = {m, signature[c]} /\ m <= signature[c]
                     /\ mode = "arcium" => m = signature[c]
  <2>1. CASE pc[c] \in {"arcium_stored", "arcium_delay"} /\ mode = "arcium"
    <3>1. SentBy(c) = {signature[c]}
      BY <2>1, <1>1 DEF CallInv
    <3>2. \A n \in SentBy(c) : n \in Nat
      BY <1>3, LedgerFacts
    <3> QED BY <3>1, <3>2
  <2>2. CASE pc[c] = "memo_confirm" /\ mode = "demo"
    BY <2>2, <1>1 DEF CallInv
  <2> QED BY <2>1, <2>2
<1>6. CallInv(c)'
  BY <1>1, <1>4, <1>5 DEF CallInv, NothingSent, Waiting
<1> QED BY <1>1, <1>3, <1>4, <1>5, <1>6

\* The steps with which a call returns.
LEMMA ReturnSteps ==
  ASSUME Inv, NEW c \in Calls,
         \/ ArciumRegistrationDone(c) \/ ArciumDiscoveryDone(c)
         \/ MemoRegistrationConfirmed(c) \/ MemoDiscoveryConfirmed(c)
  PROVE  Inv'
<1>1. CASE ArciumRegistrationDone(c)
  <2>1. /\ pc[c] = "arcium_stored" /\ job[c].kind = "register"
        /\ enc_key' \in {enc_key, Put(enc_key, job[c].wallet, c)}
        /\ saveContactsToStorage(c) /\ UNCHANGED <<job, signature, ledger>>
        /\ Return(c, "arcium", <<>>)
    BY <1>1 DEF ArciumRegistrationDone, Inv, CallInv
  <2>2. /\ StepOf(c) /\ CallInv(c)' /\ SentBy(c)' # {} /\ c \in DOMAIN job
        /\ c \in DOMAIN reply' /\ reply'[c].mode = "arcium"
    BY <2>1, ReturnFacts
  <2>3. /\ unsaved \subseteq unsaved'
        /\ \/ stored' = stored /\ c \in unsaved'
           \/ stored' = Put(stored, job[c].wallet, StoredContactData(c))
    BY <2>1 DEF saveContactsToStorage
  <2> QED BY <2>1, <2>2, <2>3, OneCall, StorageStep
<1>2. CASE ArciumDiscoveryDone(c)
  <2>1. /\ pc[c] = "arcium_delay"
        /\ UNCHANGED <<job, signature, ledger, stored, enc_key, unsaved>>
        /\ Return(c, "arcium", ArciumMatches(c))
    BY <1>2 DEF ArciumDiscoveryDone
  <2>2. StepOf(c) /\ CallInv(c)'
    BY <2>1, ReturnFacts
  <2> QED BY <2>1, <2>2, OneCall, StorageStep
<1>3. CASE MemoRegistrationConfirmed(c)
  <2>1. /\ pc[c] = "memo_confirm" /\ job[c].kind = "register"
        /\ saveContactsToStorage(c) /\ UNCHANGED <<job, signature, ledger, enc_key>>
        /\ Return(c, "demo", <<>>)
    BY <1>3 DEF MemoRegistrationConfirmed
  <2>2. StepOf(c) /\ CallInv(c)' /\ SentBy(c)' # {} /\ c \in DOMAIN job
    BY <2>1, ReturnFacts
  <2>3. /\ unsaved \subseteq unsaved'
        /\ \/ stored' = stored
           \/ stored' = Put(stored, job[c].wallet, StoredContactData(c))
    BY <2>1 DEF saveContactsToStorage
  <2> QED BY <2>1, <2>2, <2>3, OneCall, StorageStep
<1>4. CASE MemoDiscoveryConfirmed(c)
  <2>1. /\ pc[c] = "memo_confirm"
        /\ UNCHANGED <<job, signature, ledger, stored, enc_key, unsaved>>
        /\ Return(c, "demo", performClientSidePsi(c))
    BY <1>4 DEF MemoDiscoveryConfirmed
  <2>2. StepOf(c) /\ CallInv(c)'
    BY <2>1, ReturnFacts
  <2> QED BY <2>1, <2>2, OneCall, StorageStep
<1> QED BY <1>1, <1>2, <1>3, <1>4

-----------------------------------------------------------------------------
\* Every step preserves the invariant.
LEMMA StepPreservesInv == Inv /\ [Next]_vars => Inv'
<1> SUFFICES ASSUME Inv, [Next]_vars PROVE Inv'
  OBVIOUS
<1>1. ASSUME NEW c \in Calls, NEW w \in Wallets, NEW l \in Lists, storeContactsOnChain(c, w, l)
      PROVE  Inv'
  BY <1>1, CallIsMade DEF storeContactsOnChain
<1>2. ASSUME NEW c \in Calls, NEW w \in Wallets, NEW t \in Targets, NEW l \in Lists,
             requestPsiDiscovery(c, w, t, l)
      PROVE  Inv'
  BY <1>2, CallIsMade DEF requestPsiDiscovery
<1>3. ASSUME NEW c \in Calls, NEW w \in Wallets, initializeComputationDefinition(c, w)
      PROVE  Inv'
  BY <1>3, CallIsMade DEF initializeComputationDefinition
<1>4. ASSUME NEW c \in Calls, GetLatestBlockhash(c) \/ MemoNotConfirmed(c) \/ Reload(c)
      PROVE  Inv'
  BY <1>4, CallMoves DEF GetLatestBlockhash, MemoNotConfirmed, Reload
<1>5. ASSUME NEW c \in Calls, Continue(c)
      PROVE  Inv'
  BY <1>4, <1>5, SendThrowsStep, ArciumRegistrationSentStep, ArciumDiscoverySentStep, MemoSentStep,
     SetupSentStep, ReturnSteps DEF Continue
<1>6. CASE UNCHANGED vars
  <2>1. /\ pc' = pc /\ job' = job /\ signature' = signature /\ reply' = reply /\ ledger' = ledger
        /\ stored' = stored /\ enc_key' = enc_key /\ unsaved' = unsaved
    BY <1>6 DEF vars
  <2>2. ASSUME NEW c \in Calls PROVE CallInv(c)'
    <3>1. CallInv(c) /\ SentBy(c)' = SentBy(c)
      BY <2>1 DEF Inv, SentBy
    <3> QED BY <2>1, <3>1 DEF CallInv
  <2>3. StoredWasSigned'
    BY <2>1 DEF Inv, StoredWasSigned, SentBy, RawEntry, StoredContactData
  <2>4. RawEntryIsTransient' /\ KeyIsOfArciumRegistration'
    BY <2>1 DEF Inv, RawEntryIsTransient, KeyIsOfArciumRegistration
  <2>5. Calls' = Calls
    BY DEF Calls
  <2> QED BY <2>1, <2>2, <2>3, <2>4, <2>5 DEF Inv
<1> QED
  BY <1>1, <1>2, <1>3, <1>4, <1>5, <1>6 DEF Next

\* The invariant holds in every behaviour of the client.
LEMMA InvHolds == Spec => []Inv
  BY InitEstablishesInv, StepPreservesInv, PTL DEF Spec

\* What a call has sent is at most two transactions, and one if it returned in arcium mode.
LEMMA InvImpliesReturnsAreSigned == Inv => ReturnsAreSigned
<1> SUFFICES ASSUME Inv PROVE ReturnsAreSigned
  OBVIOUS
<1>1. ASSUME NEW c \in DOMAIN reply
      PROVE  /\ reply[c].signature \in SentBy(c)
             /\ \A n \in SentBy(c) : n <= reply[c].signature
             /\ reply[c].mode = "arcium" => Cardinality(SentBy(c)) = 1
  <2>1. PICK m \in Nat : /\ SentBy(c) = {m, reply[c].signature} /\ m <= reply[c].signature
                         /\ reply[c].mode = "arcium" => m = reply[c].signature
    BY DEF Inv, CallInv
  <2>2. reply[c].signature \in Nat
    <3>1. \A n \in SentBy(c) : n \in DOMAIN ledger
      BY DEF SentBy
    <3> QED BY <2>1, <3>1 DEF Inv
  <2>3. reply[c].mode = "arcium" => Cardinality(SentBy(c)) = 1
    BY <2>1, FS_Singleton
  <2> QED BY <2>1, <2>2, <2>3
<1>2. ASSUME NEW c \in Calls
      PROVE  Cardinality(SentBy(c)) <= 2
  <2>1. \E m, n \in Nat : SentBy(c) \subseteq {m, n}
    <3>1. \A n \in SentBy(c) : n \in Nat
      <4>1. \A n \in SentBy(c) : n \in DOMAIN ledger
        BY DEF SentBy
      <4> QED BY <4>1 DEF Inv
    <3>2. CallInv(c)
      BY DEF Inv
    <3>3. CASE SentBy(c) = {}
      BY <3>3
    <3>4. CASE \E m, n : SentBy(c) \subseteq {m, n}
      BY <3>1, <3>4
    <3>5. pc[c] \notin NothingSent => \E m, n : SentBy(c) \subseteq {m, n}
      <4>1. CASE pc[c] \in {"arcium_stored", "arcium_delay"}
        BY <4>1, <3>2 DEF CallInv
      <4>2. CASE pc[c] \in {"memo_blockhash", "memo_send"}
        BY <4>2, <3>2 DEF CallInv
      <4>3. CASE pc[c] = "memo_confirm"
        BY <4>3, <3>2 DEF CallInv
      <4>4. CASE pc[c] = "done"
        BY <4>4, <3>2 DEF CallInv
      <4>5. CASE pc[c] \in {"failed", "gone"}
        BY <4>5, <3>2 DEF CallInv
      <4> QED BY <3>2, <4>1, <4>2, <4>3, <4>4, <4>5 DEF CallInv, NothingSent, Waiting
    <3> QED BY <3>2, <3>3, <3>4, <3>5 DEF CallInv
  <2>2. PICK m, n \in Nat : SentBy(c) \subseteq {m, n}
    BY <2>1
  <2>3. IsFiniteSet({m}) /\ Cardinality({m}) = 1
    BY FS_Singleton
  <2>4. IsFiniteSet({m} \cup {n}) /\ Cardinality({m} \cup {n}) <= 2
    BY <2>3, FS_AddElement
  <2>5. {m} \cup {n} = {m, n}
    OBVIOUS
  <2> QED BY <2>2, <2>4, <2>5, FS_Subset, FS_CardinalityType
<1> QED BY <1>1, <1>2 DEF ReturnsAreSigned

\* A call that returns holds the signature of its last transaction, and none sends a third.
THEOREM ReturnsSigned == Spec => []ReturnsAreSigned
  BY InvHolds, InvImpliesReturnsAreSigned, PTL

\* What is stored for a wallet was registered and signed for by that wallet.
THEOREM StoredSigned == Spec => []StoredWasSigned
<1>1. Inv => StoredWasSigned
  BY DEF Inv
<1> QED BY <1>1, InvHolds, PTL

\* An entry in the raw format stays only if its call was lost or could not save.
THEOREM RawTransient == Spec => []RawEntryIsTransient
<1>1. Inv => RawEntryIsTransient
  BY DEF Inv
<1> QED BY <1>1, InvHolds, PTL

\* The key kept is that of a registration of the wallet that went through.
THEOREM KeyOfRegistration == Spec => []KeyIsOfArciumRegistration
<1>1. Inv => KeyIsOfArciumRegistration
  BY DEF Inv
<1> QED BY <1>1, InvHolds, PTL

-----------------------------------------------------------------------------
(* What a page sees of a call.  That a call ends is fairness and is left to the *)
(* model checker.                                                               *)

OutcomeOf(l) ==
  CASE l = "idle" -> "none"
    [] l \in Waiting -> "waiting"
    [] l = "done" -> "returned"
    [] l = "failed" -> "thrown"
    [] l = "gone" -> "lost"

outcomes == [c \in Calls |-> OutcomeOf(pc[c])]

modes == [c \in Calls |-> IF c \in DOMAIN reply THEN reply[c].mode ELSE "none"]

\* What a page sees of a call at each place.
LEMMA OutcomeFacts ==
  /\ OutcomeOf("idle") = "none"
  /\ \A l \in Waiting : OutcomeOf(l) = "waiting"
  /\ OutcomeOf("done") = "returned"
  /\ OutcomeOf("failed") = "thrown"
  /\ OutcomeOf("gone") = "lost"
BY DEF OutcomeOf, Waiting

\* Only the outcome of the call that goes on changes.
LEMMA OutcomeStep ==
  ASSUME Inv, NEW c \in Calls, NEW l, Goto(c, l)
  PROVE  /\ outcomes[c] = OutcomeOf(pc[c])
         /\ outcomes' = [outcomes EXCEPT ![c] = OutcomeOf(l)]
<1>1. DOMAIN pc = Calls /\ pc' = [pc EXCEPT ![c] = l]
  BY DEF Inv, Goto
<1>2. outcomes' = [d \in Calls |-> OutcomeOf(pc'[d])]
  BY DEF outcomes, Calls, OutcomeOf, Waiting
<1>3. /\ pc'[c] = l
      /\ \A d \in Calls \ {c} : pc'[d] = pc[d]
  BY <1>1
<1>4. outcomes = [d \in Calls |-> OutcomeOf(pc[d])]
  BY DEF outcomes
<1> HIDE DEF outcomes
<1>5. [outcomes EXCEPT ![c] = OutcomeOf(l)]
        = [d \in Calls |-> IF d = c THEN OutcomeOf(l) ELSE OutcomeOf(pc[d])]
  BY <1>4
<1>6. \A d \in Calls :
        OutcomeOf(pc'[d]) = IF d = c THEN OutcomeOf(l) ELSE OutcomeOf(pc[d])
  BY <1>3
<1> QED BY <1>2, <1>4, <1>5, <1>6

\* The mode of a call is set when it returns.
LEMMA ModeStep ==
  ASSUME Inv, NEW c \in Calls
  PROVE  /\ reply' = reply => modes' = modes
         /\ \A r : reply' = Put(reply, c, r) => modes' = [modes EXCEPT ![c] = r.mode]
<1>1. reply' = reply => modes' = modes
  BY DEF modes, Calls
<1>2. ASSUME NEW r, reply' = Put(reply, c, r)
      PROVE  modes' = [modes EXCEPT ![c] = r.mode]
  <2>1. /\ DOMAIN reply' = DOMAIN reply \cup {c}
        /\ reply'[c] = r
        /\ \A d \in DOMAIN reply \ {c} : reply'[d] = reply[d]
    <3>1. /\ DOMAIN Put(reply, c, r) = DOMAIN reply \cup {c}
          /\ Put(reply, c, r)[c] = r
          /\ \A d \in DOMAIN reply \ {c} : Put(reply, c, r)[d] = reply[d]
      BY DEF Put
    <3> QED BY <3>1, <1>2
  <2>2. modes' = [d \in Calls |-> IF d \in DOMAIN reply' THEN reply'[d].mode ELSE "none"]
    BY DEF modes, Calls
  <2> QED BY <2>1, <2>2 DEF modes
<1> QED BY <1>1, <1>2

\* A step of call c, by where it comes from and goes to, is a step of LibraryCalls
\* or none that a page sees.
LEMMA LibraryStep ==
  ASSUME Inv, NEW c \in Calls, NEW l, Goto(c, l),
         \/ pc[c] = "idle" /\ l \in Waiting /\ reply' = reply
         \/ pc[c] \in Waiting /\ l \in Waiting \cup {"failed", "gone"} /\ reply' = reply
         \/ /\ pc[c] \in Waiting /\ l = "done"
            /\ \E r : reply' = Put(reply, c, r) /\ r.mode \in {"arcium", "demo"}
  PROVE  [Library!CallNext]_(Library!callVars)
<1>1. outcomes[c] = OutcomeOf(pc[c]) /\ outcomes' = [outcomes EXCEPT ![c] = OutcomeOf(l)]
  BY OutcomeStep
<1>2. outcomes = [d \in Calls |-> OutcomeOf(pc[d])]
  BY DEF outcomes
<1>3. CASE pc[c] = "idle" /\ l \in Waiting /\ reply' = reply
  <2>1. /\ outcomes[c] = "none" /\ outcomes' = [outcomes EXCEPT ![c] = "waiting"]
        /\ modes' = modes
    BY <1>1, <1>3, OutcomeFacts, ModeStep
  <2>2. Library!Make(c)
    BY <2>1 DEF Library!Make, outcomes, OutcomeOf, modes
  <2> QED BY <2>2 DEF Library!CallNext
<1>4. CASE pc[c] \in Waiting /\ l \in Waiting /\ reply' = reply
  <2>1. outcomes[c] = "waiting" /\ outcomes' = [outcomes EXCEPT ![c] = "waiting"]
    BY <1>1, <1>4, OutcomeFacts
  <2>2. outcomes' = outcomes /\ modes' = modes
    BY <2>1, <1>2, <1>4, ModeStep
  <2> QED BY <2>2 DEF Library!callVars, outcomes, OutcomeOf, modes
<1>5. CASE pc[c] \in Waiting /\ l = "failed" /\ reply' = reply
  <2>1. /\ outcomes[c] = "waiting" /\ outcomes' = [outcomes EXCEPT ![c] = "thrown"]
        /\ modes' = modes
    BY <1>1, <1>5, OutcomeFacts, ModeStep
  <2>2. Library!Throws(c)
    BY <2>1 DEF Library!Throws, outcomes, OutcomeOf, modes
  <2> QED BY <2>2 DEF Library!CallNext
<1>6. CASE pc[c] \in Waiting /\ l = "gone" /\ reply' = reply
  <2>1. /\ outcomes[c] = "waiting" /\ outcomes' = [outcomes EXCEPT ![c] = "lost"]
        /\ modes' = modes
    BY <1>1, <1>6, OutcomeFacts, ModeStep
  <2>2. Library!IsLost(c)
    BY <2>1 DEF Library!IsLost, outcomes, OutcomeOf, modes
  <2> QED BY <2>2 DEF Library!CallNext
<1>7. ASSUME pc[c] \in Waiting, l = "done", NEW r, reply' = Put(reply, c, r),
             r.mode \in {"arcium", "demo"}
      PROVE  Library!CallNext
  <2>1. /\ outcomes[c] = "waiting" /\ outcomes' = [outcomes EXCEPT ![c] = "returned"]
        /\ modes' = [modes EXCEPT ![c] = r.mode]
    BY <1>1, <1>7, OutcomeFacts, ModeStep
  <2>2. \E m \in {"arcium", "demo"} : modes' = [modes EXCEPT ![c] = m]
    BY <2>1, <1>7
  <2>3. Library!Returns(c)
    BY <2>1, <2>2 DEF Library!Returns, outcomes, OutcomeOf, modes
  <2> QED BY <2>3 DEF Library!CallNext
<1> QED BY <1>3, <1>4, <1>5, <1>6, <1>7

\* A step of the client is a step of one call, as LibraryStep asks for it.
LEMMA StepsAreOfCalls ==
  ASSUME Inv, Next
  PROVE  \E c \in Calls : \E l :
           /\ Goto(c, l)
           /\ \/ pc[c] = "idle" /\ l \in Waiting /\ reply' = reply
              \/ pc[c] \in Waiting /\ l \in Waiting \cup {"failed", "gone"} /\ reply' = reply
              \/ /\ pc[c] \in Waiting /\ l = "done"
                 /\ \E r : reply' = Put(reply, c, r) /\ r.mode \in {"arcium", "demo"}
<1> DEFINE Seen(c, l) ==
      /\ Goto(c, l)
      /\ \/ pc[c] = "idle" /\ l \in Waiting /\ reply' = reply
         \/ pc[c] \in Waiting /\ l \in Waiting \cup {"failed", "gone"} /\ reply' = reply
         \/ /\ pc[c] \in Waiting /\ l = "done"
            /\ \E r : reply' = Put(reply, c, r) /\ r.mode \in {"arcium", "demo"}
<1>1. ASSUME NEW c \in Calls, NEW w \in Wallets, NEW l \in Lists, storeContactsOnChain(c, w, l)
      PROVE  Seen(c, "arcium_blockhash")
  BY <1>1 DEF storeContactsOnChain, NextCall, Waiting
<1>2. ASSUME NEW c \in Calls, NEW w \in Wallets, NEW t \in Targets, NEW l \in Lists,
             requestPsiDiscovery(c, w, t, l)
      PROVE  Seen(c, "arcium_blockhash") \/ Seen(c, "memo_blockhash")
  BY <1>2 DEF requestPsiDiscovery, NextCall, Waiting
<1>3. ASSUME NEW c \in Calls, NEW w \in Wallets, initializeComputationDefinition(c, w)
      PROVE  Seen(c, "setup_blockhash")
  BY <1>3 DEF initializeComputationDefinition, NextCall, Waiting
<1>4. ASSUME NEW c \in Calls, GetLatestBlockhash(c)
      PROVE  \E l \in Waiting \cup {"failed"} : Seen(c, l)
  BY <1>4 DEF GetLatestBlockhash, Waiting
<1>5. ASSUME NEW c \in Calls, SendThrows(c)
      PROVE  Seen(c, "memo_blockhash") \/ Seen(c, "failed")
  BY <1>5 DEF SendThrows, Waiting
<1>6. ASSUME NEW c \in Calls, ArciumRegistrationSent(c)
      PROVE  Seen(c, "arcium_stored") \/ Seen(c, "memo_blockhash")
  BY <1>6 DEF ArciumRegistrationSent, Waiting
<1>7. ASSUME NEW c \in Calls, ArciumDiscoverySent(c)
      PROVE  Seen(c, "arcium_delay")
  BY <1>7 DEF ArciumDiscoverySent, Waiting
<1>8. ASSUME NEW c \in Calls, MemoSent(c)
      PROVE  Seen(c, "memo_confirm")
  BY <1>8 DEF MemoSent, Waiting
<1>9. ASSUME NEW c \in Calls, pc[c] \in Waiting, NEW mode \in {"arcium", "demo"}, NEW matches,
             Return(c, mode, matches)
      PROVE  Seen(c, "done")
  BY <1>9 DEF Return
<1>10. ASSUME NEW c \in Calls, MemoNotConfirmed(c)
       PROVE  Seen(c, "failed")
  BY <1>10 DEF MemoNotConfirmed, Waiting
<1>11. ASSUME NEW c \in Calls, Reload(c)
       PROVE  Seen(c, "gone")
  BY <1>11 DEF Reload
<1>12. ASSUME NEW c \in Calls,
              \/ ArciumRegistrationDone(c) \/ ArciumDiscoveryDone(c) \/ SetupSent(c)
              \/ MemoRegistrationConfirmed(c) \/ MemoDiscoveryConfirmed(c)
       PROVE  Seen(c, "done")
  <2>1. CASE ArciumRegistrationDone(c)
    BY <2>1, <1>9 DEF ArciumRegistrationDone, Waiting
  <2>2. CASE ArciumDiscoveryDone(c)
    BY <2>2, <1>9 DEF ArciumDiscoveryDone, Waiting
  <2>3. CASE SetupSent(c)
    BY <2>3, <1>9 DEF SetupSent, Waiting
  <2>4. CASE MemoRegistrationConfirmed(c)
    BY <2>4, <1>9 DEF MemoRegistrationConfirmed, Waiting
  <2>5. CASE MemoDiscoveryConfirmed(c)
    BY <2>5, <1>9 DEF MemoDiscoveryConfirmed, Waiting
  <2> QED BY <1>12, <2>1, <2>2, <2>3, <2>4, <2>5
<1>13. \E c \in Calls : \E l : Seen(c, l)
  <2> HIDE DEF Seen
  <2>1. ASSUME NEW c \in Calls, Continue(c)
        PROVE  \E l : Seen(c, l)
    BY <2>1, <1>4, <1>5, <1>6, <1>7, <1>8, <1>10, <1>12 DEF Continue
  <2> QED BY <2>1, <1>1, <1>2, <1>3, <1>11 DEF Next
<1> QED BY <1>13

\* The safety half of ImplementsLibrary: a call is made once and, if it ends, ends in
\* one way, whatever fails and whatever the other calls do.
THEOREM LibraryImplemented == Spec => Library!CallInit /\ [][Library!CallNext]_(Library!callVars)
<1>1. Init => Library!CallInit
  <2> SUFFICES ASSUME Init PROVE Library!CallInit
    OBVIOUS
  <2>1. /\ \A c \in Calls : pc[c] = "idle"
        /\ \A c \in Calls : c \notin DOMAIN reply
    BY DEF Init
  <2>2. outcomes = [c \in Calls |-> "none"]
    BY <2>1, OutcomeFacts DEF outcomes
  <2>3. modes = [c \in Calls |-> "none"]
    BY <2>1 DEF modes
  <2> QED BY <2>2, <2>3 DEF Library!CallInit, outcomes, OutcomeOf, modes
<1>2. Inv /\ [Next]_vars => [Library!CallNext]_(Library!callVars)
  <2>1. ASSUME Inv, Next PROVE [Library!CallNext]_(Library!callVars)
    BY <2>1, StepsAreOfCalls, LibraryStep
  <2>2. ASSUME Inv, UNCHANGED vars PROVE [Library!CallNext]_(Library!callVars)
    BY <2>2 DEF vars, Library!callVars, Calls
  <2> QED BY <2>1, <2>2
<1> QED BY <1>1, <1>2, InvHolds, PTL DEF Spec
-----------------------------------------------------------------------------
(* What is reported. *)

\* What MatchesAreMutual says of one contact that call c reports.
Mutual(c, x) ==
  /\ x \in Range(job[c].contacts)
  /\ \E d \in DOMAIN job :
       /\ job[d].kind = "register" /\ job[d].wallet = job[c].target
       /\ \E y \in Range(job[d].contacts) : Normal[x] = Normal[y]

\* The arguments of the calls made.
JobsTyped == \A c \in DOMAIN job : job[c] \in Job

\* Some set of positions has a first one.
LEMMA MinIsIn ==
  ASSUME NEW S \in SUBSET Nat, S # {}
  PROVE  Min(S) \in S
<1>1. \E x \in S : \A y \in S : x <= y
  <2>1. PICK x \in S : \A y \in S : ~ (y < x)
    BY Least
  <2> QED BY <2>1
<1> QED BY <1>1 DEF Min

\* The list of a job is one of the lists.
LEMMA ListOfJob ==
  ASSUME JobsTyped, NEW c \in DOMAIN job, job[c].kind \in {"register", "discover"}
  PROVE  /\ job[c].contacts \in Seq(Contacts) /\ job[c].contacts \in Lists
         /\ Range(job[c].contacts) \subseteq Contacts
         /\ job[c].wallet \in Wallets
<1>1. job[c].contacts \in Lists /\ job[c].wallet \in Wallets
  BY DEF JobsTyped, Job
<1>2. job[c].contacts \in Seq(Contacts)
  BY <1>1, ClientAssumption
<1> QED BY <1>1, <1>2 DEF Range

\* A contact one of whose two hashes is stored for the target is one the target has
\* registered, up to case: the entry is that of a registration of the target.
LEMMA HashIsRegistered ==
  ASSUME Inv, JobsTyped, NEW c \in DOMAIN job, NEW x \in Contacts,
         sha3_256(x) \in TargetHashes(c) \/ hashContact(x) \in TargetHashes(c)
  PROVE  \E d \in DOMAIN job :
           /\ job[d].kind = "register" /\ job[d].wallet = job[c].target
           /\ \E y \in Range(job[d].contacts) : Normal[x] = Normal[y]
<1> DEFINE t == job[c].target
           d == stored[t].by
<1>1. t \in DOMAIN stored /\ d \in DOMAIN job
  BY DEF TargetHashes, Inv
<1>2. /\ job[d].kind = "register" /\ job[d].wallet = t
      /\ stored[t] \in {RawEntry(d), StoredContactData(d)}
  BY <1>1 DEF Inv, StoredWasSigned
<1>3. Range(job[d].contacts) \subseteq Contacts
  BY <1>1, <1>2, ListOfJob
<1>4. \E y \in Range(job[d].contacts) : x \in {y, Normal[y]} \/ Normal[x] \in {y, Normal[y]}
  BY <1>1, <1>2 DEF TargetHashes, RawEntry, StoredContactData, hashContact, sha3_256
<1>5. \E y \in Range(job[d].contacts) : Normal[x] = Normal[y]
  BY <1>3, <1>4, ClientAssumption
<1> QED BY <1>1, <1>2, <1>5

\* In arcium mode.
LEMMA ArciumMatchesMutual ==
  ASSUME Inv, JobsTyped, NEW c \in DOMAIN job, job[c].kind = "discover"
  PROVE  /\ Range(ArciumMatches(c)) \subseteq Contacts \cup {NoMutual}
         /\ \A x \in Range(ArciumMatches(c)) \ {NoMutual} : Mutual(c, x)
<1> DEFINE S    == {x \in Contacts : sha3_256(x) \in TargetHashes(c)}
           mine == job[c].contacts
           hits == Kept(mine, S)
<1>1. mine \in Seq(Contacts)
  BY ListOfJob
<1> HIDE DEF S, mine
<1>2. /\ hits \in Seq(Contacts \cap S)
      /\ \A j \in DOMAIN hits : \E i \in DOMAIN mine : mine[i] = hits[j]
  BY <1>1, KeptFacts
<1> HIDE DEF hits
<1>3. \A x \in Range(hits) : x \in S /\ x \in Contacts /\ x \in Range(mine)
  BY <1>2 DEF Range
<1>4. Range(ArciumMatches(c)) \subseteq Range(hits) \cup {NoMutual}
  <2>1. ArciumMatches(c) = IF hits = <<>> THEN <<NoMutual>> ELSE hits
    BY DEF ArciumMatches, S, hits, mine
  <2>2. Range(<<NoMutual>>) = {NoMutual}
    BY DEF Range
  <2> QED BY <2>1, <2>2
<1>5. ASSUME NEW x \in Range(hits) PROVE Mutual(c, x)
  <2>1. x \in Contacts /\ sha3_256(x) \in TargetHashes(c) /\ x \in Range(mine)
    BY <1>3 DEF S
  <2> QED BY <2>1, HashIsRegistered DEF Mutual, mine
<1> QED BY <1>3, <1>4, <1>5

\* In demo mode: the first contact with the hash of a hit has the same normal form.
LEMMA DemoMatchesMutual ==
  ASSUME Inv, JobsTyped, NEW c \in DOMAIN job, job[c].kind = "discover"
  PROVE  /\ Range(performClientSidePsi(c)) \subseteq Contacts
         /\ \A x \in Range(performClientSidePsi(c)) : Mutual(c, x)
<1> DEFINE S    == {x \in Contacts : hashContact(x) \in TargetHashes(c)}
           mine == job[c].contacts
           same(x) == {m \in DOMAIN mine : hashContact(mine[m]) = hashContact(x)}
<1>1. mine \in Seq(Contacts)
  BY ListOfJob
<1>2. /\ Hits(c) \in Seq(Contacts \cap S)
      /\ \A j \in DOMAIN Hits(c) : \E i \in DOMAIN mine : mine[i] = Hits(c)[j]
  <2> HIDE DEF S, mine
  <2>1. /\ Kept(mine, S) \in Seq(Contacts \cap S)
        /\ \A j \in DOMAIN Kept(mine, S) : \E i \in DOMAIN mine : mine[i] = Kept(mine, S)[j]
    BY <1>1, KeptFacts
  <2>2. Hits(c) = Kept(mine, S)
    BY DEF Hits, S, mine
  <2> QED BY <2>1, <2>2
<1>3. ASSUME NEW n \in DOMAIN Hits(c)
      PROVE  /\ mine[Min(same(Hits(c)[n]))] \in Contacts
             /\ Mutual(c, mine[Min(same(Hits(c)[n]))])
  <2> DEFINE hit   == Hits(c)[n]
             first == Min(same(hit))
             x     == mine[first]
  <2>1. hit \in Contacts /\ hashContact(hit) \in TargetHashes(c)
    BY <1>2
  <2>2. same(hit) # {} /\ same(hit) \in SUBSET Nat
    BY <1>1, <1>2
  <2>3. first \in same(hit)
    BY <2>2, MinIsIn
  <2> HIDE DEF first
  <2>4. x \in Contacts /\ x \in Range(mine) /\ hashContact(x) = hashContact(hit)
    BY <1>1, <2>3 DEF Range
  <2>5. hashContact(x) \in TargetHashes(c)
    BY <2>1, <2>4
  <2> QED BY <2>4, <2>5, HashIsRegistered DEF Mutual, first
<1>4. performClientSidePsi(c) = [n \in DOMAIN Hits(c) |-> mine[Min(same(Hits(c)[n]))]]
  BY DEF performClientSidePsi
<1>5. ASSUME NEW x \in Range(performClientSidePsi(c))
      PROVE  \E n \in DOMAIN Hits(c) : x = mine[Min(same(Hits(c)[n]))]
  <2> HIDE DEF same, mine
  <2> QED BY <1>4 DEF Range
<1> QED BY <1>3, <1>5
-----------------------------------------------------------------------------
(* The types.  What a call reports is part of the argument: the matches are those *)
(* of the entry that is stored when they are computed.                            *)

\* What a call may report.
Reportable(c, matches) ==
  /\ Range(matches) \subseteq Contacts \cup {NoMutual}
  /\ \A x \in Range(matches) \ {NoMutual} : Mutual(c, x)

Entries == [hashes : SUBSET Hashes, commitment : BOOLEAN, by : Calls]

SignaturesTyped ==
  /\ DOMAIN reply \subseteq DOMAIN signature /\ DOMAIN signature \subseteq DOMAIN job
  /\ \A c \in DOMAIN signature : signature[c] \in 1 .. Len(ledger)

RepliesTyped ==
  \A c \in DOMAIN reply : /\ reply[c].signature \in 1 .. Len(ledger)
                          /\ reply[c].mode \in {"arcium", "demo"}
                          /\ Reportable(c, reply[c].matches)

StorageTyped ==
  /\ DOMAIN stored \subseteq Wallets /\ \A w \in DOMAIN stored : stored[w] \in Entries
  /\ DOMAIN enc_key \subseteq Wallets /\ \A w \in DOMAIN enc_key : enc_key[w] \in Calls
  /\ unsaved \subseteq Calls

Typed ==
  /\ pc \in [Calls -> Waiting \cup {"idle", "done", "failed", "gone"}]
  /\ JobsTyped /\ SignaturesTyped /\ RepliesTyped /\ StorageTyped

\* What a step of call c does to the values of the variables.
Effect(c) ==
  /\ StepOf(c)
  /\ job' = job \/ \E j \in Job : job' = Put(job, c, j)
  /\ signature' = signature \/ (c \in DOMAIN job /\ Sent(c))
  /\ \/ reply' = reply
     \/ /\ c \in DOMAIN job /\ c \in DOMAIN signature'
        /\ \E mode \in {"arcium", "demo"} : \E matches :
             Return(c, mode, matches) /\ Reportable(c, matches)
  /\ \/ stored' = stored
     \/ \E w \in Wallets, e \in Entries : stored' = Put(stored, w, e)
  /\ \/ enc_key' = enc_key
     \/ \E w \in Wallets : enc_key' = Put(enc_key, w, c)
  /\ unsaved' \subseteq unsaved \cup {c}

\* The entries of a registration are hashes of its contacts.
LEMMA EntriesAre ==
  ASSUME Inv, JobsTyped, NEW c \in DOMAIN job, job[c].kind = "register"
  PROVE  /\ job[c].wallet \in Wallets
         /\ RawEntry(c) \in Entries /\ StoredContactData(c) \in Entries
<1>1. c \in Calls /\ job[c].wallet \in Wallets /\ Range(job[c].contacts) \subseteq Contacts
  BY ListOfJob DEF Inv
<1> QED BY <1>1 DEF RawEntry, StoredContactData, Entries, Hashes

\* What either mode computes may be reported.
LEMMA ReportableFacts ==
  ASSUME Inv, JobsTyped, NEW c \in DOMAIN job
  PROVE  /\ Reportable(c, <<>>)
         /\ job[c].kind = "discover" => /\ Reportable(c, ArciumMatches(c))
                                        /\ Reportable(c, performClientSidePsi(c))
<1>1. Range(<<>>) = {}
  BY DEF Range
<1> QED BY <1>1, ArciumMatchesMutual, DemoMatchesMutual DEF Reportable

\* A step of the client is the effect of one call.
LEMMA StepsHaveEffects ==
  ASSUME Inv, JobsTyped, Next
  PROVE  \E c \in Calls : Effect(c)
<1>1. ASSUME NEW c \in Calls, NextCall(c), NEW j \in Job, job' = Put(job, c, j),
             NEW l, Goto(c, l), UNCHANGED <<signature, reply, ledger, stored, enc_key, unsaved>>
      PROVE  Effect(c)
  <2>1. c \notin DOMAIN job
    BY <1>1 DEF NextCall, Inv, CallInv
  <2>2. StepOf(c)
    BY <1>1, <2>1 DEF StepOf, Goto
  <2> QED BY <1>1, <2>2 DEF Effect
<1>2. ASSUME NEW c \in Calls, NEW l, Goto(c, l), ledger' \in {ledger, Append(ledger, c)},
             UNCHANGED <<job, signature, reply, stored, enc_key, unsaved>>
      PROVE  Effect(c)
  <2>1. StepOf(c)
    BY <1>2 DEF StepOf, Goto
  <2> QED BY <1>2, <2>1 DEF Effect
<1>3. ASSUME NEW c \in Calls, NEW w \in Wallets, NEW l \in Lists, storeContactsOnChain(c, w, l)
      PROVE  Effect(c)
  <2>1. [kind |-> "register", wallet |-> w, contacts |-> l] \in Job
    BY DEF Job
  <2> QED BY <1>1, <1>3, <2>1 DEF storeContactsOnChain
<1>4. ASSUME NEW c \in Calls, NEW w \in Wallets, NEW t \in Targets, NEW l \in Lists,
             requestPsiDiscovery(c, w, t, l)
      PROVE  Effect(c)
  <2>1. [kind |-> "discover", wallet |-> w, target |-> t, contacts |-> l] \in Job
    BY DEF Job
  <2> QED BY <1>1, <1>4, <2>1 DEF requestPsiDiscovery
<1>5. ASSUME NEW c \in Calls, NEW w \in Wallets, initializeComputationDefinition(c, w)
      PROVE  Effect(c)
  <2>1. [kind |-> "setup", wallet |-> w] \in Job
    BY DEF Job
  <2> QED BY <1>1, <1>5, <2>1 DEF initializeComputationDefinition
<1>6. ASSUME NEW c \in Calls,
             GetLatestBlockhash(c) \/ SendThrows(c) \/ MemoNotConfirmed(c) \/ Reload(c)
      PROVE  Effect(c)
  BY <1>2, <1>6 DEF GetLatestBlockhash, SendThrows, MemoNotConfirmed, Reload
<1>7. ASSUME NEW c \in Calls,
             ArciumRegistrationSent(c) \/ ArciumDiscoverySent(c) \/ MemoSent(c)
      PROVE  Effect(c)
  <2>1. c \in DOMAIN job /\ Sent(c) /\ UNCHANGED <<job, reply, enc_key, unsaved>>
        /\ \E l : Goto(c, l)
    BY <1>7 DEF ArciumRegistrationSent, ArciumDiscoverySent, MemoSent, Inv, CallInv
  <2>2. \/ stored' = stored
        \/ \E w \in Wallets, e \in Entries : stored' = Put(stored, w, e)
    <3>1. \/ stored' = stored
          \/ job[c].kind = "register" /\ stored' = Put(stored, job[c].wallet, RawEntry(c))
      BY <1>7 DEF ArciumRegistrationSent, ArciumDiscoverySent, MemoSent
    <3> QED BY <2>1, <3>1, EntriesAre
  <2> QED BY <2>1, <2>2 DEF Effect, StepOf, Goto, Sent
<1>8. ASSUME NEW c \in Calls, SetupSent(c)
      PROVE  Effect(c)
  <2>1. c \in DOMAIN job /\ c \notin DOMAIN reply /\ Sent(c) /\ Return(c, "arcium", <<>>)
        /\ UNCHANGED <<job, stored, enc_key, unsaved>>
    BY <1>8 DEF SetupSent, Inv, CallInv
  <2>2. c \in DOMAIN signature'
    BY <2>1 DEF Sent, Put
  <2> QED BY <2>1, <2>2, ReportableFacts DEF Effect, StepOf, Goto, Sent, Return
<1>9. ASSUME NEW c \in Calls, NEW mode \in {"arcium", "demo"}, NEW matches,
             Return(c, mode, matches), Reportable(c, matches),
             UNCHANGED <<job, signature, ledger>>,
             pc[c] \in {"arcium_stored", "arcium_delay", "memo_confirm"},
             \/ UNCHANGED <<stored, unsaved>>
             \/ job[c].kind = "register" /\ saveContactsToStorage(c),
             \/ enc_key' = enc_key
             \/ job[c].kind = "register" /\ enc_key' = Put(enc_key, job[c].wallet, c)
      PROVE  Effect(c)
  <2>1. c \in DOMAIN job /\ c \notin DOMAIN reply /\ c \in DOMAIN signature
    BY <1>9 DEF Inv, CallInv
  <2>2. StepOf(c)
    BY <1>9, <2>1 DEF StepOf, Goto, Return
  <2>3. \/ stored' = stored
        \/ \E w \in Wallets, e \in Entries : stored' = Put(stored, w, e)
    BY <1>9, <2>1, EntriesAre DEF saveContactsToStorage
  <2>4. \/ enc_key' = enc_key
        \/ \E w \in Wallets : enc_key' = Put(enc_key, w, c)
    BY <1>9, <2>1, EntriesAre
  <2>5. unsaved' \subseteq unsaved \cup {c}
    BY <1>9 DEF saveContactsToStorage
  <2>6. job' = job /\ signature' = signature /\ c \in DOMAIN job /\ c \in DOMAIN signature'
    BY <1>9, <2>1
  <2> QED BY <1>9, <2>2, <2>3, <2>4, <2>5, <2>6 DEF Effect
<1>10. ASSUME NEW c \in Calls,
              \/ ArciumRegistrationDone(c) \/ ArciumDiscoveryDone(c)
              \/ MemoRegistrationConfirmed(c) \/ MemoDiscoveryConfirmed(c)
       PROVE  Effect(c)
  <2>1. /\ c \in DOMAIN job
        /\ pc[c] = "arcium_stored" => job[c].kind = "register"
        /\ pc[c] = "arcium_delay" => job[c].kind = "discover"
    BY <1>10 DEF ArciumRegistrationDone, ArciumDiscoveryDone, MemoRegistrationConfirmed,
                 MemoDiscoveryConfirmed, Inv, CallInv
  <2>2. CASE ArciumRegistrationDone(c)
    BY <2>1, <2>2, <1>9, ReportableFacts DEF ArciumRegistrationDone
  <2>3. CASE ArciumDiscoveryDone(c)
    BY <2>1, <2>3, <1>9, ReportableFacts DEF ArciumDiscoveryDone
  <2>4. CASE MemoRegistrationConfirmed(c)
    BY <2>1, <2>4, <1>9, ReportableFacts DEF MemoRegistrationConfirmed
  <2>5. CASE MemoDiscoveryConfirmed(c)
    BY <2>1, <2>5, <1>9, ReportableFacts DEF MemoDiscoveryConfirmed
  <2> QED BY <1>10, <2>2, <2>3, <2>4, <2>5
<1> QED
  BY <1>3, <1>4, <1>5, <1>6, <1>7, <1>8, <1>10 DEF Next, Continue

\* A partial function keeps its types.
LEMMA PutTyped ==
  ASSUME NEW D, NEW V, NEW f, DOMAIN f \subseteq D, \A z \in DOMAIN f : f[z] \in V,
         NEW x \in D, NEW y \in V
  PROVE  /\ DOMAIN Put(f, x, y) \subseteq D
         /\ \A z \in DOMAIN Put(f, x, y) : Put(f, x, y)[z] \in V
BY DEF Put

\* The effect of a call keeps the types and what was reported.
LEMMA EffectKeepsTypes ==
  ASSUME Inv, Inv', Typed, NEW c \in Calls, Effect(c)
  PROVE  Typed'
<1>1. /\ \A d \in DOMAIN job : d \in DOMAIN job' /\ job'[d] = job[d]
      /\ \A d \in DOMAIN reply : d \in DOMAIN reply' /\ reply'[d] = reply[d]
      /\ DOMAIN reply' \subseteq DOMAIN reply \cup {c}
  BY OthersStay DEF Effect
<1>2. Len(ledger) \in Nat /\ Len(ledger') \in Nat /\ Len(ledger) <= Len(ledger')
  <2>1. ledger' = ledger \/ Len(ledger') = Len(ledger) + 1
    BY LedgerFacts DEF Effect, StepOf
  <2> QED BY <2>1, LedgerFacts DEF Effect
<1>3. JobsTyped'
  <2>1. CASE job' = job
    BY <2>1 DEF Typed, JobsTyped, Job
  <2>2. ASSUME NEW j \in Job, job' = Put(job, c, j) PROVE JobsTyped'
    <3>1. DOMAIN job' = DOMAIN job \cup {c} /\ job'[c] = j
      BY <2>2 DEF Put
    <3>2. \A d \in DOMAIN job : job[d] \in Job
      BY DEF Typed, JobsTyped
    <3>3. \A d \in DOMAIN job' : job'[d] \in Job
      BY <1>1, <2>2, <3>1, <3>2
    <3> QED BY <3>3 DEF JobsTyped, Job
  <2> QED BY <2>1, <2>2 DEF Effect
<1>4. SignaturesTyped'
  <2>1. /\ DOMAIN signature \subseteq DOMAIN signature' /\ DOMAIN signature' \subseteq DOMAIN job'
        /\ \A d \in DOMAIN signature' : signature'[d] \in 1 .. Len(ledger')
    <3>1. CASE signature' = signature
      BY <3>1, <1>1, <1>2 DEF Typed, SignaturesTyped
    <3>2. CASE c \in DOMAIN job /\ Sent(c)
      <4>1. /\ DOMAIN signature' = DOMAIN signature \cup {c}
            /\ signature'[c] = Len(ledger')
            /\ \A d \in DOMAIN signature \ {c} : signature'[d] = signature[d]
        <5>1. signature' = Put(signature, c, Len(ledger'))
          BY <3>2 DEF Sent
        <5> QED BY <5>1 DEF Put
      <4>2. Len(ledger') = Len(ledger) + 1
        BY <3>2, LedgerFacts DEF Effect, Sent
      <4> QED BY <3>2, <4>1, <4>2, <1>1, <1>2 DEF Typed, SignaturesTyped
    <3> QED BY <3>1, <3>2 DEF Effect
  <2>2. DOMAIN reply' \subseteq DOMAIN signature'
    <3>1. reply' = reply \/ c \in DOMAIN signature'
      BY DEF Effect
    <3> QED BY <3>1, <2>1, <1>1 DEF Typed, SignaturesTyped
  <2> QED BY <2>1, <2>2 DEF SignaturesTyped
<1>5. ASSUME NEW d \in DOMAIN job, NEW matches, Reportable(d, matches)
      PROVE  Reportable(d, matches)'
  <2>1. ASSUME NEW x, Mutual(d, x) PROVE Mutual(d, x)'
    BY <2>1, <1>1 DEF Mutual
  <2> QED BY <1>5, <2>1 DEF Reportable
<1>6. RepliesTyped'
  <2>1. ASSUME NEW d \in DOMAIN reply
        PROVE  /\ reply'[d].signature \in 1 .. Len(ledger')
               /\ reply'[d].mode \in {"arcium", "demo"}
               /\ Reportable(d, reply[d].matches)'
    <3>1. d \in DOMAIN job /\ reply'[d] = reply[d]
      BY <1>1 DEF Inv, CallInv
    <3>2. PICK n : n = reply[d].matches /\ Reportable(d, n)
      BY DEF Typed, RepliesTyped
    <3>3. Reportable(d, n)' /\ reply'[d].matches = n
      BY <3>1, <3>2, <1>5
    <3>4. Reportable(d, reply[d].matches)'
      BY <3>3 DEF Reportable
    <3> QED BY <3>1, <3>4, <1>2 DEF Typed, RepliesTyped
  <2>2. ASSUME NEW mode \in {"arcium", "demo"}, NEW matches,
               c \in DOMAIN job, c \in DOMAIN signature',
               Return(c, mode, matches), Reportable(c, matches)
        PROVE  /\ reply'[c].signature \in 1 .. Len(ledger')
               /\ reply'[c].mode \in {"arcium", "demo"}
               /\ Reportable(c, reply[c].matches)'
    <3>1. reply'[c] = [signature |-> signature'[c], mode |-> mode, matches |-> matches]
      BY <2>2 DEF Return, Put
    <3>2. signature'[c] \in 1 .. Len(ledger') /\ c \in DOMAIN job'
      BY <2>2, <1>4 DEF SignaturesTyped
    <3>3. Reportable(c, matches)'
      BY <2>2, <1>5
    <3>4. Reportable(c, reply[c].matches)'
      BY <3>1, <3>3 DEF Reportable
    <3> QED BY <3>1, <3>2, <3>4
  <2> QED BY <2>1, <2>2, <1>1 DEF RepliesTyped, Effect
<1>7. StorageTyped'
  <2>1. Entries' = Entries /\ Calls' = Calls
    BY DEF Entries, Calls, Hashes, hashContact, sha3_256
  <2>2. DOMAIN stored' \subseteq Wallets /\ \A w \in DOMAIN stored' : stored'[w] \in Entries
    BY PutTyped DEF Effect, Typed, StorageTyped
  <2>3. DOMAIN enc_key' \subseteq Wallets /\ \A w \in DOMAIN enc_key' : enc_key'[w] \in Calls
    <3>1. ASSUME NEW w \in Wallets, enc_key' = Put(enc_key, w, c)
          PROVE  DOMAIN enc_key' \subseteq Wallets /\ \A v \in DOMAIN enc_key' : enc_key'[v] \in Calls
      BY <3>1, PutTyped DEF Typed, StorageTyped
    <3> QED BY <3>1 DEF Effect, Typed, StorageTyped
  <2> QED BY <2>1, <2>2, <2>3 DEF Effect, Typed, StorageTyped
<1>8. (pc \in [Calls -> Waiting \cup {"idle", "done", "failed", "gone"}])'
  <2>1. PICK l : pc' = [pc EXCEPT ![c] = l]
    BY DEF Effect, StepOf
  <2>2. pc'[c] \in Waiting \cup {"idle", "done", "failed", "gone"}
    BY DEF Inv, CallInv, Calls
  <2> QED BY <2>1, <2>2 DEF Typed, Calls, Waiting
<1> QED BY <1>3, <1>4, <1>6, <1>7, <1>8 DEF Typed

\* The types hold, with the invariant, in every behaviour of the client.
LEMMA TypedHolds == Spec => [](Inv /\ Typed)
<1>1. Init => Inv /\ Typed
  BY InitEstablishesInv DEF Init, Waiting, Typed, JobsTyped, SignaturesTyped, RepliesTyped, StorageTyped
<1>2. (Inv /\ Typed) /\ [Next]_vars => (Inv /\ Typed)'
  <2> SUFFICES ASSUME Inv, Typed, [Next]_vars PROVE Inv' /\ Typed'
    OBVIOUS
  <2>1. CASE Next
    BY <2>1, StepPreservesInv, StepsHaveEffects, EffectKeepsTypes DEF Typed
  <2>2. CASE UNCHANGED vars
    <3>1. Inv'
      BY <2>2, StepPreservesInv
    <3>2. UNCHANGED <<job, signature, reply, ledger, stored, enc_key, unsaved>>
      BY <2>2 DEF vars
    <3>3. JobsTyped' /\ SignaturesTyped'
      BY <3>2 DEF Typed, JobsTyped, SignaturesTyped, Job
    <3>4. RepliesTyped'
      <4>1. ASSUME NEW d, NEW x, Mutual(d, x) PROVE Mutual(d, x)'
        BY <4>1, <3>2 DEF Mutual
      <4> QED BY <3>2, <4>1 DEF Typed, RepliesTyped, Reportable
    <3>5. StorageTyped'
      BY <3>2 DEF Typed, StorageTyped, Entries, Calls, Hashes, hashContact, sha3_256
    <3> QED BY <3>1, <3>3, <3>4, <3>5, <2>2 DEF Typed, vars, Calls, Waiting
  <2> QED BY <2>1, <2>2
<1> QED BY <1>1, <1>2, PTL DEF Spec

\* Every variable of the client has its type: the calls that have ended are those that
\* have a result or none, and each result is signed for.
THEOREM ClientTypes == Spec => []TypeOK
<1>1. Inv /\ Typed => TypeOK
  <2> SUFFICES ASSUME Inv, Typed PROVE TypeOK
    OBVIOUS
  <2>1. /\ DOMAIN pc = Calls /\ DOMAIN job \subseteq Calls /\ DOMAIN reply \subseteq Calls
        /\ \A c \in Calls : /\ pc[c] \in Waiting \cup {"idle", "done", "failed", "gone"}
                            /\ c \in DOMAIN job <=> pc[c] # "idle"
                            /\ c \in DOMAIN reply <=> pc[c] = "done"
    BY DEF Inv, CallInv
  <2>2. DOMAIN job = {c \in Calls : pc[c] # "idle"} /\ DOMAIN reply = {c \in Calls : pc[c] = "done"}
    BY <2>1
  <2>3. Range(ledger) \subseteq Calls
    BY DEF Inv, Range
  <2> QED BY <2>2, <2>3 DEF TypeOK, Typed, JobsTyped, SignaturesTyped, RepliesTyped, StorageTyped,
                      Reportable, Entries
<1> QED BY <1>1, TypedHolds, PTL

\* Whatever ran while a discovery waited, it reports contacts of its user that are, up to
\* case, in a list that the target has registered.
THEOREM MatchesMutual == Spec => []MatchesAreMutual
<1>1. Typed => MatchesAreMutual
  BY DEF Typed, RepliesTyped, Reportable, Mutual, MatchesAreMutual
<1> QED BY <1>1, TypedHolds, PTL
=============================================================================
