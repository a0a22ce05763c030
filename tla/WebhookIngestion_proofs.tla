---------------------- MODULE WebhookIngestion_proofs ----------------------
(***************************************************************************)
(* Proofs about WebhookIngestion, for any replies, handlers and poll runs: *)
(* type correctness, the inductive invariant Inv, and the refinement of    *)
(* ReplyInbox (each reply with an id reaches the customer at most once).   *)
(***************************************************************************)
EXTENDS WebhookIngestion, TLAPS

USE IngestionAssumption

\* Key maps a reply to a key, and keys of different replies differ.
LEMMA KeyFacts ==
  ASSUME NEW r \in Replies, NEW x
  PROVE  /\ Key(r, Path(x)) \in Keys
         /\ Key(r, Path(x))[2] = r
         /\ r \notin Untagged => Key(r, Path(x)) = <<"id", r>>
BY DEF Key, Extracted, Keys, Path

-----------------------------------------------------------------------------
\* Whoever is inside handle_chat_message has a reply in hand.
Handling == {"raw", "check", "orphan", "txn"}

\* What a poll run has still to feed to the handler.
Fresh(x) == work[x].batch \ work[x].known

InHand == \A x \in Workers : work[x].step \in Handling => work[x].reply \in Replies

Typed == TypeOK /\ InHand

\* What the shared ends of a handler step do to work, for everyone.
LEMMA WorkFacts ==
  ASSUME Typed, NEW x \in Workers
  PROVE  /\ Idle \in Works /\ Idle.step \notin Handling
         /\ Return(x) => /\ work' \in [Workers -> Works]
                         /\ work'[x].step \notin Handling
                         /\ work'[x].batch \subseteq work[x].batch
                         /\ Fresh(x)' \subseteq Fresh(x)
                         /\ \A y \in Workers \ {x} : work'[y] = work[y]
         /\ Raise(x) => /\ work' \in [Workers -> Works]
                        /\ work'[x] = Idle
                        /\ \A y \in Workers \ {x} : work'[y] = work[y]
<1>1. Idle \in Works /\ Idle.step \notin Handling /\ Idle.batch = {}
  BY DEF Idle, Works, Steps, Handling
<1>2. work \in [Workers -> Works] /\ work[x] \in Works
  BY DEF Typed, TypeOK
<1>3. [work[x] EXCEPT !.step = "next", !.reply = NoReply] \in Works
  BY <1>2 DEF Works, Steps
<1>4. ASSUME Return(x)
      PROVE  /\ work' \in [Workers -> Works]
             /\ work'[x].step \notin Handling
             /\ work'[x].batch \subseteq work[x].batch
             /\ Fresh(x)' \subseteq Fresh(x)
             /\ \A y \in Workers \ {x} : work'[y] = work[y]
  <2>1. CASE x \in Pollers
    <3>1. work' = [work EXCEPT ![x] = [work[x] EXCEPT !.step = "next", !.reply = NoReply]]
      BY <1>4, <2>1 DEF Return
    <3> QED BY <3>1, <1>2, <1>3 DEF Handling, Works, Fresh
  <2>2. CASE x \notin Pollers
    <3>1. work' = [work EXCEPT ![x] = Idle]
      BY <1>4, <2>2 DEF Return
    <3> QED BY <3>1, <1>1, <1>2 DEF Fresh
  <2> QED BY <2>1, <2>2
<1>5. ASSUME Raise(x)
      PROVE  /\ work' \in [Workers -> Works]
             /\ work'[x] = Idle
             /\ \A y \in Workers \ {x} : work'[y] = work[y]
  BY <1>1, <1>2, <1>5 DEF Raise
<1> QED BY <1>1, <1>4, <1>5

\* Goto changes the step of one worker and nothing else of anyone.
LEMMA GotoFacts ==
  ASSUME Typed, NEW x \in Workers, NEW step \in Steps, Goto(x, step)
  PROVE  /\ work' \in [Workers -> Works]
         /\ work'[x].step = step
         /\ work'[x].reply = work[x].reply
         /\ work'[x].batch = work[x].batch
         /\ Fresh(x)' = Fresh(x)
         /\ \A y \in Workers \ {x} : work'[y] = work[y]
<1>1. work \in [Workers -> Works] /\ work[x] \in Works
  BY DEF Typed, TypeOK
<1>2. [work[x] EXCEPT !.step = step] \in Works
  BY <1>1 DEF Works
<1> QED BY <1>1, <1>2 DEF Goto, Works, Fresh

\* The steps of a poll run outside the handler, and what they leave alone.
\* What it is about to feed was found unstored just now or is left from before.
LEMMA PollFacts ==
  ASSUME Typed, NEW p \in Pollers, PollStep(p)
  PROVE  /\ work' \in [Workers -> Works]
         /\ UNCHANGED <<roam, database, deliveries, crashes>>
         /\ exposed \subseteq exposed' /\ exposed' \subseteq Echoes
         /\ \A y \in Workers \ {p} : work'[y] = work[y]
         /\ \/ work'[p].step \notin Handling
            \/ /\ work'[p].step = "raw" /\ work'[p].reply \in work[p].batch
               /\ work[p].step = "next" /\ work'[p].reply \in Fresh(p)
         /\ work'[p].step \in {"raw", "next"} =>
              \/ Fresh(p)' \cap Echoes \subseteq exposed'
              \/ work[p].step = "next" /\ Fresh(p)' \subseteq Fresh(p)
         /\ work'[p].batch \subseteq work[p].batch \cup written
<1>1. /\ work \in [Workers -> Works] /\ p \in Workers /\ work[p] \in Works
      /\ work[p].batch \subseteq Replies /\ Idle \in Works /\ exposed \subseteq Echoes
  BY WorkFacts DEF Typed, TypeOK, Workers, Works
<1>2. CASE PollStart(p) \/ PollGroup(p)
  <2>1. PICK step \in {"group", "fetch", "idle"} : Goto(p, step)
    BY <1>2 DEF PollStart, PollGroup
  <2>2. UNCHANGED <<roam, database, exposed, deliveries, crashes>>
    BY <1>2 DEF PollStart, PollGroup
  <2> QED BY <1>1, <2>1, <2>2, GotoFacts DEF Steps, Handling
<1>3. CASE PollFetch(p)
  <2>1. PICK page \in Pages :
          work' = [work EXCEPT ![p].step = IF page = {} THEN "idle" ELSE "known", ![p].batch = page]
    BY <1>3 DEF PollFetch
  <2>2. page \subseteq written /\ page \subseteq Replies
    BY DEF Pages, Thread, Typed, TypeOK
  <2>3. [work[p] EXCEPT !.step = IF page = {} THEN "idle" ELSE "known", !.batch = page] \in Works
    BY <1>1, <2>2 DEF Works, Steps
  <2> QED BY <1>1, <1>3, <2>1, <2>2, <2>3 DEF PollFetch, Works, Handling
<1>4. CASE PollFetchFails(p)
  BY <1>1, <1>4, WorkFacts DEF PollFetchFails, Idle, Handling
<1>5. CASE PollKnown(p)
  <2> DEFINE known == {r \in work[p].batch : messages[<<"ts", r>>] > 0 \/ r \in stamped}
  <2>1. /\ work' = [work EXCEPT ![p].step = "next", ![p].known = known]
        /\ exposed' = exposed \cup ((work[p].batch \cap Echoes) \ stamped)
        /\ UNCHANGED <<roam, database, deliveries, crashes>>
    BY <1>5 DEF PollKnown
  <2>2. known \in SUBSET Replies /\ (work[p].batch \cap stamped) \subseteq known
    BY <1>1
  <2> HIDE DEF known
  <2>3. [work[p] EXCEPT !.step = "next", !.known = known] \in Works
    BY <1>1, <2>2 DEF Works, Steps
  <2>4. /\ work'[p] = [work[p] EXCEPT !.step = "next", !.known = known]
        /\ \A y \in Workers \ {p} : work'[y] = work[y]
    BY <1>1, <2>1
  <2>5. work'[p].step = "next" /\ work'[p].batch = work[p].batch /\ work'[p].known = known
    BY <1>1, <2>4 DEF Works
  <2>6. work' \in [Workers -> Works]
    BY <1>1, <2>1, <2>3
  <2>7. Fresh(p)' \cap Echoes \subseteq exposed'
    BY <2>1, <2>2, <2>5 DEF Fresh
  <2> QED BY <1>1, <2>1, <2>4, <2>5, <2>6, <2>7 DEF Handling
<1>6. ASSUME NEW r \in Replies, PollSkip(p, r)
      PROVE  /\ work' \in [Workers -> Works]
             /\ UNCHANGED <<roam, database, exposed, deliveries, crashes>>
             /\ \A y \in Workers \ {p} : work'[y] = work[y]
             /\ work'[p].step \notin Handling
             /\ work[p].step = "next" /\ Fresh(p)' \subseteq Fresh(p)
             /\ work'[p].batch \subseteq work[p].batch \cup written
  <2>1. work' = [work EXCEPT ![p].batch = work[p].batch \ {r}] /\ work[p].step = "next"
    BY <1>1, <1>6 DEF PollSkip
  <2>2. [work[p] EXCEPT !.batch = work[p].batch \ {r}] \in Works
    BY <1>1 DEF Works
  <2> QED BY <1>1, <1>6, <2>1, <2>2 DEF PollSkip, Works, Handling, Fresh
<1>7. ASSUME NEW r \in Replies, PollFeed(p, r)
      PROVE  /\ work' \in [Workers -> Works]
             /\ UNCHANGED <<roam, database, exposed, deliveries, crashes>>
             /\ \A y \in Workers \ {p} : work'[y] = work[y]
             /\ work'[p].step = "raw" /\ work'[p].reply \in work[p].batch
             /\ work[p].step = "next" /\ Fresh(p)' \subseteq Fresh(p)
             /\ work'[p].reply \in Fresh(p)
             /\ work'[p].batch \subseteq work[p].batch \cup written
  <2>1. /\ work' = [work EXCEPT ![p].batch = work[p].batch \ {r}, ![p].step = "raw", ![p].reply = r]
        /\ r \in work[p].batch /\ r \notin work[p].known /\ work[p].step = "next"
    BY <1>1, <1>7 DEF PollFeed
  <2>2. [work[p] EXCEPT !.batch = work[p].batch \ {r}, !.step = "raw", !.reply = r] \in Works
    BY <1>1 DEF Works, Steps
  <2> QED BY <1>1, <1>7, <2>1, <2>2 DEF PollFeed, Works, Fresh
<1>8. CASE PollEnd(p)
  <2>1. work' = [work EXCEPT ![p] = Idle] /\ Idle.batch = {} /\ Idle.step = "idle"
    BY <1>8 DEF PollEnd, Idle
  <2> QED BY <1>1, <1>8, <2>1 DEF PollEnd, Handling
<1> QED BY <1>1, <1>2, <1>3, <1>4, <1>5, <1>6, <1>7, <1>8 DEF PollStep

\* A webhook call puts its reply into the hands of one idle handler.
LEMMA DeliverFacts ==
  ASSUME Typed, NEW h \in Handlers, NEW r \in Replies, Deliver(h, r)
  PROVE  /\ work' \in [Workers -> Works]
         /\ \A y \in Workers \ {h} : work'[y] = work[y]
         /\ work'[h].step = "raw" /\ work'[h].reply = r /\ r \in written
         /\ work'[h].batch = {} /\ Fresh(h)' = {}
         /\ exposed \subseteq exposed' /\ exposed' \subseteq Echoes
         /\ r \in Echoes => r \in exposed'
<1>1. work \in [Workers -> Works] /\ h \in Workers /\ work[h] = Idle /\ Idle \in Works
  BY WorkFacts DEF Typed, TypeOK, Workers, Deliver
<1>2. /\ exposed \subseteq exposed' /\ exposed' \subseteq Echoes
      /\ r \in Echoes => r \in exposed'
  BY DEF Deliver, Typed, TypeOK
<1>3. [work[h] EXCEPT !.step = "raw", !.reply = r] \in Works
  BY <1>1 DEF Works, Steps
<1> QED BY <1>1, <1>2, <1>3 DEF Deliver, Idle, Works, Fresh

-----------------------------------------------------------------------------
(***************************************************************************)
(* The inductive invariant.  What the transaction stores is decided by     *)
(* checks made several statements earlier, so the invariant says what a    *)
(* worker that has come this far knows of the reply in its hand: that it   *)
(* exists in Roam, that its raw payload is kept, before the transaction    *)
(* that it passed the checks, and of one of our echoes that it got here    *)
(* exposed.  None of these can be undone by another worker.  That the      *)
(* reply is not stored yet is not among them: there only the unique key    *)
(* helps.                                                                  *)
(***************************************************************************)
Storable == {r \in Replies \ (Foreign \cup Blank) : ~IsBotEcho(r)}

HandKnows ==
  \A x \in Workers :
    /\ work[x].batch \subseteq written
    /\ work[x].step \in Handling => work[x].reply \in written
    /\ work[x].step \in {"check", "orphan", "txn"} => work[x].reply \in raw \ Blank
    /\ work[x].step = "txn" => work[x].reply \in Storable
    /\ work[x].step \in Handling /\ work[x].reply \in Echoes => work[x].reply \in exposed
    /\ work[x].step \in Handling \cup {"next"} => Fresh(x) \cap Echoes \subseteq exposed

\* A reply with an id is stored under its id, whichever path brought it, and
\* nothing is stored that Roam does not have.
StoredUnderId ==
  \A k \in processed : /\ k[2] \in Storable \cap written \cap raw
                       /\ k[2] \in Echoes => k[2] \in exposed
                       /\ k[2] \notin Untagged => k[1] = "id"

Inv == Typed /\ HandKnows /\ StoredUnderId /\ MessageIffEvent /\ orphaned \subseteq raw

\* The inductive invariant holds before anything is written.
LEMMA InvInit == Init => Inv
<1> SUFFICES ASSUME Init PROVE Inv
  OBVIOUS
<1>1. Typed
  <2>1. \A x \in Workers : work[x].step = "idle"
    BY DEF Init, Idle
  <2> QED BY <2>1 DEF Init, Typed, TypeOK, InHand, Handling, Idle, Works, Steps
<1>2. HandKnows
  BY DEF Init, HandKnows, Idle, Handling
<1>3. StoredUnderId /\ MessageIffEvent /\ orphaned \subseteq raw
  BY DEF Init, StoredUnderId, MessageIffEvent
<1> QED BY <1>1, <1>2, <1>3 DEF Inv

\* A step that leaves the database alone and lets one worker go on keeps Inv,
\* if the worker's new state is one it may know about.
LEMMA WorkStep ==
  ASSUME Inv, NEW x \in Workers, UNCHANGED <<roam, database>>,
         deliveries' \in Nat, crashes' \in Nat,
         work' \in [Workers -> Works],
         \A y \in Workers \ {x} : work'[y] = work[y],
         work'[x].batch \subseteq written,
         work'[x].step \in Handling => work'[x].reply \in written,
         work'[x].step \in {"check", "orphan", "txn"} => work'[x].reply \in raw \ Blank,
         work'[x].step = "txn" => work'[x].reply \in Storable,
         exposed \subseteq exposed', exposed' \subseteq Echoes,
         work'[x].step \in Handling /\ work'[x].reply \in Echoes => work'[x].reply \in exposed',
         work'[x].step \in Handling \cup {"next"} => Fresh(x)' \cap Echoes \subseteq exposed'
  PROVE  Inv'
<1>1. Typed'
  <2>1. TypeOK'
    BY DEF Inv, Typed, TypeOK, roam, database
  <2>2. InHand'
    BY DEF Inv, Typed, TypeOK, InHand
  <2> QED BY <2>1, <2>2 DEF Typed
<1>2. HandKnows'
  BY DEF Inv, HandKnows, Fresh, roam, database
<1>3. StoredUnderId' /\ MessageIffEvent' /\ (orphaned \subseteq raw)'
  BY DEF Inv, StoredUnderId, MessageIffEvent, roam, database
<1> QED BY <1>1, <1>2, <1>3 DEF Inv

\* The environment only ever adds replies to Roam.
LEMMA RoamStep ==
  ASSUME Inv, UNCHANGED <<database, work, exposed, deliveries, crashes>>,
         written \subseteq written', written' \subseteq Replies, stamped' \subseteq Echoes,
         rooted' \in BOOLEAN, active' \in BOOLEAN, mapped' \in BOOLEAN,
         switches' \in Nat
  PROVE  Inv'
<1>1. Typed'
  BY DEF Inv, Typed, TypeOK, InHand, database
<1>2. HandKnows'
  BY DEF Inv, HandKnows, Fresh, database
<1>3. StoredUnderId' /\ MessageIffEvent' /\ (orphaned \subseteq raw)'
  BY DEF Inv, StoredUnderId, MessageIffEvent, database
<1> QED BY <1>1, <1>2, <1>3 DEF Inv

\* Keeping the raw payload establishes what the later steps rely on.
LEMMA PersistRawKeepsInv ==
  ASSUME Inv, NEW x \in Workers, PersistRaw(x)
  PROVE  Inv'
<1> DEFINE r == work[x].reply
<1>1. r \in written /\ r \in Replies /\ raw' = raw \cup {r} /\ Typed
  BY DEF PersistRaw, Inv, HandKnows, Typed, InHand, Handling
<1>2. /\ work' \in [Workers -> Works]
      /\ \A y \in Workers \ {x} : work'[y] = work[y]
      /\ work'[x].batch \subseteq work[x].batch /\ Fresh(x)' \subseteq Fresh(x)
      /\ \/ work'[x].step \notin Handling
         \/ work'[x].step = "check" /\ work'[x].reply = r /\ r \notin Blank
  <2> DEFINE fields == Extracted(r, Path(x))
  <2>1. fields.text <=> r \notin Blank
    BY DEF Extracted
  <2>2. CASE fields.text /\ fields.thread_key
    <3>1. Goto(x, "check") /\ r \notin Blank
      BY <2>1, <2>2 DEF PersistRaw
    <3> QED BY <1>1, <3>1, GotoFacts DEF Steps
  <2>3. CASE ~(fields.text /\ fields.thread_key)
    <3>1. Return(x)
      BY <2>3 DEF PersistRaw
    <3> QED BY <1>1, <3>1, WorkFacts
  <2> QED BY <2>2, <2>3
<1>3. Typed'
  <2>1. TypeOK'
    BY <1>1, <1>2 DEF PersistRaw, Typed, TypeOK, roam
  <2>2. InHand'
    BY <1>1, <1>2 DEF Typed, InHand
  <2> QED BY <2>1, <2>2 DEF Typed
<1>4. HandKnows'
  BY <1>1, <1>2 DEF PersistRaw, Inv, HandKnows, Fresh, Handling, roam
<1>5. StoredUnderId' /\ MessageIffEvent' /\ (orphaned \subseteq raw)'
  BY <1>1 DEF PersistRaw, Inv, StoredUnderId, MessageIffEvent, roam
<1> QED BY <1>3, <1>4, <1>5 DEF Inv

\* Only what is neither an echo nor foreign gets as far as the transaction.
LEMMA CheckKeepsInv ==
  ASSUME Inv, NEW x \in Workers, Check(x)
  PROVE  Inv'
<1> DEFINE r == work[x].reply
<1>1. r \in written \cap (raw \ Blank) /\ r \in Replies /\ Typed /\ work[x].batch \subseteq written
  BY DEF Check, Inv, HandKnows, Typed, InHand, Handling
<1>a. /\ UNCHANGED <<roam, database, exposed, deliveries, crashes>>
      /\ deliveries' \in Nat /\ crashes' \in Nat
      /\ exposed \subseteq exposed' /\ exposed' \subseteq Echoes
      /\ r \in Echoes => r \in exposed'
      /\ Fresh(x) \cap Echoes \subseteq exposed'
  BY DEF Check, Inv, HandKnows, Typed, TypeOK, Handling
<1>2. CASE Return(x)
  BY <1>1, <1>a, <1>2, WorkFacts, WorkStep DEF Handling
<1>3. CASE ~Return(x)
  <2>1. ~IsBotEcho(r) /\ Goto(x, IF r \in Foreign THEN "orphan" ELSE "txn")
    BY <1>3 DEF Check
  <2>2. CASE r \in Foreign
    BY <1>1, <1>a, <2>1, <2>2, GotoFacts, WorkStep DEF Steps, Handling
  <2>3. CASE r \notin Foreign
    BY <1>1, <1>a, <2>1, <2>3, GotoFacts, WorkStep DEF Steps, Handling, Storable
  <2> QED BY <2>2, <2>3
<1> QED BY <1>2, <1>3

\* An orphan is stored with its raw payload on record.
LEMMA StoreOrphanKeepsInv ==
  ASSUME Inv, NEW x \in Workers, StoreOrphan(x)
  PROVE  Inv'
<1> DEFINE r == work[x].reply
<1>1. r \in raw /\ r \in Replies /\ Typed /\ work[x].batch \subseteq written
  BY DEF StoreOrphan, Inv, HandKnows, Typed, InHand, Handling
<1>2. /\ work' \in [Workers -> Works]
      /\ \A y \in Workers \ {x} : work'[y] = work[y]
      /\ work'[x].batch \subseteq work[x].batch /\ Fresh(x)' \subseteq Fresh(x)
      /\ work'[x].step \notin Handling
  BY <1>1, WorkFacts DEF StoreOrphan
<1>3. Typed'
  <2>1. TypeOK'
    BY <1>1, <1>2 DEF StoreOrphan, Typed, TypeOK, roam
  <2>2. InHand'
    BY <1>1, <1>2 DEF Typed, InHand
  <2> QED BY <2>1, <2>2 DEF Typed
<1>4. HandKnows'
  BY <1>1, <1>2 DEF StoreOrphan, Inv, HandKnows, Fresh, Handling, roam
<1>5. StoredUnderId' /\ MessageIffEvent' /\ (orphaned \subseteq raw)'
  BY <1>1 DEF StoreOrphan, Inv, StoredUnderId, MessageIffEvent, roam
<1> QED BY <1>3, <1>4, <1>5 DEF Inv

\* The transaction stores a genuine reply, under a key that was free.
LEMMA StoreKeepsInv ==
  ASSUME Inv, NEW x \in Workers, Store(x)
  PROVE  Inv'
<1> DEFINE r == work[x].reply
           k == Key(r, Path(x))
<1>1. /\ r \in Storable \cap written \cap raw /\ r \in Replies /\ Typed
      /\ work[x].batch \subseteq written
      /\ (r \in Echoes => r \in exposed) /\ Fresh(x) \cap Echoes \subseteq exposed
  BY DEF Store, Inv, HandKnows, Typed, InHand, Handling
<1>2. /\ k \in Keys /\ k[2] = r /\ (r \notin Untagged => k[1] = "id")
  BY <1>1, KeyFacts
<1>3. /\ work' \in [Workers -> Works]
      /\ \A y \in Workers \ {x} : work'[y] = work[y]
      /\ work'[x].batch \subseteq work[x].batch /\ Fresh(x)' \subseteq Fresh(x)
      /\ work'[x].step \notin Handling
  BY <1>1, WorkFacts DEF Store
<1>4. /\ k \notin processed
      /\ messages' = [messages EXCEPT ![k] = @ + 1]
      /\ processed' = processed \cup {k}
      /\ UNCHANGED <<roam, raw, orphaned, exposed, deliveries, crashes>>
  BY DEF Store
<1> HIDE DEF k, r
<1>5. Typed'
  <2>1. TypeOK'
    BY <1>1, <1>2, <1>3, <1>4 DEF Typed, TypeOK, roam
  <2>2. InHand'
    BY <1>1, <1>3 DEF Typed, InHand
  <2> QED BY <2>1, <2>2 DEF Typed
<1>6. HandKnows'
  BY <1>1, <1>3, <1>4 DEF Inv, HandKnows, Fresh, Handling, roam
<1>7. StoredUnderId' /\ (orphaned \subseteq raw)'
  BY <1>1, <1>2, <1>4 DEF Inv, StoredUnderId, roam
<1>8. MessageIffEvent'
  BY <1>1, <1>2, <1>4 DEF Inv, MessageIffEvent, Typed, TypeOK
<1> QED BY <1>5, <1>6, <1>7, <1>8 DEF Inv

\* Every step of Roam, of a handler and of a poll run preserves the invariant.
LEMMA InvStep == Inv /\ [Next]_vars => Inv'
<1> SUFFICES ASSUME Inv, [Next]_vars PROVE Inv'
  OBVIOUS
<1> USE DEF Inv
<1>1. CASE UNCHANGED vars
  <2>1. Typed'
    BY <1>1 DEF vars, Typed, TypeOK, InHand
  <2>2. (HandKnows /\ StoredUnderId /\ MessageIffEvent /\ orphaned \subseteq raw)'
    BY <1>1 DEF vars, HandKnows, Fresh, StoredUnderId, MessageIffEvent
  <2> QED BY <2>1, <2>2
<1>2. ASSUME NEW r \in Replies, Write(r) \/ StampEcho(r) PROVE Inv'
  BY <1>2, RoamStep DEF Write, StampEcho, Typed, TypeOK
<1>3. CASE Switch
  <2>1. active' \in BOOLEAN /\ mapped' \in BOOLEAN
    BY <1>3, Zenon DEF Switch, Typed, TypeOK
  <2> QED BY <1>3, <2>1, RoamStep DEF Switch, Typed, TypeOK
<1>4. ASSUME NEW h \in Handlers, NEW r \in Replies, Deliver(h, r) PROVE Inv'
  <2>1. deliveries' \in Nat /\ crashes' \in Nat /\ UNCHANGED <<roam, database>> /\ h \in Workers
    BY <1>4 DEF Deliver, Typed, TypeOK, Workers
  <2> QED BY <1>4, <2>1, DeliverFacts, WorkStep DEF Handling
<1>5. ASSUME NEW p \in Pollers, PollStep(p) PROVE Inv'
  <2>1. /\ p \in Workers /\ work[p].batch \subseteq written
        /\ work[p].step = "next" => Fresh(p) \cap Echoes \subseteq exposed
    BY DEF HandKnows, Workers
  <2>2. deliveries' \in Nat /\ crashes' \in Nat /\ UNCHANGED <<roam, database>>
    BY <1>5, PollFacts DEF Typed, TypeOK
  <2>3. /\ exposed \subseteq exposed' /\ exposed' \subseteq Echoes
        /\ work'[p].step \in Handling =>
             work'[p].step = "raw" /\ work'[p].reply \in work[p].batch
        /\ work'[p].step \in Handling /\ work'[p].reply \in Echoes => work'[p].reply \in exposed'
        /\ work'[p].step \in Handling \cup {"next"} => Fresh(p)' \cap Echoes \subseteq exposed'
    BY <1>5, <2>1, PollFacts
  <2>4. /\ work' \in [Workers -> Works]
        /\ \A y \in Workers \ {p} : work'[y] = work[y]
        /\ work'[p].batch \subseteq written
        /\ work'[p].step \notin {"check", "orphan", "txn"}
        /\ work'[p].step \in Handling => work'[p].reply \in written
    BY <1>5, <2>1, PollFacts DEF Handling
  <2> QED BY <2>1, <2>2, <2>3, <2>4, WorkStep
<1>6. ASSUME NEW x \in Workers, Handle(x) PROVE Inv'
  <2>1. CASE StoreConflict(x)
    BY <2>1, WorkFacts, WorkStep DEF StoreConflict, Fresh, Idle, Typed, TypeOK, Handling
  <2> QED
    BY <1>6, <2>1, PersistRawKeepsInv, CheckKeepsInv, StoreOrphanKeepsInv, StoreKeepsInv DEF Handle
<1>7. ASSUME NEW x \in Workers, Crash(x) PROVE Inv'
  BY <1>7, WorkFacts, WorkStep DEF Crash, Fresh, Idle, Typed, TypeOK, Handling
<1> QED BY <1>1, <1>2, <1>3, <1>4, <1>5, <1>6, <1>7 DEF Next

-----------------------------------------------------------------------------
\* The inductive invariant holds in every reachable state.
THEOREM Invariance == Spec => []Inv
BY InvInit, InvStep, PTL DEF Spec

\* Every variable keeps its type.
THEOREM TypeCorrect == Spec => []TypeOK
<1>1. Inv => TypeOK
  BY DEF Inv, Typed
<1> QED BY <1>1, Invariance, PTL

\* A message exists exactly for the keys with a "processed" event, one each:
\* no crash, repeated webhook or overlapping poll run separates the two.
THEOREM OneMessagePerKey == Spec => []MessageIffEvent
<1>1. Inv => MessageIffEvent
  BY DEF Inv
<1> QED BY <1>1, Invariance, PTL

\* Stored under one of the three kinds of key means processed under it.
LEMMA IngestedIsProcessed ==
  ASSUME Inv, NEW r \in Replies, Ingested(r)
  PROVE  r \in Storable \cap written \cap raw /\ (r \in Echoes => r \in exposed)
<1>1. PICK kind \in {"id", "hash", "ts"} : messages[<<kind, r>>] > 0
  BY DEF Ingested
<1>2. <<kind, r>> \in Keys /\ <<kind, r>>[2] = r
  BY DEF Keys
<1>3. <<kind, r>> \in processed
  BY <1>1, <1>2 DEF Inv, MessageIffEvent
<1> QED BY <1>2, <1>3 DEF Inv, StoredUnderId

\* A message the bridge posted itself becomes an analyst's reply only if its
\* sender is not recognised and it came by a webhook, or a poll run asked for
\* the known timestamps before its own was saved.
THEOREM EchoesAreKeptOut == Spec => []EchoesStayOut
<1>1. Inv => EchoesStayOut
  BY IngestedIsProcessed DEF EchoesStayOut, Storable
<1> QED BY <1>1, Invariance, PTL

\* Whatever was stored can be replayed from its raw payload.
THEOREM RawIsKept == Spec => []StoredWasRecorded
<1>1. Inv => StoredWasRecorded
  BY IngestedIsProcessed DEF StoredWasRecorded, Inv
<1> QED BY <1>1, Invariance, PTL

-----------------------------------------------------------------------------
(* The refinement of ReplyInbox.  A reply with an id has one key, so the   *)
(* sum over its three possible keys goes from 0 to 1 in the transaction    *)
(* and never changes again.                                                *)

Tagged == Genuine \ Untagged

Copies(r) == messages[<<"id", r>>] + messages[<<"ts", r>>] + messages[<<"hash", r>>]

\* The number of copies of a reply with an id is one if its id is processed.
LEMMA CopiesOfTagged ==
  ASSUME Inv, NEW r \in Tagged
  PROVE  Copies(r) = IF <<"id", r>> \in processed THEN 1 ELSE 0
<1>1. /\ r \in Replies /\ r \notin Untagged
      /\ <<"id", r>> \in Keys /\ <<"ts", r>> \in Keys /\ <<"hash", r>> \in Keys
  BY DEF Tagged, Genuine, Keys
<1>2. <<"ts", r>> \notin processed /\ <<"hash", r>> \notin processed
  BY <1>1 DEF Inv, StoredUnderId
<1> QED BY <1>1, <1>2 DEF Inv, MessageIffEvent, Copies

\* The empty database maps to the empty inbox.
LEMMA InboxInit == Init => Inbox!Init
<1> SUFFICES ASSUME Init PROVE Inbox!Init
  OBVIOUS
<1>1. \A r \in Genuine \ Untagged : <<"id", r>> \in Keys /\ <<"ts", r>> \in Keys /\ <<"hash", r>> \in Keys
  BY DEF Genuine, Keys
<1> QED BY <1>1 DEF Init, Inbox!Init

\* Every step maps to a step of the inbox or leaves the inbox alone.
LEMMA InboxStep ==
  ASSUME Inv, Inv', [Next]_vars
  PROVE  [Inbox!Next]_(<<written \cap (Genuine \ Untagged),
                         [r \in Genuine \ Untagged |-> messages[<<"id", r>>] + messages[<<"ts", r>>]
                                                       + messages[<<"hash", r>>]]>>)
<1> DEFINE seen == written \cap Tagged
           copies == [r \in Tagged |-> Copies(r)]
<1>1. SUFFICES [Inbox!Next]_(<<seen, copies>>)
  BY DEF Tagged, Copies
<1>2. CASE UNCHANGED <<written, messages>>
  BY <1>2 DEF Tagged, Genuine, Copies
<1>3. ASSUME NEW r \in Replies, Write(r) PROVE [Inbox!Next]_(<<seen, copies>>)
  <2>1. written' = written \cup {r} /\ messages' = messages
    BY <1>3 DEF Write, database
  <2>2. copies' = copies
    BY <2>1 DEF Copies, Tagged, Genuine
  <2>3. CASE r \in Tagged
    <3>1. seen' = seen \cup {r}
      BY <2>1, <2>3 DEF Tagged, Genuine
    <3>2. Inbox!Write(r)
      BY <3>1, <2>2 DEF Inbox!Write, Tagged, Copies
    <3> QED BY <3>2, <2>3 DEF Inbox!Next, Tagged
  <2>4. CASE r \notin Tagged
    BY <2>1, <2>2, <2>4 DEF Tagged, Genuine
  <2> QED BY <2>3, <2>4
<1>4. ASSUME NEW x \in Workers, Store(x) PROVE [Inbox!Next]_(<<seen, copies>>)
  <2>0. PICK r \in Replies : r = work[x].reply
    BY <1>4 DEF Store, Inv, Typed, InHand, Handling
  <2> DEFINE k == Key(r, Path(x))
  <2>1. r \in written /\ r \in Replies /\ k \in Keys /\ k[2] = r
    BY <1>4, <2>0, KeyFacts DEF Store, Inv, HandKnows, Handling
  <2>2. /\ k \notin processed /\ processed' = processed \cup {k}
        /\ messages' = [messages EXCEPT ![k] = @ + 1] /\ written' = written
    BY <1>4, <2>0 DEF Store, roam
  <2>3. CASE r \notin Tagged
    <3>1. \A q \in Tagged : <<"id", q>> # k /\ <<"ts", q>> # k /\ <<"hash", q>> # k
      BY <2>1, <2>3 DEF Tagged
    <3>2. \A q \in Tagged : Copies(q)' = Copies(q)
      BY <3>1, <2>2 DEF Copies, Tagged, Genuine, Keys, Inv, Typed, TypeOK
    <3> QED BY <3>2, <2>2 DEF Tagged, Genuine
  <2>4. CASE r \in Tagged
    <3>1. k = <<"id", r>> /\ r \in Tagged
      BY <2>1, <2>4, KeyFacts DEF Tagged
    <3>2. Copies(r) = 0 /\ Copies(r)' = 1
      <4>2. Copies(r) = 0
        BY <3>1, <2>2, CopiesOfTagged
      <4>3. /\ <<"ts", r>> # k /\ <<"hash", r>> # k
            /\ k \in Keys /\ <<"ts", r>> \in Keys /\ <<"hash", r>> \in Keys
        BY <3>1, <2>1 DEF Keys
      <4>4. Copies(r)' = Copies(r) + 1
        BY <3>1, <4>3, <2>2 DEF Copies, Inv, Typed, TypeOK
      <4> QED BY <4>2, <4>4
    <3>3. \A q \in Tagged \ {r} : Copies(q)' = Copies(q)
      <4>1. \A q \in Tagged \ {r} : <<"id", q>> # k /\ <<"ts", q>> # k /\ <<"hash", q>> # k
        BY <3>1
      <4> QED BY <4>1, <2>2 DEF Copies, Tagged, Genuine, Keys, Inv, Typed, TypeOK
    <3>4. copies' = [copies EXCEPT ![r] = 1]
      BY <3>1, <3>2, <3>3 DEF Tagged, Genuine
    <3>5. Inbox!Accept(r)
      BY <3>1, <3>2, <3>4, <2>1, <2>2 DEF Inbox!Accept, Tagged, Copies
    <3> QED BY <3>1, <3>5 DEF Inbox!Next, Tagged
  <2> QED BY <2>3, <2>4
<1>5. UNCHANGED <<written, messages>> \/ (\E r \in Replies : Write(r)) \/ (\E x \in Workers : Store(x))
  <2>1. CASE UNCHANGED vars
    BY <2>1 DEF vars
  <2>2. CASE Next
    <3>1. ASSUME NEW p \in Pollers, PollStep(p) PROVE UNCHANGED <<written, messages>>
      BY <3>1, PollFacts DEF roam, database, Inv
    <3>2. ASSUME NEW x \in Workers, Handle(x), ~Store(x) PROVE UNCHANGED <<written, messages>>
      BY <3>2 DEF Handle, PersistRaw, Check, StoreOrphan, StoreConflict, roam, database
    <3> QED BY <2>2, <3>1, <3>2 DEF Next, StampEcho, Switch, Deliver, Crash, roam, database
  <2> QED BY <2>1, <2>2
<1> QED BY <1>2, <1>3, <1>4, <1>5

\* The ingestion implements the inbox: a reply with an id reaches the
\* customer's thread at most once, and only after it was written in Roam.
THEOREM InboxRefinement == Spec => ImplementsInbox
<1>1. Init => Inbox!Init
  BY InboxInit
<1>2. Inv /\ Inv' /\ [Next]_vars =>
        [Inbox!Next]_(<<written \cap (Genuine \ Untagged),
                        [r \in Genuine \ Untagged |-> messages[<<"id", r>>] + messages[<<"ts", r>>]
                                                      + messages[<<"hash", r>>]]>>)
  BY InboxStep
<1> QED BY <1>1, <1>2, Invariance, PTL DEF Spec, ImplementsInbox, Inbox!Spec

=============================================================================
