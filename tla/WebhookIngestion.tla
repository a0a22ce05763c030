-------------------------- MODULE WebhookIngestion --------------------------
(***************************************************************************)
(* How analyst replies get from a Roam thread into a conversation.         *)
(*                                                                         *)
(* Two paths feed WebhookService.handle_chat_message: the webhook view,    *)
(* called by Roam zero or more times per reply, and poll_roam_replies,     *)
(* which Celery beat starts every ten seconds whether or not the last run  *)
(* has ended.  The handler persists the raw payload, looks for its         *)
(* idempotency key in the EventLog, and later stores Message, row and      *)
(* EventLog in one transaction, whose unique key is the last defence       *)
(* against a second copy.                                                  *)
(*                                                                         *)
(* One conversation.  Abstracted: the wording, the resolution of names,    *)
(* the SSE and push notifications sent after the commit, what the reply    *)
(* does to the row (see ConversationLifecycle), and the number of raw and  *)
(* orphaned events kept for one reply.  Names ending in Mutant are wrong   *)
(* on purpose, see ConversationRow.                                        *)
(***************************************************************************)
EXTENDS Naturals, FiniteSets

CONSTANTS
  Replies,      \* what may be written in Roam threads
  Untagged,     \* ... carrying no message id in webhook and history
  Unkeyed,      \* ... whose webhooks carry no thread key
  Echoes,       \* ... our bot's copies of messages the bridge posted
  Bots,         \* ... whose sender's id marks it as a bot, ours or another
  Nameless,     \* ... without a sender in webhook and history
  BotKnown,     \* ROAM_BOT_USER_ID names our bot
  Foreign,      \* ... in threads that belong to no conversation
  Blank,        \* ... without a text
  NoReply,      \* in place of a reply, for a worker that has none in hand
  Handlers,     \* webhook requests that may run at the same time
  Pollers,      \* poll runs that may run at the same time
  PageLimit,    \* messages chat.history returns at most (limit=50)
  MaxDeliveries,  \* bound: webhook calls in a behaviour
  MaxCrashes,     \* bound: handlers and poll runs cut off
  MaxSwitches     \* bound: changes of the conversation's activity and its queue's mapping

ASSUME IngestionAssumption ==
  /\ Untagged \cup Unkeyed \cup Echoes \cup Bots \cup Nameless \cup Foreign \cup Blank
       \subseteq Replies
  /\ BotKnown \in BOOLEAN
  /\ NoReply \notin Replies
  /\ Handlers \cap Pollers = {}
  /\ PageLimit \in Nat /\ MaxDeliveries \in Nat /\ MaxCrashes \in Nat /\ MaxSwitches \in Nat

VARIABLES
  written,     \* the replies that exist in Roam
  stamped,     \* echoes whose Roam timestamp is saved on our own message
  rooted,      \* the conversation has a roam_thread_timestamp
  active,      \* its status is one of _ACTIVE_STATUSES
  mapped,      \* its queue has an active mapping to a Roam group
  messages,    \* messages[k]: analyst Messages stored under key k
  processed,   \* keys of the "processed" EventLog rows
  raw,         \* replies with a raw EventLog row
  orphaned,    \* replies with an orphaned EventLog row
  work,        \* work[x]: what handler or poll run x is doing
  exposed,     \* history: echoes that a webhook brought, or a poll run found unstamped
  deliveries, crashes, switches

vars == <<written, stamped, rooted, active, mapped, messages, processed, raw, orphaned,
          work, exposed, deliveries, crashes, switches>>
roam     == <<written, stamped, rooted, active, mapped, switches>>
database == <<messages, processed, raw, orphaned>>

-----------------------------------------------------------------------------
Keys == {"id", "hash", "ts"} \X Replies

\* _extract_fields: what the handler finds of a reply in a payload, under
\* whichever of the names it knows.  The poller builds its payload itself: it
\* gives it the conversation's own thread key and the timestamp for a missing id.
ExtractedMutant(r, path) ==   \* the poller leaves the thread key out
  [text       |-> r \notin Blank,
   thread_key |-> r \notin Unkeyed,
   message_id |-> IF r \notin Untagged THEN "id" ELSE IF path = "poll" THEN "ts" ELSE "none"]

Extracted(r, path) ==
  [text       |-> r \notin Blank,
   thread_key |-> path = "poll" \/ r \notin Unkeyed,
   message_id |-> IF r \notin Untagged THEN "id" ELSE IF path = "poll" THEN "ts" ELSE "none"]

\* _derive_idempotency_key: the message id when there is one, else a hash.
KeyMutant(r, path) == <<IF path = "poll" THEN "ts" ELSE "id", r>>   \* the poller keys by timestamp
Key(r, path) ==
  LET id == Extracted(r, path).message_id IN <<IF id = "none" THEN "hash" ELSE id, r>>

Path(x) == IF x \in Pollers THEN "poll" ELSE "webhook"

\* _is_bot_echo: without a sender nothing is recognised; our own post is, if
\* its sender looks like a bot or our bot is configured.
IsBotEcho(r) == r \notin Nameless /\ (r \in Bots \/ (BotKnown /\ r \in Echoes))

\* chat.history of the conversation's thread: a page of at most PageLimit
\* messages; which ones and in which order is up to Roam.
Thread == written \ Foreign
Pages == {page \in SUBSET Thread :
            Cardinality(page) = IF Cardinality(Thread) <= PageLimit
                                THEN Cardinality(Thread) ELSE PageLimit}

\* A worker is idle, or has a reply in hand (raw, check, orphan, txn), or is a
\* poll run between replies (group, fetch, known, next); batch and known are the page
\* still to be fed and the part of it that was found stored already.
Idle == [step |-> "idle", reply |-> NoReply, batch |-> {}, known |-> {}]

Steps == {"idle", "raw", "check", "orphan", "txn", "group", "fetch", "known", "next"}

Works == [step : Steps, reply : Replies \cup {NoReply},
          batch : SUBSET Replies, known : SUBSET Replies]

Workers == Handlers \cup Pollers

TypeOK ==
  /\ written \subseteq Replies
  /\ stamped \subseteq Echoes
  /\ rooted \in BOOLEAN
  /\ active \in BOOLEAN
  /\ mapped \in BOOLEAN
  /\ messages \in [Keys -> Nat]
  /\ processed \subseteq Keys
  /\ raw \subseteq Replies
  /\ orphaned \subseteq Replies
  /\ work \in [Workers -> Works]
  /\ exposed \subseteq Echoes
  /\ deliveries \in Nat /\ crashes \in Nat /\ switches \in Nat

\* The conversation is committed; posting its root to Roam may have failed,
\* and then it has no thread timestamp.
Init ==
  /\ written = {}
  /\ stamped = {}
  /\ rooted \in BOOLEAN
  /\ active = TRUE
  /\ mapped = TRUE
  /\ messages = [k \in Keys |-> 0]
  /\ processed = {}
  /\ raw = {}
  /\ orphaned = {}
  /\ work = [x \in Workers |-> Idle]
  /\ exposed = {}
  /\ deliveries = 0 /\ crashes = 0 /\ switches = 0

-----------------------------------------------------------------------------
(* Roam and the rest of the bridge. *)

Write(r) ==
  /\ r \notin written
  /\ written' = written \cup {r}
  /\ UNCHANGED <<stamped, rooted, active, mapped, switches, database, work, exposed, deliveries, crashes>>

\* The request that posted an echo saves its timestamp after Roam's answer.
StampEcho(r) ==
  /\ r \in Echoes \cap written
  /\ stamped' = stamped \cup {r}
  /\ UNCHANGED <<written, rooted, active, mapped, switches, database, work, exposed, deliveries, crashes>>

\* The conversation is resolved or closed, or reopened; the mapping of its
\* queue is switched off, or on.
Switch ==
  /\ switches < MaxSwitches
  /\ switches' = switches + 1
  /\ \/ active' = ~active /\ UNCHANGED mapped
     \/ mapped' = ~mapped /\ UNCHANGED active
  /\ UNCHANGED <<written, stamped, rooted, database, work, exposed, deliveries, crashes>>

-----------------------------------------------------------------------------
(* handle_chat_message. *)

\* A webhook handler is done; a poll run goes on to the next reply.
Return(x) == work' = [work EXCEPT ![x] = IF x \in Pollers
                                         THEN [@ EXCEPT !.step = "next", !.reply = NoReply]
                                         ELSE Idle]

\* An exception: the view answers 200 all the same, the poll run drops the
\* rest of the batch.
Raise(x) == work' = [work EXCEPT ![x] = Idle]

Goto(x, step) == work' = [work EXCEPT ![x].step = step]

\* The raw payload is kept before its fields are looked at.
PersistRaw(x) ==
  /\ work[x].step = "raw"
  /\ raw' = raw \cup {work[x].reply}
  /\ LET fields == Extracted(work[x].reply, Path(x)) IN
       IF fields.text /\ fields.thread_key THEN Goto(x, "check") ELSE Return(x)
  /\ UNCHANGED <<roam, messages, processed, orphaned, exposed, deliveries, crashes>>

\* The duplicate check, the echo check and the lookup by thread key.
Check(x) ==
  /\ work[x].step = "check"
  /\ LET r == work[x].reply IN
       IF Key(r, Path(x)) \in processed \/ IsBotEcho(r) THEN Return(x)
       ELSE Goto(x, IF r \in Foreign THEN "orphan" ELSE "txn")
  /\ UNCHANGED <<roam, database, exposed, deliveries, crashes>>

StoreOrphan(x) ==
  /\ work[x].step = "orphan"
  /\ orphaned' = orphaned \cup {work[x].reply}
  /\ Return(x)
  /\ UNCHANGED <<roam, messages, processed, raw, exposed, deliveries, crashes>>

\* One transaction: Message, conversation row, EventLog with the unique key.
Store(x) ==
  /\ work[x].step = "txn"
  /\ LET k == Key(work[x].reply, Path(x)) IN
       /\ k \notin processed
       /\ messages' = [messages EXCEPT ![k] = @ + 1]
       /\ processed' = processed \cup {k}
       /\ Return(x)
  /\ UNCHANGED <<roam, raw, orphaned, exposed, deliveries, crashes>>

\* The insert of the EventLog row hits the unique key: all is rolled back and
\* IntegrityError leaves the handler.
StoreConflictMutant(x) ==   \* the message is committed before the event
  /\ work[x].step = "txn"
  /\ LET k == Key(work[x].reply, Path(x)) IN
       k \in processed /\ messages' = [messages EXCEPT ![k] = @ + 1]
  /\ Raise(x)
  /\ UNCHANGED <<roam, processed, raw, orphaned, exposed, deliveries, crashes>>

StoreConflict(x) ==
  /\ work[x].step = "txn"
  /\ Key(work[x].reply, Path(x)) \in processed
  /\ Raise(x)
  /\ UNCHANGED <<roam, database, exposed, deliveries, crashes>>

Handle(x) == PersistRaw(x) \/ Check(x) \/ StoreOrphan(x) \/ Store(x) \/ StoreConflict(x)

-----------------------------------------------------------------------------
(* The webhook view: Roam calls it for a reply any number of times. *)

Deliver(h, r) ==
  /\ r \in written
  /\ work[h] = Idle
  /\ deliveries < MaxDeliveries
  /\ deliveries' = deliveries + 1
  /\ exposed' = exposed \cup ({r} \cap Echoes)
  /\ work' = [work EXCEPT ![h].step = "raw", ![h].reply = r]
  /\ UNCHANGED <<roam, database, crashes>>

-----------------------------------------------------------------------------
(* poll_roam_replies and _poll_conversation. *)

PollStart(p) ==
  /\ work[p] = Idle
  /\ active /\ rooted
  /\ Goto(p, "group")
  /\ UNCHANGED <<roam, database, exposed, deliveries, crashes>>

PollGroup(p) ==
  /\ work[p].step = "group"
  /\ Goto(p, IF mapped THEN "fetch" ELSE "idle")
  /\ UNCHANGED <<roam, database, exposed, deliveries, crashes>>

PollFetch(p) ==
  /\ work[p].step = "fetch"
  /\ \E page \in Pages :
       work' = [work EXCEPT ![p].step = IF page = {} THEN "idle" ELSE "known", ![p].batch = page]
  /\ UNCHANGED <<roam, database, exposed, deliveries, crashes>>

\* Roam does not answer, or answers with an error three times.
PollFetchFails(p) ==
  /\ work[p].step = "fetch"
  /\ Raise(p)
  /\ UNCHANGED <<roam, database, exposed, deliveries, crashes>>

\* existing_ids: of the page's timestamps, those found as external_message_id.
\* An analyst message stored from an id has that id there, never a timestamp.
PollKnownMutant(p) ==   \* looks among the analysts' messages only
  /\ work[p].step = "known"
  /\ LET known == {r \in work[p].batch : messages[<<"ts", r>>] > 0} IN
       work' = [work EXCEPT ![p].step = "next", ![p].known = known]
  /\ exposed' = exposed \cup ((work[p].batch \cap Echoes) \ stamped)
  /\ UNCHANGED <<roam, database, deliveries, crashes>>

PollKnown(p) ==
  /\ work[p].step = "known"
  /\ LET known == {r \in work[p].batch : messages[<<"ts", r>>] > 0 \/ r \in stamped} IN
       work' = [work EXCEPT ![p].step = "next", ![p].known = known]
  /\ exposed' = exposed \cup ((work[p].batch \cap Echoes) \ stamped)
  /\ UNCHANGED <<roam, database, deliveries, crashes>>

PollSkip(p, r) ==
  /\ work[p].step = "next"
  /\ r \in work[p].batch \cap work[p].known
  /\ work' = [work EXCEPT ![p].batch = @ \ {r}]
  /\ UNCHANGED <<roam, database, exposed, deliveries, crashes>>

PollFeed(p, r) ==
  /\ work[p].step = "next"
  /\ r \in work[p].batch \ work[p].known
  /\ work' = [work EXCEPT ![p].batch = @ \ {r}, ![p].step = "raw", ![p].reply = r]
  /\ UNCHANGED <<roam, database, exposed, deliveries, crashes>>

PollEnd(p) ==
  /\ work[p].step = "next" /\ work[p].batch = {}
  /\ work' = [work EXCEPT ![p] = Idle]
  /\ UNCHANGED <<roam, database, exposed, deliveries, crashes>>

PollStep(p) ==
  \/ PollStart(p) \/ PollGroup(p) \/ PollFetch(p) \/ PollFetchFails(p) \/ PollKnown(p) \/ PollEnd(p)
  \/ \E r \in Replies : PollSkip(p, r) \/ PollFeed(p, r)

\* A handler or poll run is killed between two statements.
Crash(x) ==
  /\ work[x] # Idle
  /\ crashes < MaxCrashes
  /\ crashes' = crashes + 1
  /\ Raise(x)
  /\ UNCHANGED <<roam, database, exposed, deliveries>>

-----------------------------------------------------------------------------
Next ==
  \/ \E r \in Replies : Write(r) \/ StampEcho(r)
  \/ Switch
  \/ \E h \in Handlers, r \in Replies : Deliver(h, r)
  \/ \E p \in Pollers : PollStep(p)
  \/ \E x \in Workers : Handle(x) \/ Crash(x)

Spec == Init /\ [][Next]_vars

\* Beat starts a run every ten seconds and the Celery worker carries it
\* through; Roam answers again and again, though not every time.  Nothing is
\* assumed about webhooks, people, or the status of the conversation.
PollFairness ==
  \A p \in Pollers : WF_vars(PollStep(p) \/ Handle(p)) /\ SF_vars(PollFetch(p))

FairSpec == Spec /\ PollFairness

-----------------------------------------------------------------------------
Ingested(r) == \E kind \in {"id", "hash", "ts"} : messages[<<kind, r>>] > 0

\* The replies that a customer should get to see.
Genuine == Replies \ (Echoes \cup Bots \cup Foreign \cup Blank)

Inbox == INSTANCE ReplyInbox WITH
  Replies <- Genuine \ Untagged,
  written <- written \cap (Genuine \ Untagged),
  copies <- [r \in Genuine \ Untagged |-> messages[<<"id", r>>] + messages[<<"ts", r>>]
                                            + messages[<<"hash", r>>]]

\* Every reply with an id reaches the customer at most once, over both paths,
\* for any number of repeated webhooks, overlapping poll runs and crashes.
ImplementsInbox == Inbox!Spec

\* What the bridge posted itself comes back, and becomes a reply only if its
\* sender is not recognised and a webhook brings it, or a poll run asked for
\* the known timestamps before its own was saved.
EchoesStayOut == \A r \in Echoes : Ingested(r) => ~IsBotEcho(r) /\ r \in exposed

\* A message exists exactly for the keys with a "processed" event, one for
\* each: no crash and no lost race leaves one without the other.
MessageIffEvent == \A k \in Keys : messages[k] = IF k \in processed THEN 1 ELSE 0

\* The raw payload of whatever was stored, as message or orphan, was kept for
\* replay before.
StoredWasRecorded == \A r \in Replies : Ingested(r) \/ r \in orphaned => r \in raw

Crowded == Cardinality(Thread) > PageLimit

\* While the conversation has a thread timestamp, stays active and mapped, and
\* its thread fits on one page of the history, a reply reaches the customer
\* even if Roam never calls the webhook.
ReplyArrives ==
  \A r \in Genuine :
    (r \in written /\ rooted /\ active /\ mapped /\ ~Crowded)
      ~> (Ingested(r) \/ ~active \/ ~mapped \/ Crowded)

=============================================================================
