-------------------------- MODULE CustomerRequests --------------------------
(***************************************************************************)
(* create_conversation and send_message as the customer's client sees      *)
(* them: a request carries an Idempotency-Key and may be repeated, also    *)
(* while the first one still runs or after it was cut off.  The service    *)
(* looks the key up in the EventLog, writes its rows, posts to Roam and    *)
(* answers.  Creation writes conversation, message and event in one        *)
(* transaction; sending writes message and event one after the other.      *)
(*                                                                         *)
(* Abstracted: routing, the columns a message changes in the conversation  *)
(* row and the closed check (see ConversationLifecycle), wording, SSE, and *)
(* keys used for two purposes (the clients generate them).  A message is   *)
(* as new as its position, though created_at is read before the insert.    *)
(* Names ending in Mutant are wrong on purpose, see ConversationRow.       *)
(***************************************************************************)
EXTENDS Naturals, Sequences, FiniteSets

CONSTANTS
  Workers,       \* request threads
  CreateKeys,    \* idempotency keys of create requests
  SendKeys,      \* idempotency keys of send requests
  Into,          \* Into[k]: the key that created the conversation k is sent to
  MaxRequests,   \* bound: requests begun, repetitions included
  MaxCrashes     \* bound: requests cut off between two statements

ASSUME RequestsAssumption ==
  /\ CreateKeys \cap SendKeys = {}
  /\ Into \in [SendKeys -> CreateKeys]
  /\ MaxRequests \in Nat /\ MaxCrashes \in Nat

Keys == CreateKeys \cup SendKeys

\* stop_after_attempt(3) of RoamClient
Attempts == 3

VARIABLES
  conversations,   \* the Conversation rows, in the order of their creation
  messages,        \* the customer's Message rows, in the order of their creation
  events,          \* events[k]: the conversation of k's EventLog row; 0: no row
  answers,         \* what clients were answered (201)
  req,             \* req[w]: the request worker w executes
  requests, crashes

vars == <<conversations, messages, events, answers, req, requests, crashes>>

Steps == {"idle", "create", "insert", "record", "post", "delivered", "thread",
          "failed", "answer"}

NoRequest == [key |-> "none", step |-> "idle", message |-> 0, tries |-> 0]

Conversations == [key : CreateKeys, thread : BOOLEAN]

\* posts counts the copies of the message in the Roam thread.
Messages == [conversation : Nat, key : Keys, posts : Nat,
             delivery : {"pending", "delivered", "failed"}]

TypeOK ==
  /\ conversations \in Seq(Conversations)
  /\ messages \in Seq(Messages)
  /\ events \in [Keys -> 0..Len(conversations)]
  /\ answers \subseteq [key : Keys, conversation : DOMAIN conversations,
                        message : DOMAIN messages]
  /\ req \in [Workers -> [key : Keys \cup {"none"}, step : Steps,
                          message : {0} \cup DOMAIN messages, tries : 0..Attempts - 1]]
  /\ requests \in Nat /\ crashes \in Nat

Init ==
  /\ conversations = <<>>
  /\ messages = <<>>
  /\ events = [k \in Keys |-> 0]
  /\ answers = {}
  /\ req = [w \in Workers |-> NoRequest]
  /\ requests = 0
  /\ crashes = 0

-----------------------------------------------------------------------------
Goto(w, step) == req' = [req EXCEPT ![w].step = step]
Finish(w)     == req' = [req EXCEPT ![w] = NoRequest]

Reply(k, c, m) == answers' = answers \cup {[key |-> k, conversation |-> c, message |-> m]}

Of(c) == {m \in DOMAIN messages : messages[m].conversation = c}
Oldest(c) == CHOOSE m \in Of(c) : \A other \in Of(c) : m <= other
Newest(c) == CHOOSE m \in Of(c) : \A other \in Of(c) : other <= m

NewMessage(c, k) == [conversation |-> c, key |-> k, posts |-> 0, delivery |-> "pending"]

\* The message of request w is stored; it is posted when the conversation's
\* queue has an active Roam group, which an operator may change at any time.
Stored(w, m) == \E step \in {"post", "answer"} :
  req' = [req EXCEPT ![w].step = step, ![w].message = m]

Start(w) ==
  /\ req[w] = NoRequest
  /\ requests < MaxRequests
  /\ requests' = requests + 1

\* The key is looked up; an unknown one is worked on from the given step.
Take(w, k, step) ==
  /\ events[k] = 0
  /\ req' = [req EXCEPT ![w].key = k, ![w].step = step]
  /\ UNCHANGED answers

-----------------------------------------------------------------------------
(* create_conversation *)

CreateRepeatMutant(w, k) ==   \* messages.last()
  /\ Start(w)
  /\ events[k] # 0
  /\ Reply(k, events[k], Newest(events[k]))
  /\ UNCHANGED <<conversations, messages, events, req, crashes>>

CreateRepeat(w, k) ==
  /\ Start(w)
  /\ events[k] # 0
  /\ Reply(k, events[k], Oldest(events[k]))
  /\ UNCHANGED <<conversations, messages, events, req, crashes>>

CreateTake(w, k) ==
  /\ Start(w)
  /\ Take(w, k, "create")
  /\ UNCHANGED <<conversations, messages, events, crashes>>

\* transaction.atomic: conversation, first message, event.
CreateCommit(w) ==
  LET k == req[w].key
      c == Len(conversations) + 1
  IN  /\ req[w].step = "create"
      /\ events[k] = 0
      /\ conversations' = Append(conversations, [key |-> k, thread |-> FALSE])
      /\ messages' = Append(messages, NewMessage(c, k))
      /\ events' = [events EXCEPT ![k] = c]
      /\ Stored(w, Len(messages) + 1)
      /\ UNCHANGED <<answers, requests, crashes>>

\* The unique key exists by now: all is rolled back, IntegrityError, no 201.
CreateConflictMutant(w) ==   \* no transaction.atomic
  LET k == req[w].key
  IN  /\ req[w].step = "create"
      /\ events[k] # 0
      /\ conversations' = Append(conversations, [key |-> k, thread |-> FALSE])
      /\ messages' = Append(messages, NewMessage(Len(conversations) + 1, k))
      /\ Finish(w)
      /\ UNCHANGED <<events, answers, requests, crashes>>

CreateConflict(w) ==
  /\ req[w].step = "create"
  /\ events[req[w].key] # 0
  /\ Finish(w)
  /\ UNCHANGED <<conversations, messages, events, answers, requests, crashes>>

-----------------------------------------------------------------------------
(* send_message: to a conversation the client was told about. *)

Known(k) == \E answer \in answers : answer.key = Into[k]

SendRepeat(w, k) ==
  /\ Start(w)
  /\ Known(k)
  /\ events[k] # 0
  /\ Reply(k, events[Into[k]], Newest(events[Into[k]]))
  /\ UNCHANGED <<conversations, messages, events, req, crashes>>

SendTakeMutant(w, k) ==   \* claims the key before the message exists
  /\ Start(w)
  /\ Known(k)
  /\ Take(w, k, "insert")
  /\ events' = [events EXCEPT ![k] = events[Into[k]]]
  /\ UNCHANGED <<conversations, messages, crashes>>

SendTake(w, k) ==
  /\ Start(w)
  /\ Known(k)
  /\ Take(w, k, "insert")
  /\ UNCHANGED <<conversations, messages, events, crashes>>

SendInsert(w) ==
  /\ req[w].step = "insert"
  /\ messages' = Append(messages, NewMessage(events[Into[req[w].key]], req[w].key))
  /\ req' = [req EXCEPT ![w].step = "record", ![w].message = Len(messages) + 1]
  /\ UNCHANGED <<conversations, events, answers, requests, crashes>>

SendRecord(w) ==
  /\ req[w].step = "record"
  /\ events[req[w].key] = 0
  /\ events' = [events EXCEPT ![req[w].key] = messages[req[w].message].conversation]
  /\ Stored(w, req[w].message)
  /\ UNCHANGED <<conversations, messages, answers, requests, crashes>>

\* IntegrityError after the message was committed.
SendConflict(w) ==
  /\ req[w].step = "record"
  /\ events[req[w].key] # 0
  /\ Finish(w)
  /\ UNCHANGED <<conversations, messages, events, answers, requests, crashes>>

-----------------------------------------------------------------------------
(* post_blocks / post_message and what follows. *)

Copies(m, landed) == messages' = [messages EXCEPT ![m].posts = IF landed THEN @ + 1 ELSE @]

PostSucceeds(w) ==
  /\ req[w].step = "post"
  /\ Copies(req[w].message, TRUE)
  /\ Goto(w, "delivered")
  /\ UNCHANGED <<conversations, events, answers, requests, crashes>>

\* 429 or 5xx: the request may have taken effect all the same.
PostRetry(w) ==
  /\ req[w].step = "post"
  /\ \E landed \in BOOLEAN : Copies(req[w].message, landed)
  /\ IF req[w].tries + 1 < Attempts
     THEN req' = [req EXCEPT ![w].tries = @ + 1]
     ELSE Goto(w, "failed")
  /\ UNCHANGED <<conversations, events, answers, requests, crashes>>

\* Another status, a timeout, a lost connection.
PostErrorMutant(w) ==   \* the answer's status is not looked at
  /\ req[w].step = "post"
  /\ \E landed \in BOOLEAN : Copies(req[w].message, landed)
  /\ Goto(w, "delivered")
  /\ UNCHANGED <<conversations, events, answers, requests, crashes>>

PostError(w) ==
  /\ req[w].step = "post"
  /\ \E landed \in BOOLEAN : Copies(req[w].message, landed)
  /\ Goto(w, "failed")
  /\ UNCHANGED <<conversations, events, answers, requests, crashes>>

\* A creation goes on to store Roam's thread timestamp, if the answer had one.
SaveDelivered(w) ==
  /\ req[w].step = "delivered"
  /\ messages' = [messages EXCEPT ![req[w].message].delivery = "delivered"]
  /\ \E step \in {"thread", "answer"} :
       /\ step = "thread" => req[w].key \in CreateKeys
       /\ Goto(w, step)
  /\ UNCHANGED <<conversations, events, answers, requests, crashes>>

SaveThread(w) ==
  /\ req[w].step = "thread"
  /\ conversations' = [conversations EXCEPT ![messages[req[w].message].conversation].thread = TRUE]
  /\ Goto(w, "answer")
  /\ UNCHANGED <<messages, events, answers, requests, crashes>>

SaveFailed(w) ==
  /\ req[w].step = "failed"
  /\ messages' = [messages EXCEPT ![req[w].message].delivery = "failed"]
  /\ Goto(w, "answer")
  /\ UNCHANGED <<conversations, events, answers, requests, crashes>>

Answer(w) ==
  /\ req[w].step = "answer"
  /\ Reply(req[w].key, messages[req[w].message].conversation, req[w].message)
  /\ Finish(w)
  /\ UNCHANGED <<conversations, messages, events, requests, crashes>>

-----------------------------------------------------------------------------
Proceed(w) ==
  \/ CreateCommit(w) \/ CreateConflict(w)
  \/ SendInsert(w) \/ SendRecord(w) \/ SendConflict(w)
  \/ PostSucceeds(w) \/ PostRetry(w) \/ PostError(w)
  \/ SaveDelivered(w) \/ SaveThread(w) \/ SaveFailed(w) \/ Answer(w)

\* The worker is killed, or a statement raises, between two statements.
Crash(w) ==
  /\ req[w] # NoRequest
  /\ crashes < MaxCrashes
  /\ crashes' = crashes + 1
  /\ Finish(w)
  /\ UNCHANGED <<conversations, messages, events, answers, requests>>

Next == \E w \in Workers :
  \/ \E k \in CreateKeys : CreateRepeat(w, k) \/ CreateTake(w, k)
  \/ \E k \in SendKeys : SendRepeat(w, k) \/ SendTake(w, k)
  \/ Proceed(w)
  \/ Crash(w)

Spec == Init /\ [][Next]_vars

-----------------------------------------------------------------------------
With(k) == {m \in DOMAIN messages : messages[m].key = k}

\* However often and however concurrently a creation is repeated, its key has
\* one conversation with one opening message, its oldest, or neither.
CreateOnce ==
  \A k \in CreateKeys :
    LET made == {c \in DOMAIN conversations : conversations[c].key = k}
    IN  IF events[k] = 0
        THEN made = {} /\ With(k) = {}
        ELSE made = {events[k]} /\ With(k) = {Oldest(events[k])}

\* Every repetition of a creation is answered with the same conversation and
\* the same message, the message of that key.
CreateAnswersAgree ==
  \A answer \in answers :
    answer.key \in CreateKeys =>
      /\ answer.conversation = events[answer.key]
      /\ messages[answer.message].key = answer.key

\* What was acknowledged is stored: a key whose request, or whose repetition,
\* got a 201 has a message in its conversation.
AcknowledgedIsStored ==
  \A answer \in answers :
    \E m \in With(answer.key) : messages[m].conversation = answer.conversation

InHand(m) == \E w \in Workers : req[w].message = m

\* The marks tell what happened in Roam: a delivered message was posted, a
\* posted one is marked unless its request still runs or was cut off, nobody
\* but the request that stored it posts it, at most Attempts times, and a
\* thread to poll exists only for an opening message that was delivered.
DeliveryMarks ==
  /\ \A m \in DOMAIN messages :
       /\ messages[m].posts <= Attempts
       /\ messages[m].delivery = "delivered" => messages[m].posts > 0
       /\ messages[m].posts > 0 => messages[m].delivery # "pending" \/ InHand(m) \/ crashes > 0
  /\ \A c \in DOMAIN conversations :
       conversations[c].thread => messages[Oldest(c)].delivery = "delivered"

\* A key is processed once: it has at most one message.
SendOnce == \A k \in SendKeys : Cardinality(With(k)) <= 1

=============================================================================
