----------------------------- MODULE LiveThread -----------------------------
(***************************************************************************)
(* The thread a customer sees: the widget's list of messages, fed by three *)
(* sources that know nothing of each other.  Server-sent events append     *)
(* what is published while a stream is subscribed; the load and the        *)
(* five-second polling replace the whole list by what the server had when  *)
(* it was asked; the answer to a send is appended.  The widget has one     *)
(* list for all conversations, and an answer that arrives after the        *)
(* customer went elsewhere is applied to it all the same.  Showing another *)
(* conversation and changing over to its stream are two steps: the effect  *)
(* that does the latter runs after the browser has painted.                *)
(*                                                                         *)
(* Abstracted: order and content (the list is sorted when it is drawn),    *)
(* the status shown with the thread, backoff and timers (any delay may     *)
(* pass), tokens.  Names ending in Mutant are wrong on purpose, see        *)
(* ConversationRow.                                                        *)
(***************************************************************************)
EXTENDS Naturals, Sequences, FiniteSets

CONSTANTS
  Conversations,  \* the customer's conversations
  NoConversation,
  Requests,       \* bound: requests that may be under way at a time
  MaxMessages,    \* bound: messages in all conversations
  MaxMounts       \* bound: times a thread is opened

ASSUME ThreadAssumption ==
  /\ NoConversation \notin Conversations
  /\ MaxMessages \in Nat /\ MaxMounts \in Nat

VARIABLES
  stored,       \* the conversations of the Message rows, in their order
  unpublished,  \* messages whose message.created has not been published yet
  creating,     \* conversations the widget created and awaits the answer for
  selected,     \* selectedConversationId
  mounted,      \* the detail view is shown
  live,         \* the conversation whose effect ran last and was not cleaned up
  shown,        \* how often each message is in the widget's list
  stream,       \* the EventSource, its subscription, and the events on their way
  request,      \* request[r]: what request r asks for and was answered
  mounts        \* threads opened so far

vars == <<stored, unpublished, creating, selected, mounted, live, shown, stream, request, mounts>>
server == <<stored, unpublished, creating>>
view   == <<selected, mounted, live, mounts>>

-----------------------------------------------------------------------------
Ids == 1..MaxMessages

\* GET messages: the rows of one conversation.
Thread(c) == {m \in DOMAIN stored : stored[m] = c}

NoRequest == [kind |-> "none", of |-> NoConversation, answer |-> {}]

\* A stream is off, waits to be opened, is subscribed, or has sent its first
\* heartbeat and is done.
NoStream == [step |-> "off", of |-> NoConversation, queue |-> <<>>]

TypeOK ==
  /\ stored \in Seq(Conversations) /\ Len(stored) <= MaxMessages
  /\ unpublished \subseteq DOMAIN stored
  /\ creating \subseteq Conversations
  /\ selected \in Conversations \cup {NoConversation}
  /\ mounted \in BOOLEAN
  /\ live \in Conversations \cup {NoConversation}
  /\ shown \in [Ids -> Nat]
  /\ stream \in [step : {"off", "waiting", "open", "spent"},
                 of : Conversations \cup {NoConversation}, queue : Seq(Ids)]
  /\ request \in [Requests -> [kind : {"none", "ask list", "list", "ask send", "send"},
                               of : Conversations \cup {NoConversation}, answer : SUBSET Ids]]
  /\ mounts \in Nat

Init ==
  /\ stored = <<>>
  /\ unpublished = {}
  /\ creating = {}
  /\ selected = NoConversation
  /\ mounted = FALSE
  /\ live = NoConversation
  /\ shown = [m \in Ids |-> 0]
  /\ stream = NoStream
  /\ request = [r \in Requests |-> NoRequest]
  /\ mounts = 0

-----------------------------------------------------------------------------
(* The server: rows are stored, and published when they are committed. *)

Insert(c) == Len(stored) < MaxMessages /\ stored' = Append(stored, c)

\* A conversation is created, by this widget or elsewhere: its opening message
\* is not published.
Create(c) ==
  /\ Thread(c) = {}
  /\ Insert(c)
  /\ creating' \in {creating, creating \cup {c}}
  /\ UNCHANGED <<unpublished, view, shown, stream, request>>

\* An analyst replies, or a system message is written.
Store(c) ==
  /\ Thread(c) # {}
  /\ Insert(c)
  /\ unpublished' = unpublished \cup {Len(stored) + 1}
  /\ UNCHANGED <<creating, view, shown, stream, request>>

Subscribed(c) == stream.step = "open" /\ stream.of = c

\* Redis keeps nothing for those who subscribe later.
Publish(m) ==
  /\ m \in unpublished
  /\ unpublished' = unpublished \ {m}
  /\ stream' = IF Subscribed(stored[m]) THEN [stream EXCEPT !.queue = Append(@, m)] ELSE stream
  /\ UNCHANGED <<stored, creating, view, shown, request>>

\* Redis is down: the exception is logged.
PublishFails(m) ==
  /\ m \in unpublished
  /\ unpublished' = unpublished \ {m}
  /\ UNCHANGED <<stored, creating, view, shown, stream, request>>

-----------------------------------------------------------------------------
(* The stream. *)

\* doConnect, and _event_stream up to its subscription.
Connect ==
  /\ stream.step = "waiting"
  /\ stream' = [stream EXCEPT !.step = "open"]
  /\ UNCHANGED <<server, view, shown, request>>

\* Appends a message the list does not have.
Add(m) == shown' = [shown EXCEPT ![m] = IF @ = 0 THEN 1 ELSE @]

DeliverMutant ==   \* no look for the message in the list
  /\ stream.queue # <<>>
  /\ shown' = [shown EXCEPT ![Head(stream.queue)] = @ + 1]
  /\ stream' = [stream EXCEPT !.queue = Tail(@)]
  /\ UNCHANGED <<server, view, request>>

Deliver ==
  /\ stream.queue # <<>>
  /\ Add(Head(stream.queue))
  /\ stream' = [stream EXCEPT !.queue = Tail(@)]
  /\ UNCHANGED <<server, view, request>>

\* Twenty-five seconds without an event: wait_for cancels __anext__, which
\* finishes the listener for good; a heartbeat is sent all the same.
Heartbeat ==
  /\ stream.step = "open"
  /\ stream' = [stream EXCEPT !.step = "spent"]
  /\ UNCHANGED <<server, view, shown, request>>

\* The finished listener raises StopAsyncIteration and the response ends; to
\* the EventSource that is an error, after which it connects anew.
StreamEnds ==
  /\ stream.step = "spent" /\ stream.queue = <<>>
  /\ stream' = [stream EXCEPT !.step = "waiting"]
  /\ UNCHANGED <<server, view, shown, request>>

\* The connection breaks; what was on its way is lost, and Last-Event-ID is
\* not replayed.
StreamBreaks ==
  /\ stream.step \in {"open", "spent"}
  /\ stream' = [stream EXCEPT !.step = "waiting", !.queue = <<>>]
  /\ UNCHANGED <<server, view, shown, request>>

Stream == Connect \/ Deliver \/ Heartbeat \/ StreamEnds \/ StreamBreaks

-----------------------------------------------------------------------------
(* Where the customer is.                                                   *)

AskList(r, c) ==
  /\ request[r] = NoRequest
  /\ request' = [request EXCEPT ![r] = [kind |-> "ask list", of |-> c, answer |-> {}]]

\* What an earlier rendering left to do after the paint is done before the next.
Mount(c) ==
  /\ mounts < MaxMounts
  /\ mounts' = mounts + 1
  /\ mounted => live = selected
  /\ selected' = c
  /\ mounted' = TRUE
  /\ UNCHANGED <<live, stream, request>>

\* navigateToDetail, from the list.
Open(c) ==
  /\ selected = NoConversation
  /\ Thread(c) # {}
  /\ Mount(c)
  /\ UNCHANGED <<server, shown>>

\* The widget is opened again.
Reopen ==
  /\ ~mounted /\ selected # NoConversation
  /\ Mount(selected)
  /\ UNCHANGED <<server, shown>>

\* The answer to createConversation takes the customer to the new thread,
\* wherever he went meanwhile; the list of messages is left as it is, and the
\* effect of a thread that was open stays in force for now.
Answered(c) ==
  /\ c \in creating
  /\ creating' = creating \ {c}
  /\ UNCHANGED <<stored, unpublished, shown>>

Created(c) ==
  /\ Answered(c)
  /\ ~(mounted /\ selected = c)
  /\ Mount(c)

\* The thread is open already, and its effect does not run again.
CreatedHere(c) ==
  /\ Answered(c)
  /\ mounted /\ selected = c
  /\ UNCHANGED <<view, stream, request>>

\* The widget was closed meanwhile.
CreatedUnseen(c) ==
  /\ Answered(c)
  /\ ~mounted
  /\ selected' = c
  /\ UNCHANGED <<mounted, live, mounts, stream, request>>

\* After the paint: the effect of ConversationDetail.  The cleanup of the last
\* one ends its stream and its timer; the list is asked for, and the stream
\* and the timer of the new conversation begin.
Effect(r) ==
  /\ mounted /\ live # selected
  /\ live' = selected
  /\ AskList(r, selected)
  /\ stream' = [NoStream EXCEPT !.step = "waiting", !.of = selected]
  /\ UNCHANGED <<server, selected, mounted, mounts, shown>>

\* The widget is closed, or another view takes the place of the thread.  The
\* component goes away before the browser handles another event, and the
\* cleanup runs with it.
Unmount ==
  /\ mounted' = FALSE
  /\ live' = NoConversation
  /\ stream' = NoStream

Hide ==
  /\ mounted
  /\ Unmount
  /\ UNCHANGED <<server, selected, mounts, shown, request>>

\* navigateToList
LeaveMutant ==   \* no sse.disconnect() in the cleanup
  /\ selected # NoConversation
  /\ selected' = NoConversation
  /\ mounted' = FALSE
  /\ live' = NoConversation
  /\ shown' = [m \in Ids |-> 0]
  /\ UNCHANGED <<server, mounts, stream, request>>

Leave ==
  /\ selected # NoConversation
  /\ selected' = NoConversation
  /\ Unmount
  /\ shown' = [m \in Ids |-> 0]
  /\ UNCHANGED <<server, mounts, request>>

Navigate ==
  \/ Hide \/ Leave \/ Reopen
  \/ \E c \in Conversations : Open(c) \/ Created(c) \/ CreatedHere(c) \/ CreatedUnseen(c)
  \/ \E r \in Requests : Effect(r)

-----------------------------------------------------------------------------
(* Requests. *)

\* setInterval, every five seconds, whether or not the last was answered.
Poll(r) ==
  /\ live # NoConversation
  /\ AskList(r, live)
  /\ UNCHANGED <<server, view, shown, stream>>

\* handleSend; isSending holds the customer back from a second one.
Send(r) ==
  /\ mounted
  /\ request[r] = NoRequest
  /\ \A other \in Requests : request[other].kind \notin {"ask send", "send"}
  /\ request' = [request EXCEPT ![r].kind = "ask send", ![r].of = selected]
  /\ UNCHANGED <<server, view, shown, stream>>

ServeList(r) ==
  /\ request[r].kind = "ask list"
  /\ request' = [request EXCEPT ![r].kind = "list", ![r].answer = Thread(request[r].of)]
  /\ UNCHANGED <<server, view, shown, stream>>

\* (The service publishes before it answers; as an event travels on its own
\* connection, that order shows in nothing the widget receives.)
ServeSend(r) ==
  /\ request[r].kind = "ask send"
  /\ Insert(request[r].of)
  /\ unpublished' = unpublished \cup {Len(stored) + 1}
  /\ request' = [request EXCEPT ![r].kind = "send", ![r].answer = {Len(stored) + 1}]
  /\ UNCHANGED <<creating, view, shown, stream>>

Release(r) == request' = [request EXCEPT ![r] = NoRequest]

LandListMutant(r) ==   \* the answer is merged into the list
  /\ request[r].kind = "list"
  /\ shown' = [m \in Ids |-> IF m \in request[r].answer THEN 1 ELSE shown[m]]
  /\ Release(r)
  /\ UNCHANGED <<server, view, stream>>

LandList(r) ==
  /\ request[r].kind = "list"
  /\ shown' = [m \in Ids |-> IF m \in request[r].answer THEN 1 ELSE 0]
  /\ Release(r)
  /\ UNCHANGED <<server, view, stream>>

LandSend(r) ==
  /\ request[r].kind = "send"
  /\ \E m \in request[r].answer : Add(m)
  /\ Release(r)
  /\ UNCHANGED <<server, view, stream>>

\* No answer, or one that says no: it is caught, and nothing else happens.
Fail(r) ==
  /\ request[r].kind # "none"
  /\ Release(r)
  /\ UNCHANGED <<server, view, shown, stream>>

Serve(r) == ServeList(r) \/ ServeSend(r)
Land(r)  == LandList(r) \/ LandSend(r)

-----------------------------------------------------------------------------
Next ==
  \/ \E c \in Conversations : Create(c) \/ Store(c)
  \/ \E m \in Ids : Publish(m) \/ PublishFails(m)
  \/ Stream
  \/ Navigate
  \/ \E r \in Requests : Poll(r) \/ Send(r) \/ Serve(r) \/ Land(r) \/ Fail(r)

Spec == Init /\ [][Next]_vars

\* The browser paints and runs the effect that is due, which needs no free slot
\* among Requests in fact; its timer goes off again and again, a request does
\* not stay under way for ever, and not every poll fails.  Nothing is assumed of
\* streams and publishing, nor of the customer.
FairSpec ==
  /\ Spec
  /\ SF_vars(\E r \in Requests : Effect(r))
  /\ WF_vars(\E r \in Requests : Poll(r))
  /\ \A r \in Requests : WF_vars(Serve(r) \/ Land(r) \/ Fail(r))
  /\ SF_vars(\E r \in Requests : ServeList(r)) /\ SF_vars(\E r \in Requests : LandList(r))

-----------------------------------------------------------------------------
\* No message is in the list twice, however events, polls and answers to sends
\* overtake each other.
NoDuplicates == \A m \in Ids : shown[m] <= 1

\* A message of another conversation gets into the open thread by the late
\* answer to a request made for that other conversation, or by the stream of the
\* conversation that was open before, until the effect of the one that is shown
\* now has run: a stream outlives its thread no longer than that.
StrangersAreLate ==
  [][\A m \in DOMAIN stored' :
       (shown[m] = 0 /\ shown'[m] > 0 /\ selected # stored'[m]) =>
         \/ \E r \in Requests : Land(r) /\ request[r].of = stored'[m]
         \/ Deliver /\ mounted /\ live = stored'[m]]_vars

Complete(c) == \A m \in Ids : shown[m] = IF m \in Thread(c) THEN 1 ELSE 0

\* Whoever stays with a conversation ends up seeing exactly its messages,
\* although events may be lost, answers late, and lists of other conversations
\* applied: the polling repairs all of it.
SettlesOnThread ==
  \A c \in Conversations :
    <>[](mounted /\ selected = c) => <>[](mounted /\ selected = c /\ Complete(c))

=============================================================================
