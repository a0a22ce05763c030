------------------------ MODULE WidgetConversations ------------------------
(***************************************************************************)
(* What the widget shows of the customer's conversations, where it takes   *)
(* the customer, and the rating he gives at the end.  The list is replaced *)
(* by a fifteen-second polling, patched by the answers to status events    *)
(* and reopenings, and extended by the answer to a creation.  A close      *)
(* leads to the rating form, an accepted rating back to the list by a      *)
(* timer that nobody cancels; answers and timers act wherever the customer *)
(* went meanwhile.                                                         *)
(*                                                                         *)
(* A handler of the server is one step here, except that of the rating;    *)
(* the statements of close and reopen are in ConversationLifecycle, the    *)
(* messages and the stream in LiveThread.  Abstracted: subjects and times, *)
(* tabs, badge, errors shown.  Names ending in Mutant are wrong on         *)
(* purpose, see ConversationRow.                                           *)
(***************************************************************************)
EXTENDS Sequences, ConversationRow

CONSTANTS
  Conversations,  \* of this customer
  NoConversation,
  FirstStatuses,  \* bound: what they may be when the widget is opened
  Ratings,
  NoRating,
  Requests,       \* bound: requests under way at a time
  MaxMoves        \* bound: changes of status by others

ASSUME WidgetAssumption ==
  /\ NoConversation \notin Conversations
  /\ NoRating \notin Ratings
  /\ FirstStatuses \subseteq Statuses \cup {"none"}
  /\ MaxMoves \in Nat

VARIABLES
  status,    \* Conversation.status; "none": there is no such row
  feedback,  \* the rating of the Feedback row; NoRating: there is none
  moves,     \* changes of status by others so far
  listed,    \* the entries of each conversation in the widget's list
  view,      \* currentView
  selected,  \* selectedConversationId
  form,      \* the local state of the form that is shown
  timers,    \* navigateToList timers that run
  request    \* request[r]: what request r is about and how far it is

vars == <<status, feedback, moves, listed, view, selected, form, timers, request>>
rows  == <<status, feedback, moves>>
place == <<view, selected, form, timers>>

-----------------------------------------------------------------------------
Shown == {"none", "active", "awaitingYou", "resolved", "closed"}

\* mapBackendStatus
Seen(s) ==
  CASE s \in {"none", "resolved", "closed"} -> s
    [] s = "waiting_customer" -> "awaitingYou"
    [] OTHER -> "active"

NoAnswer  == [c \in Conversations |-> "none"]
NoRequest == [kind |-> "none", step |-> "asked", of |-> NoConversation,
              rating |-> NoRating, mine |-> FALSE, answer |-> NoAnswer]

\* step: a rating passes the check of the status ("seen") and the search for
\* an earlier one ("new").  mine: the form that sent it is still shown.
Request == [kind : {"none", "list", "get", "row", "create", "close", "reopen", "rate"},
            step : {"asked", "seen", "new", "answered", "refused"},
            of : Conversations \cup {NoConversation}, rating : Ratings \cup {NoRating},
            mine : BOOLEAN, answer : [Conversations -> Shown]]

\* submitting, submitted, and what was submitted.
Form == [step : {"idle", "busy", "thanks"},
         of : Conversations \cup {NoConversation}, rating : Ratings \cup {NoRating}]
Blank == [step |-> "idle", of |-> NoConversation, rating |-> NoRating]

TypeOK ==
  /\ status \in [Conversations -> Statuses \cup {"none"}]
  /\ feedback \in [Conversations -> Ratings \cup {NoRating}]
  /\ moves \in Nat
  /\ listed \in [Conversations -> Seq(Shown)]
  /\ view \in {"list", "detail", "new", "csat"}
  /\ selected \in Conversations \cup {NoConversation}
  /\ form \in Form
  /\ timers \in Nat
  /\ request \in [Requests -> Request]

Init ==
  /\ status \in [Conversations -> FirstStatuses]
  /\ feedback = [c \in Conversations |-> NoRating]
  /\ moves = 0
  /\ listed = [c \in Conversations |-> <<>>]
  /\ view = "list"
  /\ selected = NoConversation
  /\ form = Blank
  /\ timers = 0
  /\ request = [r \in Requests |-> NoRequest]

-----------------------------------------------------------------------------
(* The server. *)

Change(c, s) == status' = [status EXCEPT ![c] = s]

\* Analysts, the idle check, and the customer's messages and other devices.
Others(c) ==
  /\ moves < MaxMoves
  /\ moves' = moves + 1
  /\ \/ ChangedByAnalyst(status[c]) /\ Change(c, "waiting_customer")
     \/ ChangedByCustomer(status[c]) /\ Change(c, "waiting_soc")
     \/ status[c] \in Resolvable /\ Change(c, "resolved")
     \/ status[c] \in Closeable /\ Change(c, "closed")
     \/ status[c] \in Reopenable /\ Change(c, "waiting_soc")
  /\ UNCHANGED <<feedback, listed, place, request>>

Released(r) == [request EXCEPT ![r] = NoRequest]

Asked(r, kind) == request[r].kind = kind /\ request[r].step = "asked"
Advance(r, step) == request' = [request EXCEPT ![r].step = step]

\* The answer holds the row as the handler leaves it.  (A "row" is what get and
\* reopen are answered with.)
AnswerRow(r, kind, s) ==
  request' = [request EXCEPT ![r].step = "answered", ![r].kind = kind,
                             ![r].answer = [NoAnswer EXCEPT ![request[r].of] = Seen(s)]]

ServeList(r) ==
  /\ Asked(r, "list")
  /\ request' = [request EXCEPT ![r].step = "answered",
                                ![r].answer = [c \in Conversations |-> Seen(status[c])]]
  /\ UNCHANGED <<rows, listed, place>>

ServeGet(r) ==
  /\ Asked(r, "get")
  /\ AnswerRow(r, "row", status[request[r].of])
  /\ UNCHANGED <<rows, listed, place>>

ServeCreate(r) ==
  /\ Asked(r, "create")
  /\ status' = [status EXCEPT ![request[r].of] = "queued"]
  /\ AnswerRow(r, "create", "queued")
  /\ UNCHANGED <<feedback, moves, listed, place>>

ServeClose(r) ==
  /\ Asked(r, "close")
  /\ status[request[r].of] \in Closeable
  /\ Change(request[r].of, "closed")
  /\ Advance(r, "answered")
  /\ UNCHANGED <<feedback, moves, listed, place>>

ServeReopen(r) ==
  /\ Asked(r, "reopen")
  /\ status[request[r].of] \in Reopenable
  /\ Change(request[r].of, "waiting_soc")
  /\ AnswerRow(r, "row", "waiting_soc")
  /\ UNCHANGED <<feedback, moves, listed, place>>

\* ConversationFeedbackView reads the row, looks for an earlier rating, and
\* inserts; the key is one-to-one.
RateCheck(r) ==
  /\ Asked(r, "rate")
  /\ status[request[r].of] \in Reopenable
  /\ Advance(r, "seen")
  /\ UNCHANGED <<rows, listed, place>>

RateLookMutant(r) ==   \* an earlier rating is taken for this one
  /\ request[r].step = "seen"
  /\ Advance(r, IF feedback[request[r].of] = NoRating THEN "new" ELSE "answered")
  /\ UNCHANGED <<rows, listed, place>>

RateLook(r) ==
  /\ request[r].step = "seen"
  /\ feedback[request[r].of] = NoRating
  /\ Advance(r, "new")
  /\ UNCHANGED <<rows, listed, place>>

RateStoreMutant(r) ==   \* update_or_create
  /\ request[r].step = "new"
  /\ feedback' = [feedback EXCEPT ![request[r].of] = request[r].rating]
  /\ request' = [request EXCEPT ![r] = [NoRequest EXCEPT !.kind = "rate",
                                          !.step = "answered", !.mine = request[r].mine]]
  /\ UNCHANGED <<status, moves, listed, place>>

RateStore(r) ==
  /\ request[r].step = "new"
  /\ feedback[request[r].of] = NoRating
  /\ feedback' = [feedback EXCEPT ![request[r].of] = request[r].rating]
  /\ request' = [request EXCEPT ![r] = [NoRequest EXCEPT !.kind = "rate",
                                          !.step = "answered", !.mine = request[r].mine]]
  /\ UNCHANGED <<status, moves, listed, place>>

\* The two forms have to learn that a request failed; the others log it.
Turn(r) ==
  request' = IF request[r].kind \in {"create", "rate"}
             THEN [request EXCEPT ![r] = [NoRequest EXCEPT !.kind = request[r].kind,
                                            !.step = "refused", !.mine = request[r].mine]]
             ELSE Released(r)

\* 400, 409, or 500 for the violated key.
Refuse(r) ==
  /\ LET c == request[r].of
     IN \/ Asked(r, "close") /\ status[c] \notin Closeable
        \/ Asked(r, "reopen") /\ status[c] \notin Reopenable
        \/ Asked(r, "rate") /\ status[c] \notin Reopenable
        \/ request[r].step \in {"seen", "new"} /\ feedback[c] # NoRating
  /\ Turn(r)
  /\ UNCHANGED <<rows, listed, place>>

\* No answer, or one that gets lost.
Fail(r) ==
  /\ request[r].kind # "none" /\ request[r].step # "refused"
  /\ Turn(r)
  /\ UNCHANGED <<rows, listed, place>>

Serve(r) ==
  \/ ServeList(r) \/ ServeGet(r) \/ ServeCreate(r) \/ ServeClose(r) \/ ServeReopen(r)
  \/ RateCheck(r) \/ RateLook(r) \/ RateStore(r) \/ Refuse(r)

-----------------------------------------------------------------------------
(* Where the customer is. *)

\* Another view, or another conversation, is shown; pending are the requests
\* that stay under way.  A form that is left forgets its state, and its
\* requests no longer reach it.
Show(v, c, pending) ==
  /\ view' = v /\ selected' = c
  /\ IF v = view
     THEN form' = form /\ request' = pending
     ELSE form' = Blank /\ request' = [r \in Requests |-> [pending[r] EXCEPT !.mine = FALSE]]

\* The widget is closed, and later opened again on the same view.  In between
\* answers and timers act as ever; the customer and the polling pause.
Reshow ==
  /\ form' = Blank
  /\ request' = [r \in Requests |-> [request[r] EXCEPT !.mine = FALSE]]
  /\ UNCHANGED <<rows, listed, view, selected, timers>>

\* Back, Skip and Cancel.
Back ==
  /\ view # "list"
  /\ Show("list", NoConversation, request)
  /\ UNCHANGED <<rows, listed, timers>>

Choose(c) ==
  /\ view = "list" /\ listed[c] # <<>>
  /\ Show("detail", c, request)
  /\ UNCHANGED <<rows, listed, timers>>

\* From the list, or by the host application from anywhere.
New ==
  /\ Show("new", selected, request)
  /\ UNCHANGED <<rows, listed, timers>>

TimerFires ==
  /\ timers > 0
  /\ timers' = timers - 1
  /\ Show("list", NoConversation, request)
  /\ UNCHANGED <<rows, listed>>

-----------------------------------------------------------------------------
(* What it asks for. *)

\* (Requests are alike: each takes a certain one of those that are free.)
Ask(r, new) ==
  /\ request[r].kind = "none"
  /\ r = CHOOSE q \in Requests : request[q].kind = "none"
  /\ request' = [request EXCEPT ![r] = new]

\* When the widget starts or is opened, when its token is renewed, and every
\* fifteen seconds while it is open.
Poll(r) ==
  /\ Ask(r, [NoRequest EXCEPT !.kind = "list"])
  /\ UNCHANGED <<rows, listed, place>>

\* A status event of the open thread, sooner or later after the change, or never.
Hear(r) ==
  /\ view = "detail" /\ selected # NoConversation
  /\ Ask(r, [NoRequest EXCEPT !.kind = "get", !.of = selected])
  /\ UNCHANGED <<rows, listed, place>>

\* handleSubmit of the form for a new conversation.
Create(r, c) ==
  /\ view = "new" /\ form.step = "idle"
  /\ status[c] = "none" /\ \A q \in Requests : request[q].of # c
  /\ form' = [form EXCEPT !.step = "busy"]
  /\ Ask(r, [NoRequest EXCEPT !.kind = "create", !.of = c, !.mine = TRUE])
  /\ UNCHANGED <<rows, listed, view, selected, timers>>

\* The banner offers what fits the status that is shown.
Offered(shown) ==
  /\ view = "detail" /\ selected # NoConversation
  /\ listed[selected] # <<>> /\ Head(listed[selected]) \in shown

Close(r) ==
  /\ Offered({"resolved"})
  /\ Ask(r, [NoRequest EXCEPT !.kind = "close", !.of = selected])
  /\ UNCHANGED <<rows, listed, place>>

Reopen(r) ==
  /\ Offered({"resolved", "closed"})
  /\ Ask(r, [NoRequest EXCEPT !.kind = "reopen", !.of = selected])
  /\ UNCHANGED <<rows, listed, place>>

\* handleRate; without a conversation it does nothing.
Rate(r, rating) ==
  /\ view = "csat" /\ form.step = "idle" /\ selected # NoConversation
  /\ form' = [step |-> "busy", of |-> selected, rating |-> rating]
  /\ Ask(r, [NoRequest EXCEPT !.kind = "rate", !.of = selected, !.rating = rating, !.mine = TRUE])
  /\ UNCHANGED <<rows, listed, view, selected, timers>>

-----------------------------------------------------------------------------
(* The answers, wherever the customer is by then. *)

Answered(r, kind) == request[r].kind = kind /\ request[r].step = "answered"

LandListMutant(r) ==   \* adds what is new, and leaves what it has
  /\ Answered(r, "list")
  /\ listed' = [c \in Conversations |->
       IF request[r].answer[c] = "none" \/ listed[c] # <<>> THEN listed[c]
       ELSE <<request[r].answer[c]>>]
  /\ request' = Released(r)
  /\ UNCHANGED <<rows, place>>

LandList(r) ==
  /\ Answered(r, "list")
  /\ listed' = [c \in Conversations |->
       IF request[r].answer[c] = "none" THEN <<>> ELSE <<request[r].answer[c]>>]
  /\ request' = Released(r)
  /\ UNCHANGED <<rows, place>>

\* Every entry of the conversation is replaced.
LandRow(r) ==
  /\ Answered(r, "row")
  /\ LET c == request[r].of
     IN listed' = [listed EXCEPT ![c] = [i \in DOMAIN @ |-> request[r].answer[c]]]
  /\ request' = Released(r)
  /\ UNCHANGED <<rows, place>>

\* A poll may have brought the new conversation before its own answer does.
LandCreate(r) ==
  /\ Answered(r, "create")
  /\ LET c == request[r].of
     IN /\ listed' = [listed EXCEPT ![c] = <<request[r].answer[c]>> \o @]
        /\ Show("detail", c, Released(r))
  /\ UNCHANGED <<rows, timers>>

\* navigateToCsat, for whatever conversation is selected now.
LandClose(r) ==
  /\ Answered(r, "close")
  /\ Show("csat", selected, Released(r))
  /\ UNCHANGED <<rows, listed, timers>>

LandRateMutant(r) ==   \* no timer when the form has gone
  /\ Answered(r, "rate")
  /\ form' = IF request[r].mine THEN [form EXCEPT !.step = "thanks"] ELSE form
  /\ request' = Released(r)
  /\ UNCHANGED <<rows, listed, view, selected, timers>>

LandRate(r) ==
  /\ Answered(r, "rate")
  /\ form' = IF request[r].mine THEN [form EXCEPT !.step = "thanks"] ELSE form
  /\ timers' = timers + 1
  /\ request' = Released(r)
  /\ UNCHANGED <<rows, listed, view, selected>>

\* A failed rating leads to the list too.
LandRefusal(r) ==
  /\ request[r].kind = "rate" /\ request[r].step = "refused"
  /\ Show("list", NoConversation, Released(r))
  /\ UNCHANGED <<rows, listed, timers>>

\* The form for a new conversation shows the error, and may be sent again.
LandError(r) ==
  /\ request[r].kind = "create" /\ request[r].step = "refused"
  /\ form' = IF request[r].mine THEN Blank ELSE form
  /\ request' = Released(r)
  /\ UNCHANGED <<rows, listed, view, selected, timers>>

Land(r) ==
  \/ LandList(r) \/ LandRow(r) \/ LandCreate(r) \/ LandClose(r) \/ LandRate(r)
  \/ LandRefusal(r) \/ LandError(r)

-----------------------------------------------------------------------------
Next ==
  \/ \E c \in Conversations : Others(c)
  \/ Reshow \/ Back \/ New \/ TimerFires
  \/ \E c \in Conversations : Choose(c)
  \/ \E r \in Requests :
       \/ Poll(r) \/ Hear(r) \/ Close(r) \/ Reopen(r)
       \/ \E c \in Conversations : Create(r, c)
       \/ \E rating \in Ratings : Rate(r, rating)
       \/ Serve(r) \/ Fail(r) \/ Land(r)

Spec == Init /\ [][Next]_vars

\* A widget that is kept open: its polling goes on although other requests come
\* and go (strong only because the bound Requests makes them wait for each other),
\* a request does not stay under way for ever, and not every poll fails.
FairSpec ==
  /\ Spec
  /\ SF_vars(\E r \in Requests : Poll(r))
  /\ \A r \in Requests :
       WF_vars(Serve(r) \/ Fail(r) \/ Land(r)) /\ SF_vars(ServeList(r)) /\ SF_vars(LandList(r))

-----------------------------------------------------------------------------
\* A conversation is rated once: of two ratings that overlap, after a way back
\* through the list, only the first is stored, and it stays.
FeedbackKept ==
  [][\A c \in Conversations : feedback[c] # NoRating => feedback'[c] = feedback[c]]_vars

\* Whoever is thanked for a rating has that rating stored, for the conversation
\* he rated, whatever other ratings, remounts and reopenings did meanwhile.
ThankedIsStored == form.step = "thanks" => feedback[form.of] = form.rating

\* No form is stuck: one that waits has its request under way, one that gives
\* thanks a timer running, whichever other request or timer acted meanwhile.
FormsGoOn ==
  /\ form.step = "busy" => \E r \in Requests : request[r].mine
  /\ form.step = "thanks" => timers > 0

\* Once a status changes no more, a widget that is kept open ends up showing it,
\* in one entry, although answers overtake each other and events are lost.
SettlesOnStatus ==
  \A c \in Conversations :
    <>[](status[c] # "none") /\ <>[][status'[c] = status[c]]_vars =>
      <>[](listed[c] = <<Seen(status[c])>>)

=============================================================================
