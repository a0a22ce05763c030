--------------------- MODULE WidgetConversations_proofs ---------------------
(***************************************************************************)
(* Proofs about WidgetConversations, for any number of conversations,      *)
(* ratings, requests under way and changes by others.                      *)
(*                                                                         *)
(* The invariant ties the form that is shown to the one request it waits   *)
(* for: only a form's own request is marked as its own, it carries what    *)
(* the form submitted, and once it is answered the rating is stored.       *)
(***************************************************************************)
EXTENDS WidgetConversations, TLAPS

\* A form with something in it is in its own view.
Placed ==
  /\ form.step # "idle" => view \in {"new", "csat"}
  /\ form.step = "thanks" =>
       view = "csat" /\ form.of \in Conversations /\ form.rating \in Ratings

\* Only ratings go through the checks of the feedback view.
Checked == \A r \in Requests : request[r].step \in {"seen", "new"} => request[r].kind = "rate"

\* What the request of a waiting rating form carries, and has done.
Carries(r) ==
  /\ form.rating \in Ratings /\ form.of \in Conversations
  /\ request[r].step \in {"asked", "seen", "new"} =>
       request[r].of = form.of /\ request[r].rating = form.rating
  /\ request[r].step = "answered" => feedback[form.of] = form.rating

Awaited ==
  \A r \in Requests : request[r].mine =>
    /\ form.step = "busy"
    /\ \A q \in Requests : request[q].mine => q = r
    /\ \/ request[r].kind = "create" /\ view = "new"
       \/ request[r].kind = "rate" /\ view = "csat" /\ Carries(r)

Forms == Placed /\ Checked /\ Awaited /\ FormsGoOn /\ ThankedIsStored

Inv == TypeOK /\ Forms

-----------------------------------------------------------------------------
\* The request that is none and the form that is blank.
LEMMA RequestTypes ==
  /\ NoRequest \in Request
  /\ NoRequest.mine = FALSE /\ NoRequest.step = "asked" /\ NoRequest.kind = "none"
  /\ Blank \in Form /\ Blank.step = "idle"
  BY DEF NoRequest, NoAnswer, Request, Shown, Blank, Form

\* Whatever the status, the widget has a word for it.
LEMMA SeenType == \A s : Seen(s) \in Shown
  BY DEF Seen, Shown

\* A view that is shown takes its form along, and leaves the rest in place.
LEMMA ShowTypes ==
  ASSUME TypeOK, NEW v \in {"list", "detail", "new", "csat"},
         NEW c \in Conversations \cup {NoConversation},
         NEW pending \in [Requests -> Request], Show(v, c, pending)
  PROVE  /\ view' \in {"list", "detail", "new", "csat"}
         /\ selected' \in Conversations \cup {NoConversation}
         /\ form' \in Form
         /\ request' \in [Requests -> Request]
<1>1. \A r \in Requests : [pending[r] EXCEPT !.mine = FALSE] \in Request
  BY DEF Request
<1>2. [r \in Requests |-> [pending[r] EXCEPT !.mine = FALSE]] \in [Requests -> Request]
  BY <1>1
<1> QED
  BY <1>2, RequestTypes DEF TypeOK, Show

\* A request that was dealt with is a request.
LEMMA ReleaseTypes ==
  ASSUME TypeOK, NEW r \in Requests
  PROVE  Released(r) \in [Requests -> Request]
  BY RequestTypes DEF TypeOK, Released

\* So is one that was just made.
LEMMA AskTypes ==
  ASSUME TypeOK, NEW r \in Requests, NEW new \in Request, Ask(r, new)
  PROVE  request' \in [Requests -> Request]
  BY DEF TypeOK, Ask

\* Serving and failing keep the types.
LEMMA ServeTypes ==
  ASSUME TypeOK, NEW r \in Requests, Serve(r) \/ Fail(r)
  PROVE  TypeOK'
<1>1. request[r] \in Request
  BY DEF TypeOK
<1>2. CASE ServeList(r)
  <2>1. [c \in Conversations |-> Seen(status[c])] \in [Conversations -> Shown]
    BY SeenType
  <2>2. request' \in [Requests -> Request]
    BY <1>1, <1>2, <2>1 DEF ServeList, TypeOK, Request
  <2> QED
    BY <1>2, <2>2 DEF ServeList, rows, place, TypeOK
<1>3. ASSUME NEW kind \in {"row", "create"}, NEW s, AnswerRow(r, kind, s)
      PROVE  request' \in [Requests -> Request]
  <2>1. [NoAnswer EXCEPT ![request[r].of] = Seen(s)] \in [Conversations -> Shown]
    BY SeenType DEF NoAnswer, Shown
  <2> QED
    BY <1>1, <1>3, <2>1 DEF AnswerRow, TypeOK, Request
<1>4. ASSUME NEW step \in {"asked", "seen", "new", "answered", "refused"}, Advance(r, step)
      PROVE  request' \in [Requests -> Request]
  BY <1>1, <1>4 DEF Advance, TypeOK, Request
<1>5. ASSUME Turn(r) PROVE request' \in [Requests -> Request]
  BY <1>1, <1>5, ReleaseTypes, RequestTypes DEF Turn, TypeOK, Request
<1>6. ASSUME NEW s \in Statuses, Change(request[r].of, s)
      PROVE  status' \in [Conversations -> Statuses \cup {"none"}]
  BY <1>6 DEF Change, TypeOK
<1>7. CASE ServeGet(r)
  BY <1>7, <1>3 DEF ServeGet, rows, place, TypeOK
<1>8. CASE ServeCreate(r)
  <2>1. status' \in [Conversations -> Statuses \cup {"none"}]
    BY <1>8 DEF ServeCreate, TypeOK, Statuses
  <2> QED
    BY <1>8, <1>3, <2>1 DEF ServeCreate, place, TypeOK
<1>9. CASE ServeClose(r)
  BY <1>9, <1>4, <1>6 DEF ServeClose, place, TypeOK, Statuses
<1>10. CASE ServeReopen(r)
  BY <1>10, <1>3, <1>6 DEF ServeReopen, place, TypeOK, Statuses
<1>11. CASE RateCheck(r)
  BY <1>11, <1>4 DEF RateCheck, rows, place, TypeOK
<1>12. CASE RateLook(r)
  BY <1>12, <1>4 DEF RateLook, rows, place, TypeOK
<1>13. CASE RateStore(r)
  <2>1. request' \in [Requests -> Request]
    BY <1>1, <1>13, RequestTypes DEF RateStore, TypeOK, Request
  <2>2. feedback' \in [Conversations -> Ratings \cup {NoRating}]
    BY <1>1, <1>13 DEF RateStore, TypeOK, Request
  <2> QED
    BY <1>13, <2>1, <2>2 DEF RateStore, place, TypeOK
<1>14. CASE Refuse(r)
  BY <1>14, <1>5 DEF Refuse, rows, place, TypeOK
<1>15. CASE Fail(r)
  BY <1>15, <1>5 DEF Fail, rows, place, TypeOK
<1> QED
  BY <1>2, <1>7, <1>8, <1>9, <1>10, <1>11, <1>12, <1>13, <1>14, <1>15 DEF Serve

\* Landing an answer keeps the types.
LEMMA LandTypes ==
  ASSUME TypeOK, NEW r \in Requests, Land(r)
  PROVE  TypeOK'
<1>1. request[r] \in Request /\ Released(r) \in [Requests -> Request]
  BY ReleaseTypes DEF TypeOK
<1>2. CASE LandList(r)
  <2>1. listed' \in [Conversations -> Seq(Shown)]
    BY <1>1, <1>2 DEF LandList, Request
  <2> QED
    BY <1>1, <1>2, <2>1 DEF LandList, rows, place, TypeOK
<1>3. CASE LandRow(r)
  <2> DEFINE c == request[r].of
  <2>1. ASSUME c \in Conversations
        PROVE  [i \in DOMAIN listed[c] |-> request[r].answer[c]] \in Seq(Shown)
    <3>1. request[r].answer[c] \in Shown /\ listed[c] \in Seq(Shown)
      BY <1>1, <2>1 DEF Request, TypeOK
    <3> QED
      BY <3>1
  <2>2. listed' \in [Conversations -> Seq(Shown)]
    BY <1>3, <2>1 DEF LandRow, TypeOK
  <2> QED
    BY <1>1, <1>3, <2>2 DEF LandRow, rows, place, TypeOK
<1>4. CASE LandCreate(r)
  <2> DEFINE c == request[r].of
  <2>1. ASSUME c \in Conversations
        PROVE  <<request[r].answer[c]>> \o listed[c] \in Seq(Shown)
    <3>1. request[r].answer[c] \in Shown /\ listed[c] \in Seq(Shown)
      BY <1>1, <2>1 DEF Request, TypeOK
    <3> QED
      BY <3>1
  <2>2. listed' \in [Conversations -> Seq(Shown)]
    BY <1>4, <2>1 DEF LandCreate, TypeOK
  <2>3. c \in Conversations \cup {NoConversation} /\ Show("detail", c, Released(r))
    BY <1>1, <1>4 DEF LandCreate, Request
  <2> QED
    BY <1>1, <1>4, <2>2, <2>3, ShowTypes DEF LandCreate, rows, TypeOK
<1>5. CASE LandClose(r)
  <2>1. selected \in Conversations \cup {NoConversation} /\ Show("csat", selected, Released(r))
    BY <1>5 DEF LandClose, TypeOK
  <2> QED
    BY <1>1, <1>5, <2>1, ShowTypes DEF LandClose, rows, TypeOK
<1>6. CASE LandRate(r)
  <2>1. [form EXCEPT !.step = "thanks"] \in Form
    BY DEF TypeOK, Form
  <2> QED
    BY <1>1, <1>6, <2>1 DEF LandRate, rows, TypeOK
<1>7. CASE LandRefusal(r)
  <2>1. Show("list", NoConversation, Released(r))
    BY <1>7 DEF LandRefusal
  <2> QED
    BY <1>1, <1>7, <2>1, ShowTypes DEF LandRefusal, rows, TypeOK
<1>8. CASE LandError(r)
  BY <1>1, <1>8, RequestTypes DEF LandError, rows, TypeOK
<1> QED
  BY <1>2, <1>3, <1>4, <1>5, <1>6, <1>7, <1>8 DEF Land

\* Every step keeps the types.
LEMMA TypeStep == TypeOK /\ [Next]_vars => TypeOK'
<1> SUFFICES ASSUME TypeOK, [Next]_vars PROVE TypeOK'
  OBVIOUS
<1>1. ASSUME NEW c \in Conversations, Others(c) PROVE TypeOK'
  <2>1. ASSUME NEW s \in Statuses, Change(c, s)
        PROVE  status' \in [Conversations -> Statuses \cup {"none"}]
    BY <2>1 DEF Change, TypeOK
  <2>2. {"waiting_customer", "waiting_soc", "resolved", "closed"} \subseteq Statuses
    BY DEF Statuses
  <2>3. status' \in [Conversations -> Statuses \cup {"none"}]
    BY <1>1, <2>1, <2>2 DEF Others
  <2> QED
    BY <1>1, <2>3 DEF Others, place, TypeOK
<1>2. CASE Reshow
  <2>1. \A r \in Requests : [request[r] EXCEPT !.mine = FALSE] \in Request
    BY DEF TypeOK, Request
  <2>2. request' \in [Requests -> Request]
    BY <1>2, <2>1 DEF Reshow
  <2> QED
    BY <1>2, <2>2, RequestTypes DEF Reshow, rows, TypeOK
<1>3. CASE Back
  BY <1>3, ShowTypes DEF Back, rows, TypeOK
<1>4. ASSUME NEW c \in Conversations, Choose(c) PROVE TypeOK'
  BY <1>4, ShowTypes DEF Choose, rows, TypeOK
<1>5. CASE New
  BY <1>5, ShowTypes DEF New, rows, TypeOK
<1>6. CASE TimerFires
  <2>1. timers' \in Nat
    BY <1>6 DEF TimerFires, TypeOK
  <2>2. Show("list", NoConversation, request)
    BY <1>6 DEF TimerFires
  <2>3. /\ view' \in {"list", "detail", "new", "csat"}
        /\ selected' \in Conversations \cup {NoConversation}
        /\ form' \in Form
        /\ request' \in [Requests -> Request]
    BY <2>2, ShowTypes DEF TypeOK
  <2> QED
    BY <1>6, <2>1, <2>3 DEF TimerFires, rows, TypeOK
<1>7. ASSUME NEW r \in Requests, Poll(r) \/ Hear(r) \/ Close(r) \/ Reopen(r) PROVE TypeOK'
  <2>1. selected \in Conversations \cup {NoConversation}
    BY DEF TypeOK
  <2>2. request' \in [Requests -> Request]
    BY <1>7, <2>1, RequestTypes, AskTypes DEF Poll, Hear, Close, Reopen, Request
  <2> QED
    BY <1>7, <2>2 DEF Poll, Hear, Close, Reopen, rows, place, TypeOK
<1>8. ASSUME NEW r \in Requests, NEW c \in Conversations, Create(r, c) PROVE TypeOK'
  <2>1. request' \in [Requests -> Request]
    BY <1>8, RequestTypes, AskTypes DEF Create, Request
  <2> QED
    BY <1>8, <2>1 DEF Create, rows, TypeOK, Form
<1>9. ASSUME NEW r \in Requests, NEW rating \in Ratings, Rate(r, rating) PROVE TypeOK'
  <2>1. selected \in Conversations \cup {NoConversation}
    BY DEF TypeOK
  <2>2. request' \in [Requests -> Request]
    BY <1>9, <2>1, RequestTypes, AskTypes DEF Rate, Request
  <2> QED
    BY <1>9, <2>1, <2>2 DEF Rate, rows, TypeOK, Form
<1>10. CASE UNCHANGED vars
  BY <1>10 DEF vars, TypeOK
<1> QED
  BY <1>1, <1>2, <1>3, <1>4, <1>5, <1>6, <1>7, <1>8, <1>9, <1>10, ServeTypes, LandTypes DEF Next

-----------------------------------------------------------------------------
\* One request goes on, the form stays as it is: if it is the form's own
\* request, it still carries what the form submitted, and is not answered
\* before the rating is stored.
LEMMA RequestGoesOn ==
  ASSUME Inv, NEW r \in Requests,
         UNCHANGED <<view, form, timers>>,
         \A q \in Requests \ {r} : request'[q] = request[q],
         request'[r].mine = request[r].mine,
         request[r].mine => request'[r].kind = request[r].kind,
         request'[r].step \in {"seen", "new"} => request'[r].kind = "rate",
         request[r].mine /\ request'[r].step \in {"asked", "seen", "new"} =>
           /\ request[r].step \in {"asked", "seen", "new"}
           /\ request'[r].of = request[r].of /\ request'[r].rating = request[r].rating,
         request[r].mine /\ request[r].kind = "rate" /\ request'[r].step = "answered" =>
           request[r].step = "answered" \/ feedback'[form.of] = form.rating,
         \A c \in Conversations : feedback[c] # NoRating => feedback'[c] = feedback[c]
  PROVE  Forms'
<1>1. Placed'
  BY DEF Inv, Forms, Placed
<1>2. Checked'
  BY DEF Inv, Forms, Checked
<1>3. FormsGoOn'
  <2>1. \A q \in Requests : request'[q].mine = request[q].mine
    OBVIOUS
  <2> QED
    BY <2>1 DEF Inv, Forms, FormsGoOn
<1>4. ASSUME form.of \in Conversations, form.rating \in Ratings, feedback[form.of] = form.rating
      PROVE  feedback'[form.of] = form.rating
  BY <1>4, WidgetAssumption
<1>5. ThankedIsStored'
  BY <1>4 DEF Inv, Forms, ThankedIsStored, Placed
<1>6. Awaited'
  <2> SUFFICES ASSUME NEW q \in Requests, request'[q].mine
               PROVE  /\ form.step = "busy"
                      /\ \A p \in Requests : request'[p].mine => p = q
                      /\ \/ request'[q].kind = "create" /\ view = "new"
                         \/ request'[q].kind = "rate" /\ view = "csat" /\ Carries(q)'
    BY DEF Awaited
  <2>1. request[q].mine /\ \A p \in Requests : request'[p].mine = request[p].mine
    OBVIOUS
  <2>2. /\ form.step = "busy"
        /\ \A p \in Requests : request[p].mine => p = q
        /\ \/ request[q].kind = "create" /\ view = "new"
           \/ request[q].kind = "rate" /\ view = "csat" /\ Carries(q)
    BY <2>1 DEF Inv, Forms, Awaited
  <2>3. request'[q].kind = request[q].kind
    BY <2>1
  <2>4. ASSUME request[q].kind = "rate", Carries(q) PROVE Carries(q)'
    <3>1. CASE q = r
      BY <1>4, <2>1, <2>4, <3>1 DEF Carries
    <3>2. CASE q # r
      BY <1>4, <2>1, <2>4, <3>2 DEF Carries
    <3> QED
      BY <3>1, <3>2
  <2> QED
    BY <2>1, <2>2, <2>3, <2>4
<1> QED
  BY <1>1, <1>2, <1>3, <1>5, <1>6 DEF Forms

\* A view is shown: it is another one and forgets the form, or the form and its
\* request stay.
LEMMA ViewIsShown ==
  ASSUME Inv, NEW v, NEW c, NEW pending \in [Requests -> Request], Show(v, c, pending),
         \A q \in Requests : pending[q].mine => pending[q] = request[q],
         \A q \in Requests : request[q].mine => v # view \/ pending[q] = request[q],
         \A q \in Requests : pending[q].step \in {"seen", "new"} => pending[q].kind = "rate",
         timers' = timers \/ v # view \/ form.step # "thanks",
         UNCHANGED feedback
  PROVE  Forms'
<1>1. CASE v # view
  <2>1. /\ form' = Blank
        /\ request' = [q \in Requests |-> [pending[q] EXCEPT !.mine = FALSE]]
    BY <1>1 DEF Show
  <2>2. \A q \in Requests : /\ request'[q].mine = FALSE
                            /\ request'[q].step = pending[q].step
                            /\ request'[q].kind = pending[q].kind
    BY <2>1 DEF Request
  <2> QED
    BY <2>1, <2>2, RequestTypes DEF Forms, Placed, Checked, Awaited, FormsGoOn, ThankedIsStored
<1>2. CASE v = view
  <2>1. view' = view /\ form' = form /\ request' = pending
    BY <1>2 DEF Show
  <2>2. \A q \in Requests : pending[q].mine = request[q].mine
    <3>1. \A q \in Requests : pending[q].mine \in BOOLEAN /\ request[q].mine \in BOOLEAN
      <4>1. request \in [Requests -> Request]
        BY DEF Inv, TypeOK
      <4> QED
        BY <4>1 DEF Request
    <3>2. \A q \in Requests : pending[q].mine => request[q].mine
      BY Zenon
    <3>3. \A q \in Requests : request[q].mine => pending[q].mine
      BY <1>2, Zenon
    <3> QED
      BY <3>1, <3>2, <3>3, Zenon
  <2>3. Placed' /\ Checked' /\ ThankedIsStored'
    BY <2>1 DEF Inv, Forms, Placed, Checked, ThankedIsStored
  <2>4. FormsGoOn'
    BY <1>2, <2>1, <2>2 DEF Inv, Forms, FormsGoOn
  <2>5. Awaited'
    BY <2>1, <2>2 DEF Inv, Forms, Awaited, Carries
  <2> QED
    BY <2>3, <2>4, <2>5 DEF Forms
<1> QED
  BY <1>1, <1>2

\* Stored ratings stay: only RateStore inserts one, and only where there is none.
LEMMA RatingsStay ==
  ASSUME TypeOK, [Next]_vars
  PROVE  \A c \in Conversations : feedback[c] # NoRating => feedback'[c] = feedback[c]
<1>1. CASE \E r \in Requests : RateStore(r)
  BY <1>1 DEF RateStore, TypeOK
<1>2. CASE ~ \E r \in Requests : RateStore(r)
  <2>1. UNCHANGED feedback
    BY <1>2 DEF Next, vars, rows, Others, Reshow, Back, Choose, New, TimerFires, Poll, Hear, Create,
         Close, Reopen, Rate, Serve, ServeList, ServeGet, ServeCreate, ServeClose, ServeReopen,
         RateCheck, RateLook, Refuse, Fail, Land, LandList, LandRow, LandCreate, LandClose,
         LandRate, LandRefusal, LandError
  <2> QED
    BY <2>1
<1> QED
  BY <1>1, <1>2

-----------------------------------------------------------------------------
\* The server's steps keep what is said of forms: a rating found or stored is
\* the form's own, or the first one's, and the answer says which.
LEMMA ServeKeepsForms ==
  ASSUME Inv, TypeOK', [Next]_vars, NEW r \in Requests, Serve(r) \/ Fail(r)
  PROVE  Forms'
<1>1. request[r] \in Request /\ TypeOK
  BY DEF Inv, TypeOK
<1>2. \A c \in Conversations : feedback[c] # NoRating => feedback'[c] = feedback[c]
  BY <1>1, RatingsStay
<1>3. request[r].mine => request[r].kind \in {"create", "rate"}
  BY DEF Inv, Forms, Awaited
<1>4. UNCHANGED <<view, form, timers>>
  BY DEF Serve, ServeList, ServeGet, ServeCreate, ServeClose, ServeReopen, RateCheck, RateLook,
         RateStore, Refuse, Fail, place
<1>5. ASSUME NEW step \in {"asked", "seen", "new", "answered", "refused"}, Advance(r, step)
      PROVE  /\ \A q \in Requests \ {r} : request'[q] = request[q]
             /\ request'[r] = [request[r] EXCEPT !.step = step]
  BY <1>1, <1>5 DEF Advance, TypeOK
<1>6. ASSUME NEW kind, NEW s, AnswerRow(r, kind, s)
      PROVE  /\ \A q \in Requests \ {r} : request'[q] = request[q]
             /\ request'[r].mine = request[r].mine /\ request'[r].kind = kind
             /\ request'[r].step = "answered"
  BY <1>1, <1>6 DEF AnswerRow, TypeOK, Request
<1>7. ASSUME Turn(r), request[r].mine => request[r].kind \in {"create", "rate"}
      PROVE  /\ \A q \in Requests \ {r} : request'[q] = request[q]
             /\ request'[r].mine = request[r].mine
             /\ request[r].mine => request'[r].kind = request[r].kind
             /\ request'[r].step \in {"asked", "refused"}
             /\ request[r].mine => request'[r].step = "refused"
  <2>1. CASE request[r].kind \in {"create", "rate"}
    BY <1>1, <1>7, <2>1 DEF Turn, TypeOK, NoRequest, Request
  <2>2. CASE request[r].kind \notin {"create", "rate"}
    <3>1. ~request[r].mine /\ request[r].mine = FALSE
      BY <1>1, <1>7, <2>2 DEF Request
    <3> QED
      BY <1>1, <1>7, <2>2, <3>1 DEF Turn, Released, TypeOK, NoRequest
  <2> QED
    BY <2>1, <2>2
<1>8. CASE ServeList(r)
  <2>1. /\ \A q \in Requests \ {r} : request'[q] = request[q]
        /\ request'[r].mine = request[r].mine /\ request'[r].step = "answered"
    BY <1>1, <1>8 DEF ServeList, TypeOK, Request
  <2>2. ~request[r].mine
    BY <1>3, <1>8 DEF ServeList, Asked
  <2> QED
    BY <1>2, <1>4, <2>1, <2>2, RequestGoesOn
<1>9. CASE ServeGet(r) \/ ServeReopen(r)
  <2>1. /\ \A q \in Requests \ {r} : request'[q] = request[q]
        /\ request'[r].mine = request[r].mine /\ request'[r].step = "answered"
    BY <1>6, <1>9 DEF ServeGet, ServeReopen
  <2>2. ~request[r].mine
    BY <1>3, <1>9 DEF ServeGet, ServeReopen, Asked
  <2> QED
    BY <1>2, <1>4, <2>1, <2>2, RequestGoesOn
<1>10. CASE ServeCreate(r)
  <2>1. /\ \A q \in Requests \ {r} : request'[q] = request[q]
        /\ request'[r].mine = request[r].mine /\ request'[r].step = "answered"
        /\ request'[r].kind = "create" /\ request[r].kind = "create"
    BY <1>6, <1>10 DEF ServeCreate, Asked
  <2> QED
    BY <1>2, <1>4, <2>1, RequestGoesOn
<1>11. CASE ServeClose(r)
  <2>1. /\ \A q \in Requests \ {r} : request'[q] = request[q]
        /\ request'[r].mine = request[r].mine /\ request'[r].step = "answered"
    BY <1>1, <1>5, <1>11 DEF ServeClose, Request
  <2>2. ~request[r].mine
    BY <1>3, <1>11 DEF ServeClose, Asked
  <2> QED
    BY <1>2, <1>4, <2>1, <2>2, RequestGoesOn
<1>12. CASE RateCheck(r) \/ RateLook(r)
  <2>1. request[r].kind = "rate" /\ request[r].step \in {"asked", "seen"}
    BY <1>12 DEF RateCheck, RateLook, Asked, Inv, Forms, Checked
  <2>2. /\ \A q \in Requests \ {r} : request'[q] = request[q]
        /\ request'[r] = [request[r] EXCEPT !.step = request'[r].step]
        /\ request'[r].step \in {"seen", "new"}
    BY <1>1, <1>5, <1>12 DEF RateCheck, RateLook, Request
  <2>3. /\ request'[r].mine = request[r].mine /\ request'[r].kind = request[r].kind
        /\ request'[r].of = request[r].of /\ request'[r].rating = request[r].rating
    BY <1>1, <2>2 DEF Request
  <2> QED
    BY <1>2, <1>4, <2>1, <2>2, <2>3, RequestGoesOn
<1>13. CASE RateStore(r)
  <2>1. request[r].kind = "rate" /\ request[r].step = "new"
    BY <1>13 DEF RateStore, Inv, Forms, Checked
  <2>2. /\ \A q \in Requests \ {r} : request'[q] = request[q]
        /\ request'[r].mine = request[r].mine /\ request'[r].kind = "rate"
        /\ request'[r].step = "answered"
    BY <1>1, <1>13 DEF RateStore, TypeOK, NoRequest, Request
  <2>3. request[r].mine => feedback'[form.of] = form.rating
    BY <1>1, <1>13, <2>1 DEF RateStore, Inv, Forms, Awaited, Carries, TypeOK
  <2> QED
    BY <1>2, <1>4, <2>1, <2>2, <2>3, RequestGoesOn
<1>14. CASE Refuse(r) \/ Fail(r)
  <2>1. Turn(r)
    BY <1>14 DEF Refuse, Fail
  <2> QED
    BY <1>2, <1>3, <1>4, <1>7, <2>1, RequestGoesOn
<1> QED
  BY <1>8, <1>9, <1>10, <1>11, <1>12, <1>13, <1>14 DEF Serve

\* What a released request leaves behind.
LEMMA ReleaseLeaves ==
  ASSUME TypeOK, Checked, NEW r \in Requests
  PROVE  /\ \A q \in Requests \ {r} : Released(r)[q] = request[q]
         /\ Released(r)[r] = NoRequest
         /\ \A q \in Requests : Released(r)[q].mine => Released(r)[q] = request[q]
         /\ \A q \in Requests :
              Released(r)[q].step \in {"seen", "new"} => Released(r)[q].kind = "rate"
<1>1. /\ \A q \in Requests \ {r} : Released(r)[q] = request[q]
      /\ Released(r)[r] = NoRequest
  BY DEF TypeOK, Released
<1> QED
  BY <1>1, RequestTypes DEF Checked

\* An answer changes a form only if it is that of the form's own request; the
\* form then thanks for the rating the request carried.
LEMMA LandKeepsForms ==
  ASSUME Inv, NEW r \in Requests, Land(r)
  PROVE  Forms'
<1>1. request[r] \in Request /\ Released(r) \in [Requests -> Request]
  BY ReleaseTypes DEF Inv, TypeOK
<1>2. /\ \A q \in Requests \ {r} : Released(r)[q] = request[q]
      /\ Released(r)[r] = NoRequest
      /\ \A q \in Requests : Released(r)[q].mine => Released(r)[q] = request[q]
      /\ \A q \in Requests :
           Released(r)[q].step \in {"seen", "new"} => Released(r)[q].kind = "rate"
  BY ReleaseLeaves DEF Inv, Forms
<1>3. request[r].mine =>
        /\ form.step = "busy"
        /\ \A q \in Requests : request[q].mine => q = r
        /\ \/ request[r].kind = "create" /\ view = "new"
           \/ request[r].kind = "rate" /\ view = "csat" /\ Carries(r)
  BY DEF Inv, Forms, Awaited
<1>4. CASE LandList(r) \/ LandRow(r)
  <2>1. request[r].mine = FALSE
    BY <1>1, <1>3, <1>4 DEF LandList, LandRow, Answered, Request
  <2>2. request' = Released(r) /\ UNCHANGED <<view, form, timers, feedback>>
    BY <1>4 DEF LandList, LandRow, rows, place
  <2> QED
    BY <1>2, <2>1, <2>2, RequestTypes, RequestGoesOn
<1>5. CASE LandCreate(r)
  <2>1. Show("detail", request[r].of, Released(r)) /\ UNCHANGED <<feedback, timers>>
    BY <1>5 DEF LandCreate, rows
  <2>2. request[r].mine => view = "new"
    BY <1>3, <1>5 DEF LandCreate, Answered
  <2> QED
    BY <1>1, <1>2, <2>1, <2>2, ViewIsShown
<1>6. CASE LandClose(r)
  <2>1. Show("csat", selected, Released(r)) /\ UNCHANGED <<feedback, timers>>
    BY <1>6 DEF LandClose, rows
  <2>2. ~request[r].mine
    BY <1>3, <1>6 DEF LandClose, Answered
  <2> QED
    BY <1>1, <1>2, <2>1, <2>2, ViewIsShown
<1>7. CASE LandRefusal(r)
  <2>1. Show("list", NoConversation, Released(r)) /\ UNCHANGED <<feedback, timers>>
    BY <1>7 DEF LandRefusal, rows
  <2>2. request[r].mine => view = "csat"
    BY <1>3, <1>7 DEF LandRefusal
  <2> QED
    BY <1>1, <1>2, <2>1, <2>2, ViewIsShown
<1>8. CASE LandRate(r)
  <2>1. request' = Released(r) /\ UNCHANGED <<view, feedback>> /\ timers' = timers + 1
    BY <1>8 DEF LandRate, rows
  <2>2. timers \in Nat /\ form \in Form
    BY DEF Inv, TypeOK
  <2>3. CASE request[r].mine
    <3>1. /\ form'.step = "thanks" /\ form'.of = form.of /\ form'.rating = form.rating
          /\ view = "csat" /\ Carries(r)
      BY <1>3, <1>8, <2>2, <2>3 DEF LandRate, Answered, Form
    <3>2. \A q \in Requests : ~request'[q].mine
      BY <1>2, <1>3, <2>1, <2>3, RequestTypes
    <3>3. feedback'[form'.of] = form'.rating
      BY <1>8, <2>1, <3>1 DEF LandRate, Answered, Carries
    <3>4. Checked'
      BY <1>2, <2>1 DEF Checked
    <3>5. Placed' /\ Awaited' /\ ThankedIsStored'
      BY <2>1, <3>1, <3>2, <3>3 DEF Placed, Awaited, ThankedIsStored, Carries
    <3>6. FormsGoOn'
      BY <2>1, <2>2, <3>1 DEF FormsGoOn
    <3> QED
      BY <3>4, <3>5, <3>6 DEF Forms
  <2>4. CASE ~request[r].mine
    <3>1. form' = form
      BY <1>8, <2>4 DEF LandRate
    <3>2. Checked'
      BY <1>2, <2>1 DEF Checked
    <3>3. Placed' /\ ThankedIsStored'
      BY <2>1, <3>1 DEF Inv, Forms, Placed, ThankedIsStored
    <3>4. \A q \in Requests : request'[q].mine => request'[q] = request[q] /\ q # r
      BY <1>2, <2>1, RequestTypes
    <3>5. \A q \in Requests : request[q].mine => request'[q] = request[q]
      BY <1>2, <2>1, <2>4
    <3>6. Awaited'
      BY <2>1, <3>1, <3>4, <3>5 DEF Inv, Forms, Awaited, Carries
    <3>7. FormsGoOn'
      BY <2>1, <2>2, <3>1, <3>5 DEF Inv, Forms, FormsGoOn
    <3> QED
      BY <3>2, <3>3, <3>6, <3>7 DEF Forms
  <2> QED
    BY <2>3, <2>4
<1>9. CASE LandError(r)
  <2>1. request' = Released(r) /\ UNCHANGED <<view, feedback, timers>>
    BY <1>9 DEF LandError, rows
  <2>2. CASE request[r].mine
    <3>1. form' = Blank
      BY <1>9, <2>2 DEF LandError
    <3>2. \A q \in Requests : ~request'[q].mine
      BY <1>2, <1>3, <2>1, <2>2, RequestTypes
    <3>3. Checked'
      BY <1>2, <2>1 DEF Checked
    <3> QED
      BY <3>1, <3>2, <3>3, RequestTypes DEF Forms, Placed, Awaited, FormsGoOn, ThankedIsStored
  <2>3. CASE ~request[r].mine
    <3>1. form' = form /\ request[r].mine = FALSE
      BY <1>1, <1>9, <2>3 DEF LandError, Request
    <3> QED
      BY <1>2, <2>1, <3>1, RequestTypes, RequestGoesOn
  <2> QED
    BY <2>2, <2>3
<1> QED
  BY <1>4, <1>5, <1>6, <1>7, <1>8, <1>9 DEF Land

\* A free request is taken; the form is left alone.
LEMMA AskKeepsForms ==
  ASSUME Inv, NEW r \in Requests, NEW new, Ask(r, new),
         new.mine = FALSE, new.step = "asked", UNCHANGED <<view, form, timers, feedback>>
  PROVE  Forms'
<1>1. request[r] \in Request /\ request[r].kind = "none"
  BY DEF Ask, Inv, TypeOK
<1>2. request[r].mine = FALSE
  BY <1>1 DEF Inv, Forms, Awaited, Request
<1>3. request'[r] = new /\ \A q \in Requests \ {r} : request'[q] = request[q]
  BY DEF Ask, Inv, TypeOK
<1> QED
  BY <1>2, <1>3, RequestGoesOn

\* A form is submitted, and its request is the only one of its own.
LEMMA SubmitKeepsForms ==
  ASSUME Inv, NEW r \in Requests, NEW new, Ask(r, new), form.step = "idle",
         new.mine = TRUE, new.step = "asked", form'.step = "busy",
         UNCHANGED <<view, timers, feedback>>,
         \/ new.kind = "create" /\ view = "new"
         \/ /\ new.kind = "rate" /\ view = "csat"
            /\ form'.of = new.of /\ form'.rating = new.rating
            /\ new.of \in Conversations /\ new.rating \in Ratings
  PROVE  Forms'
<1>1. request'[r] = new /\ \A q \in Requests \ {r} : request'[q] = request[q]
  BY DEF Ask, Inv, TypeOK
<1>2. \A q \in Requests : request'[q].mine => q = r
  BY <1>1 DEF Inv, Forms, Awaited
<1>3. Placed' /\ ThankedIsStored'
  BY DEF Placed, ThankedIsStored
<1>4. Checked'
  BY <1>1 DEF Inv, Forms, Checked
<1>5. FormsGoOn'
  BY <1>1 DEF FormsGoOn
<1>6. Awaited'
  BY <1>1, <1>2 DEF Awaited, Carries
<1> QED
  BY <1>3, <1>4, <1>5, <1>6 DEF Forms

\* Every step keeps what is said of forms.
LEMMA FormsStep == Inv /\ TypeOK' /\ [Next]_vars => Forms'
<1> SUFFICES ASSUME Inv, TypeOK', [Next]_vars PROVE Forms'
  OBVIOUS
<1>1. request \in [Requests -> Request]
  BY DEF Inv, TypeOK
<1>2. ASSUME NEW v, NEW c, Show(v, c, request), timers' = timers \/ v # view \/ form.step # "thanks",
             UNCHANGED feedback
      PROVE  Forms'
  <2>1. \A q \in Requests : request[q].step \in {"seen", "new"} => request[q].kind = "rate"
    BY DEF Inv, Forms, Checked
  <2> QED
    BY <1>1, <1>2, <2>1, ViewIsShown
<1>3. ASSUME NEW c \in Conversations, Others(c) PROVE Forms'
  <2>1. UNCHANGED <<feedback, view, form, timers, request>>
    BY <1>3 DEF Others, place
  <2> QED
    BY <2>1 DEF Inv, Forms, Placed, Checked, Awaited, Carries, FormsGoOn, ThankedIsStored
<1>4. CASE Reshow
  <2>1. form' = Blank /\ request' = [q \in Requests |-> [request[q] EXCEPT !.mine = FALSE]]
    BY <1>4 DEF Reshow
  <2>2. \A q \in Requests : /\ request'[q].mine = FALSE
                            /\ request'[q].step = request[q].step
                            /\ request'[q].kind = request[q].kind
    BY <1>1, <2>1 DEF Request
  <2>3. Checked'
    BY <2>2 DEF Inv, Forms, Checked
  <2> QED
    BY <2>1, <2>2, <2>3, RequestTypes DEF Forms, Placed, Awaited, FormsGoOn, ThankedIsStored
<1>5. CASE Back
  BY <1>2, <1>5 DEF Back, rows
<1>6. ASSUME NEW c \in Conversations, Choose(c) PROVE Forms'
  BY <1>2, <1>6 DEF Choose, rows
<1>7. CASE New
  BY <1>2, <1>7 DEF New, rows
<1>8. CASE TimerFires
  <2>1. "list" # view \/ form.step # "thanks"
    BY DEF Inv, Forms, Placed
  <2> QED
    BY <1>2, <1>8, <2>1 DEF TimerFires, rows
<1>9. ASSUME NEW r \in Requests, Poll(r) \/ Hear(r) \/ Close(r) \/ Reopen(r) PROVE Forms'
  <2>1. /\ [NoRequest EXCEPT !.kind = "list"].mine = FALSE
        /\ [NoRequest EXCEPT !.kind = "list"].step = "asked"
        /\ \A kind : /\ [NoRequest EXCEPT !.kind = kind, !.of = selected].mine = FALSE
                     /\ [NoRequest EXCEPT !.kind = kind, !.of = selected].step = "asked"
    BY DEF NoRequest
  <2>2. UNCHANGED <<view, form, timers, feedback>>
    BY <1>9 DEF Poll, Hear, Close, Reopen, rows, place
  <2> QED
    BY <1>9, <2>1, <2>2, AskKeepsForms DEF Poll, Hear, Close, Reopen
<1>10. ASSUME NEW r \in Requests, NEW c \in Conversations, Create(r, c) PROVE Forms'
  <2> DEFINE new == [NoRequest EXCEPT !.kind = "create", !.of = c, !.mine = TRUE]
  <2>1. new.mine = TRUE /\ new.step = "asked" /\ new.kind = "create"
    BY DEF NoRequest
  <2>2. form'.step = "busy" /\ form.step = "idle" /\ view = "new"
    BY <1>10 DEF Create, Inv, TypeOK, Form
  <2>3. Ask(r, new) /\ UNCHANGED <<view, timers, feedback>>
    BY <1>10 DEF Create, rows
  <2> HIDE DEF new
  <2> QED
    BY <2>1, <2>2, <2>3, SubmitKeepsForms
<1>11. ASSUME NEW r \in Requests, NEW rating \in Ratings, Rate(r, rating) PROVE Forms'
  <2> DEFINE new == [NoRequest EXCEPT !.kind = "rate", !.of = selected, !.rating = rating, !.mine = TRUE]
  <2>1. /\ new.mine = TRUE /\ new.step = "asked" /\ new.kind = "rate"
        /\ new.of = selected /\ new.rating = rating
    BY DEF NoRequest
  <2>2. /\ form'.step = "busy" /\ form'.of = selected /\ form'.rating = rating
        /\ form.step = "idle" /\ view = "csat" /\ selected \in Conversations
    BY <1>11 DEF Rate, Inv, TypeOK
  <2>3. Ask(r, new) /\ UNCHANGED <<view, timers, feedback>>
    BY <1>11 DEF Rate, rows
  <2> HIDE DEF new
  <2> QED
    BY <2>1, <2>2, <2>3, SubmitKeepsForms
<1>12. CASE UNCHANGED vars
  BY <1>12 DEF vars, Inv, Forms, Placed, Checked, Awaited, Carries, FormsGoOn, ThankedIsStored
<1> QED
  BY <1>3, <1>4, <1>5, <1>6, <1>7, <1>8, <1>9, <1>10, <1>11, <1>12, ServeKeepsForms, LandKeepsForms
     DEF Next

-----------------------------------------------------------------------------
\* At the start no form is open and nothing is asked.
LEMMA Initially == Init => Inv
<1> SUFFICES ASSUME Init PROVE Inv
  OBVIOUS
<1>1. TypeOK
  BY RequestTypes, WidgetAssumption DEF Init, TypeOK
<1>2. \A r \in Requests : request[r].mine = FALSE /\ request[r].step = "asked"
  BY RequestTypes DEF Init
<1> QED
  BY <1>1, <1>2, RequestTypes
     DEF Init, Inv, Forms, Placed, Checked, Awaited, FormsGoOn, ThankedIsStored

\* The invariant holds throughout.
THEOREM Invariance == Spec => []Inv
<1>1. Inv /\ [Next]_vars => Inv'
  BY TypeStep, FormsStep DEF Inv
<1> QED
  BY <1>1, Initially, PTL DEF Spec

\* The variables keep their types.
THEOREM TypeCorrect == Spec => []TypeOK
<1>1. Inv => TypeOK
  BY DEF Inv
<1> QED
  BY <1>1, Invariance, PTL

\* Whoever is thanked for a rating (csat-feedback.tsx) has it stored.
THEOREM ThankedHasRated == Spec => []ThankedIsStored
<1>1. Inv => ThankedIsStored
  BY DEF Inv, Forms
<1> QED
  BY <1>1, Invariance, PTL

\* A waiting form has its request, a thanking one its timer.
THEOREM NoFormIsStuck == Spec => []FormsGoOn
<1>1. Inv => FormsGoOn
  BY DEF Inv, Forms
<1> QED
  BY <1>1, Invariance, PTL

\* ConversationFeedbackView stores one rating per conversation, and it stays.
THEOREM FeedbackIsKept == Spec => FeedbackKept
<1> DEFINE Kept == \A c \in Conversations : feedback[c] # NoRating => feedback'[c] = feedback[c]
<1>1. Inv /\ [Next]_vars => [Kept]_vars
  BY RatingsStay DEF Inv
<1> QED
  BY <1>1, Invariance, PTL DEF Spec, FeedbackKept

=============================================================================
