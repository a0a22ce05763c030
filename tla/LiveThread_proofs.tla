-------------------------- MODULE LiveThread_proofs --------------------------
(***************************************************************************)
(* Proofs about LiveThread, for any number of conversations, messages,     *)
(* requests under way and threads opened.                                  *)
(***************************************************************************)
EXTENDS LiveThread, TLAPS

\* The stream is that of the effect in force, and carries only messages of its
\* conversation.
StreamFollows ==
  /\ stream.step # "off" => stream.of = live
  /\ live = NoConversation => stream.step = "off"
  /\ stream.step = "off" => stream.queue = <<>>
  /\ \A i \in DOMAIN stream.queue : stream.queue[i] \in Thread(stream.of)

\* A request is made for a conversation, and answered with its messages.
Fits(q) ==
  /\ q.kind # "none" => q.of \in Conversations
  /\ q.answer \subseteq Thread(q.of)

AnswersBelong == \A r \in Requests : Fits(request[r])

\* A thread that is open is the thread of a conversation, and no effect stays
\* in force without an open thread.
Placed ==
  /\ mounted => selected # NoConversation
  /\ live # NoConversation => mounted

Inv == TypeOK /\ NoDuplicates /\ Placed /\ StreamFollows /\ AnswersBelong

-----------------------------------------------------------------------------
\* Storing a message takes none from a thread, and adds it to its own.
LEMMA InsertKeeps ==
  ASSUME TypeOK, NEW c \in Conversations, Insert(c)
  PROVE  /\ stored' \in Seq(Conversations)
         /\ Len(stored') = Len(stored) + 1
         /\ Len(stored') <= MaxMessages
         /\ Len(stored) + 1 \in Ids
         /\ DOMAIN stored \subseteq DOMAIN stored'
         /\ Len(stored) + 1 \in DOMAIN stored'
         /\ stored'[Len(stored) + 1] = c
         /\ \A d : Thread(d) \subseteq Thread(d)'
         /\ Len(stored) + 1 \in Thread(c)'
PROOF
<1>a. stored \in Seq(Conversations)
  BY DEF TypeOK
<1>b. Len(stored) < MaxMessages /\ stored' = Append(stored, c)
  BY DEF Insert
<1>1. /\ stored \in Seq(Conversations) /\ Len(stored) \in Nat
      /\ Len(stored) < MaxMessages
      /\ stored' = Append(stored, c)
  BY <1>a, <1>b
<1>2. /\ stored' \in Seq(Conversations)
      /\ Len(stored') = Len(stored) + 1
      /\ \A m \in 1..Len(stored) : stored'[m] = stored[m]
      /\ stored'[Len(stored) + 1] = c
  BY <1>1
<1>3. /\ DOMAIN stored = 1..Len(stored)
      /\ DOMAIN stored' = 1..(Len(stored) + 1)
  BY <1>1, <1>2
<1>4. \A d : Thread(d) \subseteq Thread(d)'
  BY <1>1, <1>2, <1>3 DEF Thread
<1> QED  BY <1>1, <1>2, <1>3, <1>4, ThreadAssumption DEF Thread, Ids

\* The messages of a thread have ids.
LEMMA ThreadIds ==
  ASSUME TypeOK
  PROVE  /\ DOMAIN stored = 1..Len(stored) /\ Len(stored) \in Nat
         /\ DOMAIN stored \subseteq Ids
         /\ \A c : Thread(c) \subseteq Ids
PROOF
<1>1. stored \in Seq(Conversations) /\ Len(stored) <= MaxMessages
  BY DEF TypeOK
<1>2. DOMAIN stored = 1..Len(stored) /\ Len(stored) \in Nat
  BY <1>1
<1> QED  BY <1>1, <1>2, ThreadAssumption DEF Thread, Ids

\* The types of the variables other than the server's.
Kinds == {"none", "ask list", "list", "ask send", "send"}

Places == Conversations \cup {NoConversation}

\* The parts of the type invariant that the lemmas below take for granted.
LEMMA Types ==
  ASSUME TypeOK
  PROVE  /\ selected \in Places /\ mounted \in BOOLEAN /\ mounts \in Nat
         /\ live \in Places
         /\ shown \in [Ids -> Nat]
         /\ stream \in [step : {"off", "waiting", "open", "spent"}, of : Places, queue : Seq(Ids)]
         /\ request \in [Requests -> [kind : Kinds, of : Places, answer : SUBSET Ids]]
PROOF
  BY DEF TypeOK, Kinds, Places

\* At the start nothing is stored, shown or asked.
LEMMA InitInv == Init => Inv
PROOF
<1> SUFFICES ASSUME Init PROVE Inv
  OBVIOUS
<1>1. stored = <<>> /\ stored \in Seq(Conversations) /\ Len(stored) = 0 /\ DOMAIN stored = {}
  BY DEF Init
<1>2. \A r \in Requests : request[r] = NoRequest
  BY DEF Init
<1>3. TypeOK
  <2>1. shown \in [Ids -> Nat] /\ selected \in Conversations \cup {NoConversation}
        /\ live \in Conversations \cup {NoConversation}
        /\ mounted \in BOOLEAN /\ mounts \in Nat /\ unpublished \subseteq DOMAIN stored
        /\ creating \subseteq Conversations
    BY DEF Init
  <2>2. stream \in [step : {"off", "waiting", "open", "spent"},
                    of : Conversations \cup {NoConversation}, queue : Seq(Ids)]
    BY DEF Init, NoStream
  <2>3. request \in [Requests -> [kind : {"none", "ask list", "list", "ask send", "send"},
                                  of : Conversations \cup {NoConversation}, answer : SUBSET Ids]]
    BY DEF Init, NoRequest
  <2>4. Len(stored) <= MaxMessages
    BY <1>1, ThreadAssumption
  <2> QED  BY <1>1, <2>1, <2>2, <2>3, <2>4 DEF TypeOK
<1>4. NoDuplicates
  BY DEF Init, NoDuplicates
<1>5. StreamFollows
  BY DEF Init, NoStream, StreamFollows
<1>6. AnswersBelong
  BY <1>2 DEF NoRequest, AnswersBelong, Fits
<1> QED  BY <1>3, <1>4, <1>5, <1>6 DEF Init, Inv, Placed

-----------------------------------------------------------------------------
(* The invariant by parts: what a step must do to the server, the view, the *)
(* stream and the requests to keep it.                                      *)

ServerKept ==
  /\ stored' \in Seq(Conversations) /\ Len(stored') <= MaxMessages
  /\ unpublished' \subseteq DOMAIN stored' /\ creating' \subseteq Conversations
  /\ \A d : Thread(d) \subseteq Thread(d)'

ViewKept ==
  /\ selected' \in Places /\ mounted' \in BOOLEAN /\ mounts' \in Nat /\ live' \in Places
  /\ shown' \in [Ids -> {0, 1}]
  /\ Placed'

StreamKept ==
  /\ stream' \in [step : {"off", "waiting", "open", "spent"}, of : Places, queue : Seq(Ids)]
  /\ StreamFollows'

RequestsKept ==
  /\ request' \in [Requests -> [kind : Kinds, of : Places, answer : SUBSET Ids]]
  /\ AnswersBelong'

\* The invariant is kept if each of its four parts is.
LEMMA PartsSuffice ==
  ASSUME ServerKept, ViewKept, StreamKept, RequestsKept
  PROVE  Inv'
PROOF
<1>1. shown' \in [Ids -> Nat] /\ \A m \in Ids : shown'[m] <= 1
  <2>1. shown' \in [Ids -> {0, 1}]
    BY DEF ViewKept
  <2> QED  BY <2>1
<1>2. TypeOK'
  BY <1>1 DEF ServerKept, ViewKept, StreamKept, RequestsKept, TypeOK, Kinds, Places
<1>3. NoDuplicates'
  BY <1>1 DEF NoDuplicates
<1> QED  BY <1>2, <1>3 DEF Inv, ViewKept, StreamKept, RequestsKept

\* The list is a set of messages, by the invariant.
LEMMA ShownOnce ==
  ASSUME Inv
  PROVE  shown \in [Ids -> {0, 1}]
PROOF
<1>1. shown \in [Ids -> Nat] /\ \A m \in Ids : shown[m] <= 1
  BY Types DEF Inv, NoDuplicates
<1>2. \A m \in Ids : shown[m] \in {0, 1}
  BY <1>1
<1> QED  BY <1>1, <1>2

\* Publishing and losing events leaves the threads alone.
LEMMA ServerStill ==
  ASSUME Inv, UNCHANGED stored, unpublished' \subseteq unpublished, creating' \subseteq creating
  PROVE  ServerKept
PROOF
  BY DEF Inv, TypeOK, ServerKept, Thread

\* A stored message comes to one thread and leaves none.
LEMMA ServerInsert ==
  ASSUME Inv, NEW c \in Conversations, Insert(c),
         unpublished' \subseteq unpublished \cup {Len(stored) + 1},
         creating' \subseteq creating \cup {c}
  PROVE  ServerKept
PROOF
<1>1. unpublished \subseteq DOMAIN stored /\ creating \subseteq Conversations /\ TypeOK
  BY DEF Inv, TypeOK
<1> QED  BY <1>1, InsertKeeps DEF ServerKept

\* A step that touches neither navigation nor list keeps the view's part.
LEMMA ViewStill ==
  ASSUME Inv, UNCHANGED view, UNCHANGED shown
  PROVE  ViewKept
PROOF
  BY Types, ShownOnce DEF Inv, view, ViewKept, Placed

\* What a stream carries stays in its thread, for threads only grow.
LEMMA StreamStill ==
  ASSUME Inv, ServerKept, UNCHANGED stream, UNCHANGED live
  PROVE  StreamKept
PROOF
<1>1. stream \in [step : {"off", "waiting", "open", "spent"}, of : Places, queue : Seq(Ids)]
  BY Types DEF Inv
<1>2. \A i \in DOMAIN stream.queue : stream.queue[i] \in Thread(stream.of)'
  BY DEF Inv, StreamFollows, ServerKept
<1>3. StreamFollows'
  BY <1>2 DEF Inv, StreamFollows
<1> QED  BY <1>1, <1>3 DEF StreamKept

\* A stream that is off carries nothing.
LEMMA StreamOff ==
  ASSUME stream' = NoStream
  PROVE  StreamKept
PROOF
<1>1. stream'.step = "off" /\ stream'.queue = <<>>
  BY DEF NoStream
<1>2. stream' \in [step : {"off", "waiting", "open", "spent"}, of : Places, queue : Seq(Ids)]
  BY DEF NoStream, Places
<1>3. StreamFollows'
  BY <1>1 DEF StreamFollows
<1> QED  BY <1>2, <1>3 DEF StreamKept

\* Requests are forgotten, made, or stay as they are.
LEMMA RequestsStill ==
  ASSUME Inv, ServerKept,
         request' \in [Requests -> [kind : Kinds, of : Places, answer : SUBSET Ids]],
         \A r \in Requests :
           \/ request'[r].answer = {} /\ (request'[r].kind # "none" => request'[r].of \in Conversations)
           \/ request'[r] = request[r]
  PROVE  RequestsKept
PROOF
<1>1. ASSUME NEW r \in Requests
      PROVE  Fits(request[r])'
  <2>1. CASE request'[r].answer = {} /\ (request'[r].kind # "none" => request'[r].of \in Conversations)
    BY <2>1 DEF Fits
  <2>2. CASE request'[r] = request[r]
    <3>1. /\ request[r].kind # "none" => request[r].of \in Conversations
          /\ request[r].answer \subseteq Thread(request[r].of)
      BY DEF Inv, AnswersBelong, Fits
    <3>2. Thread(request[r].of) \subseteq (Thread(request[r].of))'
      BY <2>2 DEF ServerKept
    <3> QED  BY <2>2, <3>1, <3>2 DEF Fits
  <2> QED  BY <2>1, <2>2
<1> QED  BY <1>1 DEF RequestsKept, AnswersBelong

\* An answer on its way still fits: threads only grow.
LEMMA RequestsUnchanged ==
  ASSUME Inv, ServerKept, UNCHANGED request
  PROVE  RequestsKept
PROOF
  BY Types, RequestsStill DEF Inv

\* A request that was dealt with carries nothing.
LEMMA RequestReleased ==
  ASSUME Inv, ServerKept, NEW r \in Requests, Release(r)
  PROVE  RequestsKept
PROOF
<1>1. request \in [Requests -> [kind : Kinds, of : Places, answer : SUBSET Ids]]
  BY Types DEF Inv
<1>2. /\ NoRequest \in [kind : Kinds, of : Places, answer : SUBSET Ids]
      /\ NoRequest.answer = {} /\ NoRequest.kind = "none"
  BY DEF NoRequest, Kinds, Places
<1>3. request' = [request EXCEPT ![r] = NoRequest]
  BY DEF Release
<1>4. request' \in [Requests -> [kind : Kinds, of : Places, answer : SUBSET Ids]]
  BY <1>1, <1>2, <1>3
<1>5. \A q \in Requests : request'[q] = NoRequest \/ request'[q] = request[q]
  BY <1>1, <1>3
<1> QED  BY <1>2, <1>4, <1>5, RequestsStill

\* A new request for a list has no answer yet, and a conversation.
LEMMA ListAsked ==
  ASSUME Inv, ServerKept, NEW r \in Requests, NEW c \in Conversations, AskList(r, c)
  PROVE  RequestsKept
PROOF
<1>1. request \in [Requests -> [kind : Kinds, of : Places, answer : SUBSET Ids]]
  BY Types DEF Inv
<1>2. [kind |-> "ask list", of |-> c, answer |-> {}] \in [kind : Kinds, of : Places, answer : SUBSET Ids]
  BY DEF Kinds, Places
<1>3. request' = [request EXCEPT ![r] = [kind |-> "ask list", of |-> c, answer |-> {}]]
  BY DEF AskList
<1>4. request' \in [Requests -> [kind : Kinds, of : Places, answer : SUBSET Ids]]
  BY <1>1, <1>2, <1>3
<1>5. \A q \in Requests :
        \/ request'[q].answer = {} /\ request'[q].of \in Conversations
        \/ request'[q] = request[q]
  BY <1>1, <1>3
<1> QED  BY <1>4, <1>5, RequestsStill

-----------------------------------------------------------------------------
(* One lemma per group of actions. *)

\* Storing and publishing keep the invariant: an event goes to the stream of its
\* own conversation only.
LEMMA ServerSteps ==
  ASSUME Inv,
         \/ \E c \in Conversations : Create(c) \/ Store(c)
         \/ \E m \in Ids : Publish(m) \/ PublishFails(m)
  PROVE  Inv'
PROOF
<1>1. ASSUME NEW c \in Conversations, Create(c) \/ Store(c) PROVE Inv'
  <2>1. /\ Insert(c) /\ unpublished' \subseteq unpublished \cup {Len(stored) + 1}
        /\ creating' \subseteq creating \cup {c}
        /\ UNCHANGED view /\ UNCHANGED shown /\ UNCHANGED stream /\ UNCHANGED request
        /\ UNCHANGED selected /\ UNCHANGED live
    BY <1>1 DEF Create, Store, view
  <2>2. ServerKept
    BY <2>1, ServerInsert
  <2> QED  BY <2>1, <2>2, ViewStill, StreamStill, RequestsUnchanged, PartsSuffice
<1>2. ASSUME NEW m \in Ids, PublishFails(m) PROVE Inv'
  <2>1. /\ UNCHANGED stored /\ unpublished' \subseteq unpublished /\ UNCHANGED creating
        /\ UNCHANGED view /\ UNCHANGED shown /\ UNCHANGED stream /\ UNCHANGED request
        /\ UNCHANGED selected /\ UNCHANGED live
    BY <1>2 DEF PublishFails, view
  <2>2. ServerKept
    BY <2>1, ServerStill
  <2> QED  BY <2>1, <2>2, ViewStill, StreamStill, RequestsUnchanged, PartsSuffice
<1>3. ASSUME NEW m \in Ids, Publish(m) PROVE Inv'
  <2>1. /\ UNCHANGED stored /\ unpublished' \subseteq unpublished /\ UNCHANGED creating /\ m \in DOMAIN stored
        /\ UNCHANGED view /\ UNCHANGED shown /\ UNCHANGED request
        /\ UNCHANGED selected /\ UNCHANGED live
    BY <1>3 DEF Publish, view, Inv, TypeOK
  <2>2. ServerKept
    BY <2>1, ServerStill
  <2>3. StreamKept
    <3>1. CASE stream' = stream
      BY <2>1, <2>2, <3>1, StreamStill
    <3>2. CASE Subscribed(stored[m]) /\ stream' = [stream EXCEPT !.queue = Append(@, m)]
      <4>1. stream \in [step : {"off", "waiting", "open", "spent"}, of : Places, queue : Seq(Ids)]
        BY Types DEF Inv
      <4>2. stream.queue \in Seq(Ids) /\ stream'.queue = Append(stream.queue, m)
            /\ stream'.of = stream.of /\ stream'.step = stream.step
            /\ stream.step = "open" /\ stream.of = stored[m]
        BY <3>2, <4>1 DEF Subscribed
      <4>a. Append(stream.queue, m) \in Seq(Ids)
        BY <4>2
      <4>b. stream' = [stream EXCEPT !.queue = Append(stream.queue, m)]
        BY <3>2
      <4>3. stream' \in [step : {"off", "waiting", "open", "spent"}, of : Places, queue : Seq(Ids)]
        BY <4>1, <4>a, <4>b
      <4>4. m \in Thread(stream.of)
        BY <2>1, <4>2 DEF Thread
      <4>5. \A i \in DOMAIN stream.queue : stream.queue[i] \in Thread(stream.of)
        BY DEF Inv, StreamFollows
      <4>6. \A i \in DOMAIN stream'.queue : stream'.queue[i] \in Thread(stream.of)
        BY <4>2, <4>4, <4>5
      <4>7. (\A i \in DOMAIN stream.queue : stream.queue[i] \in Thread(stream.of))'
        BY <2>1, <4>2, <4>6 DEF Thread
      <4>8. StreamFollows'
        BY <2>1, <4>2, <4>7 DEF Inv, StreamFollows
      <4> QED  BY <4>3, <4>8 DEF StreamKept
    <3> QED  BY <1>3, <3>1, <3>2 DEF Publish
  <2> QED  BY <2>1, <2>2, <2>3, ViewStill, RequestsUnchanged, PartsSuffice
<1> QED  BY <1>1, <1>2, <1>3

\* Adding a message keeps the list a set of messages.
LEMMA AddKeeps ==
  ASSUME Inv, NEW m \in Ids, Add(m)
  PROVE  shown' \in [Ids -> {0, 1}]
PROOF
<1>1. shown \in [Ids -> {0, 1}]
  BY ShownOnce
<1> QED  BY <1>1 DEF Add

\* The first event of the stream is a message of its thread.
LEMMA HeadBelongs ==
  ASSUME Inv, stream.queue # <<>>
  PROVE  /\ Head(stream.queue) \in Thread(live)
         /\ Head(stream.queue) \in Ids
         /\ Tail(stream.queue) \in Seq(Ids)
         /\ \A i \in DOMAIN Tail(stream.queue) : Tail(stream.queue)[i] \in Thread(stream.of)
         /\ stream.of = live /\ stream.step # "off"
PROOF
<1>1. stream \in [step : {"off", "waiting", "open", "spent"}, of : Places, queue : Seq(Ids)]
  BY Types DEF Inv
<1>2. stream.queue \in Seq(Ids)
  BY <1>1
<1>3. stream.step # "off" /\ stream.of = live
  BY DEF Inv, StreamFollows
<1>4. \A i \in DOMAIN stream.queue : stream.queue[i] \in Thread(stream.of)
  BY DEF Inv, StreamFollows
<1>5. /\ Head(stream.queue) = stream.queue[1] /\ 1 \in DOMAIN stream.queue
      /\ Head(stream.queue) \in Ids /\ Tail(stream.queue) \in Seq(Ids)
      /\ \A i \in DOMAIN Tail(stream.queue) :
           i + 1 \in DOMAIN stream.queue /\ Tail(stream.queue)[i] = stream.queue[i + 1]
  BY <1>2
<1> QED  BY <1>3, <1>4, <1>5

\* Delivery, heartbeat, break and reconnection keep it: a message that is
\* delivered is appended only if it is not in the list.
LEMMA StreamSteps ==
  ASSUME Inv, Stream
  PROVE  Inv'
PROOF
<1>0. stream \in [step : {"off", "waiting", "open", "spent"}, of : Places, queue : Seq(Ids)]
  BY Types DEF Inv
<1>1. /\ UNCHANGED server /\ UNCHANGED view /\ UNCHANGED request
      /\ UNCHANGED stored /\ unpublished' \subseteq unpublished /\ UNCHANGED creating
      /\ UNCHANGED selected /\ UNCHANGED live
  BY DEF Stream, Connect, Deliver, Heartbeat, StreamEnds, StreamBreaks, server, view
<1>2. ServerKept
  BY <1>1, ServerStill
<1>3. RequestsKept
  BY <1>1, <1>2, RequestsUnchanged
<1>4. CASE Deliver
  <2>1. Add(Head(stream.queue)) /\ stream' = [stream EXCEPT !.queue = Tail(@)] /\ stream.queue # <<>>
    BY <1>4 DEF Deliver
  <2>2. shown' \in [Ids -> {0, 1}]
    BY <2>1, AddKeeps, HeadBelongs
  <2>3. ViewKept
    BY <1>1, <2>2, Types DEF Inv, view, ViewKept, Placed
  <2>4. /\ stream'.queue = Tail(stream.queue) /\ stream'.of = stream.of /\ stream'.step = stream.step
        /\ stream' \in [step : {"off", "waiting", "open", "spent"}, of : Places, queue : Seq(Ids)]
    BY <1>0, <2>1, HeadBelongs
  <2>5. (\A i \in DOMAIN stream.queue : stream.queue[i] \in Thread(stream.of))'
    BY <1>1, <2>1, <2>4, HeadBelongs DEF Thread
  <2>6. StreamKept
    BY <1>1, <2>1, <2>4, <2>5, HeadBelongs DEF Inv, StreamKept, StreamFollows
  <2> QED  BY <1>2, <1>3, <2>3, <2>6, PartsSuffice
<1>5. CASE Connect \/ Heartbeat \/ StreamEnds \/ StreamBreaks
  <2>1. /\ UNCHANGED shown
        /\ stream'.of = stream.of /\ stream.step # "off" /\ stream'.step # "off"
        /\ stream'.queue \in {stream.queue, <<>>}
        /\ stream' \in [step : {"off", "waiting", "open", "spent"}, of : Places, queue : Seq(Ids)]
    <3>1. UNCHANGED shown /\ stream.step # "off"
      BY <1>5 DEF Connect, Heartbeat, StreamEnds, StreamBreaks
    <3>2. PICK step \in {"waiting", "open", "spent"} :
            \/ stream' = [stream EXCEPT !.step = step]
            \/ stream' = [stream EXCEPT !.step = step, !.queue = <<>>]
      BY <1>5 DEF Connect, Heartbeat, StreamEnds, StreamBreaks
    <3>3. <<>> \in Seq(Ids)
      OBVIOUS
    <3>4. CASE stream' = [stream EXCEPT !.step = step]
      BY <1>0, <3>1, <3>4
    <3>5. CASE stream' = [stream EXCEPT !.step = step, !.queue = <<>>]
      BY <1>0, <3>1, <3>3, <3>5
    <3> QED  BY <3>2, <3>4, <3>5
  <2>2. \A i \in DOMAIN stream.queue : stream.queue[i] \in Thread(stream.of)
    BY DEF Inv, StreamFollows
  <2>3. (\A i \in DOMAIN stream.queue : stream.queue[i] \in Thread(stream.of))'
    BY <1>1, <2>1, <2>2 DEF Thread
  <2>4. StreamKept
    BY <1>1, <2>1, <2>3 DEF Inv, StreamKept, StreamFollows
  <2> QED  BY <1>1, <1>2, <1>3, <2>1, <2>4, ViewStill, PartsSuffice
<1> QED  BY <1>4, <1>5 DEF Stream

\* Showing a thread leaves the stream, the timer and the requests as they are.
LEMMA MountKeeps ==
  ASSUME Inv, ServerKept, NEW c \in Conversations, Mount(c), UNCHANGED shown
  PROVE  Inv'
PROOF
<1>1. RequestsKept
  BY RequestsUnchanged DEF Mount
<1>2. ViewKept
  BY Types, ShownOnce, ThreadAssumption DEF Inv, Mount, ViewKept, Places, Placed
<1>3. StreamKept
  BY StreamStill DEF Mount
<1> QED  BY <1>1, <1>2, <1>3, PartsSuffice

\* The effect turns the old stream off, and asks for the list of the thread that
\* is shown.
LEMMA EffectKeeps ==
  ASSUME Inv, NEW r \in Requests, Effect(r)
  PROVE  Inv'
PROOF
<1>0. PICK c \in Conversations : c = selected
  BY Types DEF Inv, Placed, Places, Effect
<1>1. ServerKept
  BY ServerStill DEF Effect, server
<1>2. RequestsKept
  BY <1>0, <1>1, ListAsked DEF Effect
<1>3. ViewKept
  BY Types, ShownOnce DEF Inv, Effect, ViewKept, Placed
<1>4. stream' = [step |-> "waiting", of |-> c, queue |-> <<>>] /\ live' = c
  BY <1>0 DEF Effect, NoStream
<1>5. stream' \in [step : {"off", "waiting", "open", "spent"}, of : Places, queue : Seq(Ids)]
  BY <1>4 DEF Places
<1>6. StreamFollows'
  BY <1>4, ThreadAssumption DEF StreamFollows
<1>7. StreamKept
  BY <1>5, <1>6 DEF StreamKept
<1> QED  BY <1>1, <1>2, <1>3, <1>7, PartsSuffice

\* Navigation keeps it: a thread that is left takes its stream along, not its
\* requests.
LEMMA NavigateSteps ==
  ASSUME Inv, Navigate
  PROVE  Inv'
PROOF
<1>1. CASE Hide \/ Leave
  <2>1. /\ UNCHANGED server /\ UNCHANGED request /\ UNCHANGED mounts /\ stream' = NoStream
        /\ mounted' = FALSE /\ live' = NoConversation
        /\ selected' \in {selected, NoConversation}
        /\ UNCHANGED shown \/ shown' = [m \in Ids |-> 0]
    BY <1>1 DEF Hide, Leave, Unmount
  <2>2. ServerKept
    BY <2>1, ServerStill DEF server
  <2>3. ViewKept
    BY <2>1, Types, ShownOnce DEF Inv, ViewKept, Places, Placed
  <2> QED  BY <2>1, <2>2, <2>3, StreamOff, RequestsUnchanged, PartsSuffice
<1>2. CASE Reopen
  <2>1. selected \in Conversations /\ Mount(selected) /\ UNCHANGED server /\ UNCHANGED shown
    BY <1>2, Types DEF Inv, Reopen, Places
  <2>2. ServerKept
    BY <2>1, ServerStill DEF server
  <2> QED  BY <2>1, <2>2, MountKeeps
<1>3. ASSUME NEW c \in Conversations, Open(c) PROVE Inv'
  <2>1. ServerKept
    BY <1>3, ServerStill DEF Open, server
  <2> QED  BY <1>3, <2>1, MountKeeps DEF Open
<1>4. ASSUME NEW c \in Conversations, Answered(c) PROVE ServerKept /\ UNCHANGED shown
  BY <1>4, ServerStill DEF Answered
<1>5. ASSUME NEW c \in Conversations, Created(c) PROVE Inv'
  BY <1>4, <1>5, MountKeeps DEF Created
<1>6. ASSUME NEW c \in Conversations, CreatedHere(c) PROVE Inv'
  <2>1. /\ ServerKept /\ UNCHANGED shown /\ UNCHANGED view /\ UNCHANGED stream
        /\ UNCHANGED request /\ UNCHANGED live
    BY <1>4, <1>6 DEF CreatedHere, view
  <2> QED  BY <2>1, ViewStill, StreamStill, RequestsUnchanged, PartsSuffice
<1>7. ASSUME NEW c \in Conversations, CreatedUnseen(c) PROVE Inv'
  <2>1. /\ ServerKept /\ UNCHANGED shown /\ ~mounted /\ selected' = c
        /\ UNCHANGED <<mounted, mounts, stream, request>> /\ UNCHANGED live
    BY <1>4, <1>7 DEF CreatedUnseen
  <2>2. ViewKept
    BY <2>1, Types, ShownOnce DEF Inv, ViewKept, Places, Placed
  <2> QED  BY <2>1, <2>2, StreamStill, RequestsUnchanged, PartsSuffice
<1> QED  BY <1>1, <1>2, <1>3, <1>5, <1>6, <1>7, EffectKeeps DEF Navigate

\* A request moves on, for a conversation and with an answer from it.
LEMMA RequestMoves ==
  ASSUME Inv, ServerKept, NEW r \in Requests,
         NEW new \in [kind : Kinds, of : Places, answer : SUBSET Ids],
         request' = [request EXCEPT ![r] = new],
         new.of \in Conversations,
         new.answer \subseteq (Thread(new.of))'
  PROVE  RequestsKept
PROOF
<1>1. request \in [Requests -> [kind : Kinds, of : Places, answer : SUBSET Ids]]
  BY Types DEF Inv
<1>3. request' \in [Requests -> [kind : Kinds, of : Places, answer : SUBSET Ids]]
  BY <1>1
<1>4. ASSUME NEW q \in Requests PROVE Fits(request[q])'
  <2>1. CASE q = r
    <3>1. request'[q] = new
      BY <1>1, <2>1
    <3> QED  BY <3>1 DEF Fits, Thread
  <2>2. CASE q # r
    <3>1. request'[q] = request[q]
      BY <1>1, <2>2
    <3>2. /\ request[q].kind # "none" => request[q].of \in Conversations
          /\ request[q].answer \subseteq Thread(request[q].of)
      BY DEF Inv, AnswersBelong, Fits
    <3>3. Thread(request[q].of) \subseteq (Thread(request[q].of))'
      BY <3>1 DEF ServerKept
    <3> QED  BY <3>1, <3>2, <3>3 DEF Fits
  <2> QED  BY <2>1, <2>2
<1> QED  BY <1>3, <1>4 DEF RequestsKept, AnswersBelong

\* Asking, serving and landing keep it: the answer to a list replaces what is
\* shown by a set, that to a send adds what is missing.
LEMMA RequestSteps ==
  ASSUME Inv, NEW r \in Requests, Poll(r) \/ Send(r) \/ Serve(r) \/ Land(r) \/ Fail(r)
  PROVE  Inv'
PROOF
<1>0. request \in [Requests -> [kind : Kinds, of : Places, answer : SUBSET Ids]]
  BY Types DEF Inv
<1>1. CASE ServeSend(r)
  <2>1. /\ request[r].kind = "ask send" /\ Insert(request[r].of)
        /\ unpublished' \subseteq unpublished \cup {Len(stored) + 1} /\ UNCHANGED creating
        /\ UNCHANGED view /\ UNCHANGED shown /\ UNCHANGED stream
        /\ UNCHANGED selected /\ UNCHANGED live
    BY <1>1 DEF ServeSend, view
  <2>2. PICK c \in Conversations : c = request[r].of
    BY <2>1 DEF Inv, AnswersBelong, Fits
  <2>3. ServerKept /\ TypeOK
    BY <2>1, <2>2, ServerInsert DEF Inv
  <2>4. PICK n \in Ids : n = Len(stored) + 1 /\ n \in Thread(c)'
    BY <2>1, <2>2, <2>3, InsertKeeps
  <2>5. PICK new : new = [request[r] EXCEPT !.kind = "send", !.answer = {n}]
    OBVIOUS
  <2>6. /\ new \in [kind : Kinds, of : Places, answer : SUBSET Ids]
        /\ new.of = c /\ new.answer = {n}
    <3>1. PICK old \in [kind : Kinds, of : Places, answer : SUBSET Ids] : old = request[r]
      BY <1>0
    <3>2. new = [old EXCEPT !.kind = "send", !.answer = {n}] /\ old.of = c
      BY <2>2, <2>5, <3>1
    <3> QED  BY <3>1, <3>2 DEF Kinds, Places
  <2>7. request' = [request EXCEPT ![r] = new]
    BY <1>0, <1>1, <2>4, <2>5 DEF ServeSend
  <2>8. RequestsKept
    BY <2>2, <2>3, <2>4, <2>6, <2>7, RequestMoves
  <2> QED  BY <2>1, <2>3, <2>8, ViewStill, StreamStill, PartsSuffice
<1> SUFFICES ASSUME ~ServeSend(r) PROVE Inv'
  BY <1>1
<1>2. UNCHANGED server /\ UNCHANGED view /\ UNCHANGED stream /\ UNCHANGED selected /\ UNCHANGED live
  BY DEF Poll, Send, Serve, ServeList, Land, LandList, LandSend, Fail, view
<1>3. ServerKept
  BY <1>2, ServerStill DEF server
<1>4. StreamKept
  BY <1>2, <1>3, StreamStill
<1>5. /\ mounted => selected \in Conversations
      /\ live # NoConversation => live \in Conversations
  BY Types DEF Inv, Placed, Places
<1>6. CASE Poll(r)
  <2>1. RequestsKept
    BY <1>3, <1>5, <1>6, ListAsked DEF Poll
  <2> QED  BY <1>2, <1>3, <1>4, <1>6, <2>1, ViewStill, PartsSuffice DEF Poll
<1>7. CASE Send(r)
  <2>1. PICK c \in Conversations : c = selected
    BY <1>5, <1>7 DEF Send
  <2>2. PICK new : new = [request[r] EXCEPT !.kind = "ask send", !.of = c]
    OBVIOUS
  <2>3. /\ new \in [kind : Kinds, of : Places, answer : SUBSET Ids]
        /\ new.of = c /\ new.answer = {}
    <3>1. PICK old \in [kind : Kinds, of : Places, answer : SUBSET Ids] : old = request[r]
      BY <1>0
    <3>2. old = NoRequest
      BY <1>7, <3>1 DEF Send
    <3>3. old.answer = {}
      BY <3>2 DEF NoRequest
    <3>4. new = [old EXCEPT !.kind = "ask send", !.of = c]
      BY <2>2, <3>1
    <3> QED  BY <3>1, <3>3, <3>4 DEF Kinds, Places
  <2>4. request' = [request EXCEPT ![r] = new]
    BY <1>0, <1>7, <2>1, <2>2 DEF Send
  <2>5. RequestsKept
    BY <1>3, <2>3, <2>4, RequestMoves
  <2> QED  BY <1>2, <1>3, <1>4, <1>7, <2>5, ViewStill, PartsSuffice DEF Send
<1>8. CASE ServeList(r)
  <2>1. request[r].kind = "ask list"
    BY <1>8 DEF ServeList
  <2>2. PICK c \in Conversations : c = request[r].of
    BY <2>1 DEF Inv, AnswersBelong, Fits
  <2>3. PICK answer \in SUBSET Ids : answer = Thread(c)
    BY ThreadIds DEF Inv
  <2>4. PICK new : new = [request[r] EXCEPT !.kind = "list", !.answer = answer]
    OBVIOUS
  <2>5. /\ new \in [kind : Kinds, of : Places, answer : SUBSET Ids]
        /\ new.of = c /\ new.answer = answer
    <3>1. PICK old \in [kind : Kinds, of : Places, answer : SUBSET Ids] : old = request[r]
      BY <1>0
    <3>2. new = [old EXCEPT !.kind = "list", !.answer = answer] /\ old.of = c
      BY <2>2, <2>4, <3>1
    <3> QED  BY <3>1, <3>2 DEF Kinds, Places
  <2>6. request' = [request EXCEPT ![r] = new] /\ answer \subseteq (Thread(c))'
    BY <1>0, <1>3, <1>8, <2>2, <2>3, <2>4 DEF ServeList, ServerKept
  <2>7. RequestsKept
    BY <1>3, <2>5, <2>6, RequestMoves
  <2> QED  BY <1>2, <1>3, <1>4, <1>8, <2>7, ViewStill, PartsSuffice DEF ServeList
<1>9. CASE Land(r) \/ Fail(r)
  <2>1. Release(r)
    BY <1>9 DEF Land, LandList, LandSend, Fail
  <2>2. RequestsKept
    BY <1>3, <2>1, RequestReleased
  <2>3. shown' \in [Ids -> {0, 1}]
    <3>1. CASE LandList(r)
      BY <3>1 DEF LandList
    <3>2. CASE LandSend(r)
      <4>1. request[r].answer \subseteq Ids
        BY <1>0
      <4> QED  BY <3>2, <4>1, AddKeeps DEF LandSend
    <3>3. CASE Fail(r)
      BY <3>3, ShownOnce DEF Fail
    <3> QED  BY <1>9, <3>1, <3>2, <3>3 DEF Land
  <2>4. ViewKept
    BY <1>2, <2>3, Types DEF Inv, view, ViewKept, Placed
  <2> QED  BY <1>3, <1>4, <2>2, <2>4, PartsSuffice
<1> QED  BY <1>6, <1>7, <1>8, <1>9 DEF Serve

-----------------------------------------------------------------------------
\* Every step keeps the invariant.
LEMMA NextInv == Inv /\ [Next]_vars => Inv'
PROOF
<1> SUFFICES ASSUME Inv, [Next]_vars PROVE Inv'
  OBVIOUS
<1>1. CASE UNCHANGED vars
  <2>1. UNCHANGED stored /\ unpublished' \subseteq unpublished /\ UNCHANGED creating /\ UNCHANGED view /\ UNCHANGED shown
        /\ UNCHANGED stream /\ UNCHANGED request /\ UNCHANGED selected /\ UNCHANGED live
    BY <1>1 DEF vars, view
  <2>2. ServerKept
    BY <2>1, ServerStill
  <2> QED  BY <2>1, <2>2, ViewStill, StreamStill, RequestsUnchanged, PartsSuffice
<1>2. CASE Next
  BY <1>2, ServerSteps, StreamSteps, NavigateSteps, RequestSteps DEF Next
<1> QED  BY <1>1, <1>2

\* The invariant holds in every state, whatever the customer, the analysts,
\* the network and Redis do.
THEOREM Invariance == Spec => []Inv
PROOF
  BY InitInv, NextInv, PTL DEF Spec

\* The variables of the live thread keep their types.
THEOREM TypeCorrect == Spec => []TypeOK
PROOF
<1>1. Inv => TypeOK
  BY DEF Inv
<1> QED  BY <1>1, Invariance, PTL

\* Events, polls and answers to sends never put a message into the list twice.
THEOREM NothingTwice == Spec => []NoDuplicates
PROOF
<1>1. Inv => NoDuplicates
  BY DEF Inv
<1> QED  BY <1>1, Invariance, PTL

-----------------------------------------------------------------------------
\* Messages that are stored keep their conversation.
LEMMA StoredStays ==
  ASSUME Inv, [Next]_vars, NEW m \in DOMAIN stored
  PROVE  m \in DOMAIN stored' /\ stored'[m] = stored[m]
PROOF
<1>1. stored \in Seq(Conversations)
  BY DEF Inv, TypeOK
<1>2. CASE UNCHANGED stored
  BY <1>2
<1>3. ASSUME NEW c \in Conversations, Insert(c)
      PROVE  m \in DOMAIN stored' /\ stored'[m] = stored[m]
  BY <1>1, <1>3 DEF Insert
<1>4. UNCHANGED stored \/ \E c \in Conversations : Insert(c)
  <2>1. CASE \E r \in Requests : ServeSend(r)
    BY <2>1 DEF ServeSend, Inv, AnswersBelong, Fits
  <2>2. CASE ~\E r \in Requests : ServeSend(r)
    BY <2>2 DEF Next, Create, Store, Publish, PublishFails, Stream, Connect, Deliver, Heartbeat,
              StreamEnds, StreamBreaks, Navigate, Hide, Leave, Reopen, Open, Effect, Answered, Created, CreatedHere, CreatedUnseen, Poll, Send,
              Serve, ServeList, Land, LandList, LandSend, Fail, server, vars
  <2> QED  BY <2>1, <2>2
<1> QED  BY <1>2, <1>3, <1>4

\* Messages that a step stores have ids.
LEMMA StoredIds ==
  ASSUME Inv, [Next]_vars
  PROVE  DOMAIN stored' \subseteq Ids
PROOF
<1>1. TypeOK'
  BY NextInv DEF Inv
<1>2. stored' \in Seq(Conversations) /\ Len(stored') <= MaxMessages
  BY <1>1 DEF TypeOK
<1> QED  BY <1>2, ThreadAssumption DEF Ids

\* What a message comes to the list by: an event of the conversation whose
\* effect is in force, or the answer to a request.
LEMMA Entering ==
  ASSUME Inv, [Next]_vars, NEW m \in DOMAIN stored', shown[m] = 0, shown'[m] > 0
  PROVE  \/ Deliver /\ mounted /\ m \in Thread(live)
         \/ \E r \in Requests : Land(r) /\ m \in Thread(request[r].of)
PROOF
<1>1. shown \in [Ids -> {0, 1}]
  BY ShownOnce
<1>2. shown # shown'
  OBVIOUS
<1>3. CASE Deliver
  <2>0. mounted
    BY <1>3 DEF Deliver, Inv, StreamFollows, Placed
  <2>1. /\ Head(stream.queue) \in Thread(live)
        /\ shown' = [shown EXCEPT ![Head(stream.queue)] = IF @ = 0 THEN 1 ELSE @]
    BY <1>3, HeadBelongs DEF Deliver, Add
  <2>2. m = Head(stream.queue)
    BY <1>1, <2>1
  <2> QED  BY <1>3, <2>0, <2>1, <2>2
<1>4. ASSUME NEW r \in Requests, Land(r)
      PROVE  m \in Thread(request[r].of)
  <2>1. request[r].answer \subseteq Thread(request[r].of)
    BY DEF Inv, AnswersBelong, Fits
  <2>2. CASE LandList(r)
    <3>1. shown' = [n \in Ids |-> IF n \in request[r].answer THEN 1 ELSE 0]
      BY <2>2 DEF LandList
    <3>2. m \in Ids
      BY StoredIds
    <3> QED  BY <2>1, <3>1, <3>2
  <2>3. CASE LandSend(r)
    <3>1. PICK n \in request[r].answer : shown' = [shown EXCEPT ![n] = IF @ = 0 THEN 1 ELSE @]
      BY <2>3 DEF LandSend, Add
    <3>2. m = n
      BY <1>1, <3>1
    <3> QED  BY <2>1, <3>1, <3>2
  <2> QED  BY <1>4, <2>2, <2>3 DEF Land
<1>5. CASE Leave
  <2>1. shown' = [n \in Ids |-> 0] /\ m \in Ids
    BY <1>5, StoredIds DEF Leave
  <2> QED  BY <2>1
<1>6. Deliver \/ Leave \/ \E r \in Requests : Land(r)
  BY <1>2 DEF Next, Create, Store, Publish, PublishFails, Stream, Connect, Heartbeat,
              StreamEnds, StreamBreaks, Navigate, Hide, Reopen, Open, Effect, Answered, Created, CreatedHere, CreatedUnseen, Poll, Send,
              Serve, ServeList, ServeSend, Fail, server, vars
<1> QED  BY <1>3, <1>4, <1>5, <1>6

\* A message of another conversation gets into the open thread only by the late
\* answer to a request made for that other conversation, or by the stream of the
\* thread that was open before, until the effect of the new one has run.
THEOREM StrangersOnlyLate == Spec => StrangersAreLate
PROOF
<1> DEFINE Strange ==
      \A m \in DOMAIN stored' :
        (shown[m] = 0 /\ shown'[m] > 0 /\ selected # stored'[m]) =>
          \/ \E r \in Requests : Land(r) /\ request[r].of = stored'[m]
          \/ Deliver /\ mounted /\ live = stored'[m]
<1>1. Inv /\ [Next]_vars => [Strange]_vars
  <2> SUFFICES ASSUME Inv, [Next]_vars,
                      NEW m \in DOMAIN stored', shown[m] = 0, shown'[m] > 0, selected # stored'[m]
               PROVE  \/ \E r \in Requests : Land(r) /\ request[r].of = stored'[m]
                      \/ Deliver /\ mounted /\ live = stored'[m]
    OBVIOUS
  <2>1. \A c : m \in Thread(c) => stored'[m] = c
    BY StoredStays DEF Thread
  <2> QED  BY <2>1, Entering
<1> QED  BY <1>1, Invariance, PTL DEF Spec, StrangersAreLate

=============================================================================
