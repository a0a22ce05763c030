----------------------- MODULE CustomerRequests_proofs -----------------------
(***************************************************************************)
(* Proofs about CustomerRequests, for any number of workers, keys, repeated *)
(* requests and crashes.                                                   *)
(***************************************************************************)
EXTENDS CustomerRequests, WellFoundedInduction, TLAPS

\* A conversation and the event of its key name each other.
ConversationRows ==
  /\ \A c \in DOMAIN conversations : events[conversations[c].key] = c
  /\ \A k \in CreateKeys : events[k] # 0 => conversations[events[k]].key = k

\* The conversation a message with this key belongs to.
Home(k) == IF k \in CreateKeys THEN events[k] ELSE events[Into[k]]

\* A message is in the conversation of its key; an opening message is the
\* oldest there; and a key with an event has a message.
MessageRows ==
  /\ \A m \in DOMAIN messages :
       messages[m].conversation = Home(messages[m].key) /\ messages[m].conversation # 0
  /\ \A m, n \in DOMAIN messages :
       messages[m].key \in CreateKeys /\ messages[n].conversation = messages[m].conversation
         => m <= n
  /\ \A k \in Keys : events[k] # 0 => \E m \in DOMAIN messages : messages[m].key = k

\* What a request knows of the message it has stored, by its step.
Knows(q, row) ==
  /\ row.key = q.key
  /\ q.step \in {"record", "post", "delivered", "failed"} => row.delivery = "pending"
  /\ q.step = "record" => q.key \in SendKeys /\ row.posts = 0
  /\ q.step = "post" => row.posts <= q.tries
  /\ q.step = "delivered" => row.posts > 0
  /\ q.step = "thread" => q.key \in CreateKeys /\ row.delivery = "delivered"
  /\ q.step = "answer" => row.posts = 0 \/ row.delivery # "pending"

Early == {"idle", "create", "insert"}

Fits(q) ==
  /\ q.step = "idle" => q = NoRequest
  /\ q.step \in {"create", "insert"} => q.message = 0
  /\ q.step = "create" => q.key \in CreateKeys
  /\ q.step = "insert" => q.key \in SendKeys /\ events[Into[q.key]] # 0
  /\ q.step \notin Early => q.message # 0 /\ Knows(q, messages[q.message])

HandKnows == \A w \in Workers : Fits(req[w])

\* No two requests have the same message in hand.
Alone ==
  \A v, w \in Workers : v # w /\ req[v].message # 0 => req[v].message # req[w].message

\* What was answered names a message of the conversation answered.
Answered ==
  \A answer \in answers :
    /\ messages[answer.message].conversation = answer.conversation
    /\ answer.key \in CreateKeys => messages[answer.message].key = answer.key
    /\ answer.conversation = Home(answer.key)
    /\ \E m \in DOMAIN messages : messages[m].key = answer.key

\* DeliveryMarks, with the opening message in place of the oldest.
Marks ==
  /\ \A m \in DOMAIN messages :
       /\ messages[m].posts <= Attempts
       /\ messages[m].delivery = "delivered" => messages[m].posts > 0
       /\ messages[m].posts > 0 => messages[m].delivery # "pending" \/ InHand(m) \/ crashes > 0
  /\ \A m \in DOMAIN messages :
       messages[m].key \in CreateKeys /\ conversations[messages[m].conversation].thread
         => messages[m].delivery = "delivered"

Inv == /\ TypeOK /\ ConversationRows /\ MessageRows
       /\ HandKnows /\ Alone /\ Answered /\ Marks

-----------------------------------------------------------------------------
\* A set of positions that is not empty has a greatest.
LEMMA Greatest ==
  ASSUME NEW L \in Nat, NEW S \in SUBSET (1..L), S # {}
  PROVE  \E m \in S : \A n \in S : n <= m
PROOF
<1> DEFINE T == {x \in Nat : L - x \in S}
<1>1. \A m \in S : m \in Nat /\ m <= L /\ L - m \in T
  <2>1. ASSUME NEW m \in S PROVE m \in Nat /\ m <= L /\ L - m \in Nat /\ L - (L - m) = m
    OBVIOUS
  <2> QED  BY <2>1
<1>2. T \subseteq Nat /\ T # {}
  BY <1>1
<1>3. PICK x \in T : \A y \in T : ~(<<y, x>> \in OpToRel(<, Nat))
  BY ONLY <1>2, NatLessThanWellFounded, WFMin
<1>4. \A y \in T : ~(y < x)
  BY <1>2, <1>3 DEF OpToRel
<1>5. L - x \in S /\ x \in Nat
  OBVIOUS
<1>6. ASSUME NEW n \in S PROVE n <= L - x
  <2>1. ~(L - n < x) /\ n \in Nat
    BY <1>1, <1>4
  <2> QED  BY <1>5, <2>1
<1> QED  BY <1>5, <1>6

\* The types of the parts, as each lemma needs them.
RequestTypes(d) ==
  [key : Keys \cup {"none"}, step : Steps, message : {0} \cup d, tries : 0..2]

\* The parts of the type invariant that the lemmas below take for granted.
LEMMA Types ==
  ASSUME TypeOK
  PROVE  /\ conversations \in Seq(Conversations) /\ messages \in Seq(Messages)
         /\ DOMAIN conversations = 1..Len(conversations) /\ Len(conversations) \in Nat
         /\ DOMAIN messages = 1..Len(messages) /\ Len(messages) \in Nat
         /\ \A m \in DOMAIN messages : messages[m] \in Messages
         /\ \A c \in DOMAIN conversations : conversations[c] \in Conversations
         /\ events \in [Keys -> 0..Len(conversations)]
         /\ answers \subseteq [key : Keys, conversation : DOMAIN conversations,
                               message : DOMAIN messages]
         /\ req \in [Workers -> RequestTypes(DOMAIN messages)]
         /\ requests \in Nat /\ crashes \in Nat
PROOF
<1>1. conversations \in Seq(Conversations) /\ messages \in Seq(Messages)
  BY DEF TypeOK
<1>2. req \in [Workers -> RequestTypes(DOMAIN messages)]
  BY DEF TypeOK, RequestTypes, Attempts
<1> QED  BY <1>1, <1>2 DEF TypeOK

\* What holds of the rows gives the conversation of every message, the oldest
\* message of every conversation of a key, and the only message of that key.
LEMMA Homes ==
  ASSUME TypeOK, ConversationRows, MessageRows
  PROVE  /\ \A m \in DOMAIN messages : messages[m].conversation \in DOMAIN conversations
         /\ \A k \in CreateKeys : events[k] # 0 =>
              /\ events[k] \in DOMAIN conversations
              /\ Oldest(events[k]) \in DOMAIN messages
              /\ messages[Oldest(events[k])].key = k
              /\ messages[Oldest(events[k])].conversation = events[k]
              /\ \A m \in DOMAIN messages : messages[m].key = k => m = Oldest(events[k])
PROOF
<1>1. ASSUME NEW m \in DOMAIN messages
      PROVE  messages[m].conversation \in DOMAIN conversations
  <2>1. messages[m].key \in CreateKeys \cup SendKeys /\ messages[m].conversation # 0
        /\ messages[m].conversation = Home(messages[m].key)
    BY Types DEF MessageRows, Messages, Keys
  <2>2. Home(messages[m].key) \in 0..Len(conversations)
    BY <2>1, Types, RequestsAssumption DEF Home, Keys
  <2> QED  BY <2>1, <2>2, Types
<1>2. ASSUME NEW k \in CreateKeys, events[k] # 0
      PROVE  /\ events[k] \in DOMAIN conversations
             /\ Oldest(events[k]) \in DOMAIN messages
             /\ messages[Oldest(events[k])].key = k
             /\ messages[Oldest(events[k])].conversation = events[k]
             /\ \A m \in DOMAIN messages : messages[m].key = k => m = Oldest(events[k])
  <2>1. events[k] \in 1..Len(conversations) /\ k \in Keys
    BY <1>2, Types DEF Keys
  <2>2. PICK o \in DOMAIN messages : messages[o].key = k
    BY <1>2, <2>1 DEF MessageRows
  <2>3. messages[o].conversation = events[k]
    BY <2>2 DEF MessageRows, Home
  <2>4. \A n \in Of(events[k]) : o <= n
    BY <2>2, <2>3 DEF MessageRows, Of
  <2>5. o \in Of(events[k])
    BY <2>2, <2>3 DEF Of
  <2>6. \A n \in Of(events[k]) : n \in Nat
    BY Types DEF Of
  <2>7. Oldest(events[k]) \in Of(events[k]) /\ \A n \in Of(events[k]) : Oldest(events[k]) <= n
    BY <2>4, <2>5 DEF Oldest
  <2>8. Oldest(events[k]) = o
    BY <2>4, <2>5, <2>6, <2>7
  <2>9. ASSUME NEW m \in DOMAIN messages, messages[m].key = k PROVE m = o
    <3>1. messages[m].conversation = events[k]
      BY <2>9 DEF MessageRows, Home
    <3>2. m <= o /\ o <= m
      BY <2>2, <2>3, <2>9, <3>1 DEF MessageRows
    <3> QED  BY <3>2, Types
  <2> QED  BY <2>1, <2>2, <2>3, <2>8, <2>9, Types
<1> QED  BY <1>1, <1>2

\* A conversation of a key has a newest message.
LEMMA NewestBelongs ==
  ASSUME TypeOK, ConversationRows, MessageRows, NEW k \in CreateKeys, events[k] # 0
  PROVE  /\ Newest(events[k]) \in DOMAIN messages
         /\ messages[Newest(events[k])].conversation = events[k]
PROOF
<1>1. Of(events[k]) \in SUBSET (1..Len(messages)) /\ Of(events[k]) # {} /\ Len(messages) \in Nat
  BY Types, Homes DEF Of
<1>2. \E m \in Of(events[k]) : \A n \in Of(events[k]) : n <= m
  BY <1>1, Greatest
<1>3. Newest(events[k]) \in Of(events[k])
  BY <1>2 DEF Newest
<1> QED  BY <1>3 DEF Of

-----------------------------------------------------------------------------
(* What steps have in common.                                              *)

\* Rows keep what ConversationRows and MessageRows are about.
RowsStand ==
  /\ UNCHANGED events
  /\ DOMAIN conversations' = DOMAIN conversations
  /\ \A c \in DOMAIN conversations : conversations'[c].key = conversations[c].key
  /\ DOMAIN messages' = DOMAIN messages
  /\ \A m \in DOMAIN messages :
       /\ messages'[m].key = messages[m].key
       /\ messages'[m].conversation = messages[m].conversation

\* Where keys and places of rows stand, so does what is said of them.
LEMMA RowsStay ==
  ASSUME Inv, RowsStand
  PROVE  ConversationRows' /\ MessageRows'
PROOF
<1>1. TypeOK /\ ConversationRows /\ MessageRows
  BY DEF Inv
<1>2. ConversationRows'
  <2>1. \A k \in CreateKeys : events[k] # 0 => events[k] \in DOMAIN conversations
    BY <1>1, Homes
  <2> QED  BY <1>1, <2>1 DEF RowsStand, ConversationRows
<1>3. \A k : Home(k)' = Home(k)
  BY DEF RowsStand, Home
<1>4. MessageRows'
  BY <1>1, <1>3 DEF RowsStand, MessageRows
<1> QED  BY <1>2, <1>4

\* And so does what was answered.
LEMMA AnsweredStay ==
  ASSUME Inv, RowsStand, UNCHANGED answers
  PROVE  Answered'
PROOF
<1>1. \A k : Home(k)' = Home(k)
  BY DEF RowsStand, Home
<1>2. \A answer \in answers : answer.message \in DOMAIN messages
  BY Types DEF Inv
<1> QED  BY <1>1, <1>2 DEF Inv, RowsStand, Answered

\* A request that is not moved still fits, if its message is not touched.
LEMMA OtherFits ==
  ASSUME Inv, NEW v \in Workers, req'[v] = req[v],
         \A k \in CreateKeys : events[k] # 0 => events'[k] # 0,
         req[v].message # 0 => messages'[req[v].message] = messages[req[v].message]
  PROVE  Fits(req[v])'
PROOF
<1>1. Fits(req[v])
  BY DEF Inv, HandKnows
<1>2. req[v].key \in SendKeys => Into[req[v].key] \in CreateKeys
  BY RequestsAssumption
<1> QED  BY <1>1, <1>2 DEF Fits, Knows, Early

\* One request moves to q, whose message is its own.
LEMMA HandsMove ==
  ASSUME Inv, NEW w \in Workers, NEW q,
         req' = [req EXCEPT ![w] = q],
         q.message \in {0, req[w].message} \/ q.message \notin DOMAIN messages,
         q \in RequestTypes(DOMAIN messages'),
         DOMAIN messages \subseteq DOMAIN messages',
         \A k \in CreateKeys : events[k] # 0 => events'[k] # 0,
         \A m \in DOMAIN messages : m # req[w].message => messages'[m] = messages[m],
         Fits(req[w])'
  PROVE  HandKnows' /\ Alone' /\ req' \in [Workers -> RequestTypes(DOMAIN messages')]
PROOF
<1>1. req \in [Workers -> RequestTypes(DOMAIN messages)]
  BY Types DEF Inv
<1>2. req'[w] = q /\ \A v \in Workers : v # w => req'[v] = req[v]
  BY <1>1
<1>3. \A v \in Workers : req[v].message \in {0} \cup DOMAIN messages
  BY <1>1 DEF RequestTypes
<1>4. ASSUME NEW v \in Workers, v # w PROVE Fits(req[v])'
  <2>1. req[v].message # 0 => req[v].message # req[w].message
    BY <1>4 DEF Inv, Alone
  <2> QED  BY <1>2, <1>3, <1>4, <2>1, OtherFits
<1>5. HandKnows'
  BY <1>4 DEF HandKnows
<1>6. Alone'
  <2>1. ASSUME NEW u \in Workers, NEW v \in Workers, u # v, req'[u].message # 0
        PROVE  req'[u].message # req'[v].message
    <3>1. CASE u # w /\ v # w
      BY <1>2, <2>1, <3>1 DEF Inv, Alone
    <3>2. CASE u = w
      BY <1>2, <1>3, <2>1, <3>2 DEF Inv, Alone
    <3>3. CASE v = w
      BY <1>2, <1>3, <2>1, <3>3 DEF Inv, Alone
    <3> QED  BY <3>1, <3>2, <3>3
  <2> QED  BY <2>1 DEF Alone
<1>7. RequestTypes(DOMAIN messages) \subseteq RequestTypes(DOMAIN messages')
  BY DEF RequestTypes
<1>8. req' \in [Workers -> RequestTypes(DOMAIN messages')]
  BY <1>1, <1>7
<1> QED  BY <1>5, <1>6, <1>8

\* Types, part by part.
LEMMA TypesBack ==
  ASSUME conversations' \in Seq(Conversations), messages' \in Seq(Messages),
         events' \in [Keys -> 0..Len(conversations')],
         answers' \subseteq [key : Keys, conversation : DOMAIN conversations',
                            message : DOMAIN messages'],
         req' \in [Workers -> RequestTypes(DOMAIN messages')],
         requests' \in Nat, crashes' \in Nat
  PROVE  TypeOK'
PROOF
  BY DEF TypeOK, RequestTypes, Attempts

-----------------------------------------------------------------------------
(* The kinds of steps.                                                     *)

\* A request that has its message writes it, and goes on.
LEMMA UpdateKeeps ==
  ASSUME Inv, NEW w \in Workers, req[w].step \notin Early,
         NEW row \in Messages,
         row.key = messages[req[w].message].key,
         row.conversation = messages[req[w].message].conversation,
         row.posts <= Attempts,
         row.delivery = "delivered" => row.posts > 0,
         messages[req[w].message].delivery = "delivered" => row.delivery = "delivered",
         messages' = [messages EXCEPT ![req[w].message] = row],
         NEW q \in RequestTypes(DOMAIN messages),
         req' = [req EXCEPT ![w] = q],
         q.message = req[w].message, q.step \notin Early, Knows(q, row),
         UNCHANGED <<conversations, events, answers, requests, crashes>>
  PROVE  Inv'
PROOF
<1> DEFINE m == req[w].message
<1>1. m \in DOMAIN messages /\ m # 0
  <2>1. req[w] \in RequestTypes(DOMAIN messages)
    BY Types DEF Inv
  <2>2. m # 0
    BY DEF Inv, HandKnows, Fits
  <2> QED  BY <2>1, <2>2 DEF RequestTypes
<1>2. /\ messages' \in Seq(Messages) /\ DOMAIN messages' = DOMAIN messages
      /\ messages'[m] = row
      /\ \A n \in DOMAIN messages : n # m => messages'[n] = messages[n]
  <2>1. messages \in Seq(Messages)
    BY Types DEF Inv
  <2> QED  BY <1>1, <2>1
<1>3. RowsStand
  BY <1>2 DEF RowsStand
<1>4. ConversationRows' /\ MessageRows' /\ Answered'
  BY <1>3, RowsStay, AnsweredStay
<1>5. req'[w] = q /\ \A v \in Workers : v # w => req'[v] = req[v]
  BY Types DEF Inv
<1>6. Fits(req[w])'
  BY <1>1, <1>2, <1>5 DEF Fits, Early, Knows
<1>7. HandKnows' /\ Alone' /\ req' \in [Workers -> RequestTypes(DOMAIN messages')]
  BY <1>2, <1>6, HandsMove
<1>8. Marks'
  <2>1. ASSUME NEW n \in DOMAIN messages
        PROVE  /\ messages'[n].posts <= Attempts
               /\ messages'[n].delivery = "delivered" => messages'[n].posts > 0
               /\ messages'[n].posts > 0 => messages'[n].delivery # "pending" \/ InHand(n)' \/ crashes > 0
    <3>1. CASE n = m
      BY <1>2, <1>5, <3>1 DEF InHand
    <3>2. CASE n # m
      <4>1. InHand(n) => InHand(n)'
        BY <1>5, <3>2 DEF InHand
      <4> QED  BY <1>2, <3>2, <4>1 DEF Inv, Marks
    <3> QED  BY <3>1, <3>2
  <2>2. ASSUME NEW n \in DOMAIN messages, messages'[n].key \in CreateKeys,
               conversations'[messages'[n].conversation].thread
        PROVE  messages'[n].delivery = "delivered"
    <3>1. messages[n].key \in CreateKeys /\ conversations[messages[n].conversation].thread
      BY <1>3, <2>2 DEF RowsStand
    <3>2. messages[n].delivery = "delivered"
      BY <3>1 DEF Inv, Marks
    <3> QED  BY <1>2, <3>2
  <2> QED  BY <1>2, <2>1, <2>2 DEF Marks
<1>9. TypeOK'
  BY <1>2, <1>7, Types, TypesBack DEF Inv
<1> QED  BY <1>4, <1>7, <1>8, <1>9 DEF Inv

\* A request is answered from the rows, or has failed before it wrote any.
LEMMA ReplyKeeps ==
  ASSUME Inv, NEW k \in Keys, NEW c \in DOMAIN conversations, NEW m \in DOMAIN messages,
         Reply(k, c, m), messages[m].conversation = c, c = Home(k),
         k \in CreateKeys => messages[m].key = k,
         \E n \in DOMAIN messages : messages[n].key = k,
         UNCHANGED <<conversations, messages, events>>
  PROVE  /\ Answered'
         /\ answers' \subseteq [key : Keys, conversation : DOMAIN conversations',
                                message : DOMAIN messages']
PROOF
<1>1. answers' = answers \cup {[key |-> k, conversation |-> c, message |-> m]}
  BY DEF Reply
<1>2. Answered'
  BY <1>1 DEF Inv, Answered, Home
<1>3. answers' \subseteq [key : Keys, conversation : DOMAIN conversations, message : DOMAIN messages]
  BY <1>1, Types DEF Inv
<1> QED  BY <1>2, <1>3

\* A step that changes no row, and what it must see to.
LEMMA HandsKeep ==
  ASSUME Inv, UNCHANGED <<conversations, messages, events>>,
         HandKnows', Alone', Answered',
         req' \in [Workers -> RequestTypes(DOMAIN messages')],
         answers' \subseteq [key : Keys, conversation : DOMAIN conversations',
                            message : DOMAIN messages'],
         requests' \in Nat, crashes' \in Nat, crashes > 0 => crashes' > 0,
         \A m \in DOMAIN messages :
           messages[m].posts > 0 /\ messages[m].delivery = "pending" /\ InHand(m)
             => InHand(m)' \/ crashes' > 0
  PROVE  Inv'
PROOF
<1>1. RowsStand
  BY DEF RowsStand
<1>2. ConversationRows' /\ MessageRows'
  BY <1>1, RowsStay
<1>3. Marks'
  <2>1. ASSUME NEW m \in DOMAIN messages
        PROVE  /\ messages[m].posts <= Attempts
               /\ messages[m].delivery = "delivered" => messages[m].posts > 0
               /\ messages[m].posts > 0 => messages[m].delivery # "pending" \/ InHand(m)' \/ crashes' > 0
    BY DEF Inv, Marks
  <2> QED  BY <2>1 DEF Inv, Marks
<1>4. TypeOK'
  BY Types, TypesBack DEF Inv
<1> QED  BY <1>2, <1>3, <1>4 DEF Inv

\* A request ends, answered or not.
LEMMA FinishKeeps ==
  ASSUME Inv, NEW w \in Workers, Finish(w),
         UNCHANGED <<conversations, messages, events>>, Answered',
         answers' \subseteq [key : Keys, conversation : DOMAIN conversations',
                            message : DOMAIN messages'],
         requests' \in Nat, crashes' \in Nat, crashes > 0 => crashes' > 0,
         \/ crashes' > 0
         \/ req[w].message = 0
         \/ messages[req[w].message].posts = 0
         \/ messages[req[w].message].delivery # "pending"
  PROVE  Inv'
PROOF
<1>1. req' = [req EXCEPT ![w] = NoRequest] /\ NoRequest.message = 0 /\ NoRequest.step = "idle"
  BY DEF Finish, NoRequest
<1>2. NoRequest \in RequestTypes(DOMAIN messages')
  BY DEF NoRequest, RequestTypes, Steps
<1>3. req'[w] = NoRequest /\ \A v \in Workers : v # w => req'[v] = req[v]
  BY <1>1, Types DEF Inv
<1>4. Fits(req[w])'
  BY <1>1, <1>3 DEF Fits, Early
<1>5. HandKnows' /\ Alone' /\ req' \in [Workers -> RequestTypes(DOMAIN messages')]
  BY <1>1, <1>2, <1>4, HandsMove
<1>6. ASSUME NEW m \in DOMAIN messages,
             messages[m].posts > 0, messages[m].delivery = "pending", InHand(m)
      PROVE  InHand(m)' \/ crashes' > 0
  <2>1. PICK v \in Workers : req[v].message = m
    BY <1>6 DEF InHand
  <2>2. CASE v = w
    <3>1. m # 0 /\ messages[m].posts # 0
      BY <1>6, Types DEF Inv
    <3> QED  BY <1>6, <2>1, <2>2, <3>1
  <2>3. CASE v # w
    BY <1>3, <2>1, <2>3 DEF InHand
  <2> QED  BY <2>2, <2>3
<1> QED  BY <1>5, <1>6, HandsKeep

\* A request with an unknown key begins.
LEMMA TakeKeeps ==
  ASSUME Inv, NEW w \in Workers, NEW k \in Keys, NEW step \in {"create", "insert"},
         Start(w), Take(w, k, step),
         step = "create" => k \in CreateKeys,
         step = "insert" => k \in SendKeys /\ events[Into[k]] # 0,
         UNCHANGED <<conversations, messages, events, crashes>>
  PROVE  Inv'
PROOF
<1>1. req[w] = NoRequest /\ requests' = requests + 1 /\ UNCHANGED answers
      /\ req' = [req EXCEPT ![w].key = k, ![w].step = step]
  BY DEF Start, Take
<1>2. PICK q : q = [NoRequest EXCEPT !.key = k, !.step = step]
  OBVIOUS
<1>3. q.key = k /\ q.step = step /\ q.message = 0 /\ q \in RequestTypes(DOMAIN messages')
  <2>1. PICK old \in RequestTypes(DOMAIN messages') : old = NoRequest /\ old.message = 0
    <3>1. NoRequest \in RequestTypes(DOMAIN messages')
      BY DEF NoRequest, RequestTypes, Steps
    <3>2. NoRequest.message = 0
      BY DEF NoRequest
    <3> QED  BY <3>1, <3>2
  <2>2. q = [old EXCEPT !.key = k, !.step = step]
    BY <1>2, <2>1
  <2> QED  BY <2>1, <2>2 DEF RequestTypes, Steps
<1>4. req' = [req EXCEPT ![w] = q]
  BY <1>1, <1>2, Types DEF Inv
<1>5. req'[w] = q /\ \A v \in Workers : v # w => req'[v] = req[v]
  BY <1>4, Types DEF Inv
<1>6. Fits(req[w])'
  BY <1>3, <1>5 DEF Fits, Early
<1>7. HandKnows' /\ Alone' /\ req' \in [Workers -> RequestTypes(DOMAIN messages')]
  BY <1>3, <1>4, <1>6, HandsMove
<1>8. Answered'
  BY <1>1, AnsweredStay DEF RowsStand
<1>9. ASSUME NEW m \in DOMAIN messages, InHand(m) PROVE InHand(m)'
  <2>1. req[w].message = 0 /\ m # 0
    BY <1>1, Types DEF Inv, NoRequest
  <2> QED  BY <1>5, <1>9, <2>1 DEF InHand
<1>10. /\ requests' \in Nat /\ crashes' \in Nat /\ (crashes > 0 => crashes' > 0)
       /\ answers' \subseteq [key : Keys, conversation : DOMAIN conversations', message : DOMAIN messages']
  BY <1>1, Types DEF Inv
<1> QED  BY <1>7, <1>8, <1>9, <1>10, HandsKeep

\* Requests that only look: repetitions, and those that begin.
LEMMA Beginnings ==
  ASSUME Inv, NEW w \in Workers,
         \/ \E k \in CreateKeys : CreateRepeat(w, k) \/ CreateTake(w, k)
         \/ \E k \in SendKeys : SendRepeat(w, k) \/ SendTake(w, k)
  PROVE  Inv'
PROOF
<1>0. TypeOK /\ ConversationRows /\ MessageRows
  BY DEF Inv
<1>1. ASSUME NEW k \in Keys, NEW c \in DOMAIN conversations, NEW m \in DOMAIN messages,
             Start(w), Reply(k, c, m), messages[m].conversation = c, c = Home(k),
             k \in CreateKeys => messages[m].key = k,
             \E n \in DOMAIN messages : messages[n].key = k,
             UNCHANGED <<conversations, messages, events, req, crashes>>
      PROVE  Inv'
  <2>1. /\ Answered'
        /\ answers' \subseteq [key : Keys, conversation : DOMAIN conversations', message : DOMAIN messages']
    BY <1>1, ReplyKeeps
  <2>2. requests' \in Nat /\ crashes' \in Nat /\ (crashes > 0 => crashes' > 0)
    BY <1>1, Types DEF Inv, Start
  <2>3. HandKnows' /\ Alone'
    BY <1>1 DEF Inv, HandKnows, Fits, Knows, Alone
  <2>4. req' \in [Workers -> RequestTypes(DOMAIN messages')]
    BY <1>1, Types DEF Inv
  <2>5. \A n \in DOMAIN messages : InHand(n)' = InHand(n)
    BY <1>1 DEF InHand
  <2> QED  BY <1>1, <2>1, <2>2, <2>3, <2>4, <2>5, HandsKeep
<1>2. ASSUME NEW k \in CreateKeys, CreateRepeat(w, k) PROVE Inv'
  <2>1. k \in Keys /\ events[k] # 0 /\ Home(k) = events[k]
    BY <1>2 DEF Keys, CreateRepeat, Home
  <2>2. /\ events[k] \in DOMAIN conversations
        /\ Oldest(events[k]) \in DOMAIN messages
        /\ messages[Oldest(events[k])].key = k
        /\ messages[Oldest(events[k])].conversation = events[k]
    BY <1>0, <2>1, Homes
  <2> QED  BY <1>1, <1>2, <2>1, <2>2 DEF CreateRepeat
<1>3. ASSUME NEW k \in SendKeys, Known(k)
      PROVE  k \in Keys /\ Into[k] \in CreateKeys /\ events[Into[k]] # 0 /\ k \notin CreateKeys
  <2>1. k \in Keys /\ Into[k] \in CreateKeys /\ k \notin CreateKeys
    BY RequestsAssumption DEF Keys
  <2>2. PICK answer \in answers : answer.key = Into[k]
    BY <1>3 DEF Known
  <2>3. answer.conversation \in 1..Len(conversations) /\ answer.conversation = Home(Into[k])
    BY <2>2, Types DEF Inv, Answered
  <2>4. Home(Into[k]) = events[Into[k]]
    BY <2>1 DEF Home
  <2> QED  BY <2>1, <2>3, <2>4, Types DEF Inv
<1>4. ASSUME NEW k \in SendKeys, SendRepeat(w, k) PROVE Inv'
  <2>1. /\ k \in Keys /\ Into[k] \in CreateKeys /\ events[Into[k]] # 0 /\ k \notin CreateKeys
        /\ events[k] # 0
    BY <1>3, <1>4 DEF SendRepeat
  <2>2. /\ events[Into[k]] \in DOMAIN conversations
        /\ Newest(events[Into[k]]) \in DOMAIN messages
        /\ messages[Newest(events[Into[k]])].conversation = events[Into[k]]
    BY <1>0, <2>1, Homes, NewestBelongs
  <2>3. Home(k) = events[Into[k]] /\ \E n \in DOMAIN messages : messages[n].key = k
    BY <1>0, <2>1 DEF Home, MessageRows
  <2> QED  BY <1>1, <1>4, <2>1, <2>2, <2>3 DEF SendRepeat
<1>5. ASSUME NEW k \in CreateKeys, CreateTake(w, k) PROVE Inv'
  BY <1>5, TakeKeeps DEF CreateTake, Keys
<1>6. ASSUME NEW k \in SendKeys, SendTake(w, k) PROVE Inv'
  BY <1>3, <1>6, TakeKeeps DEF SendTake
<1> QED  BY <1>2, <1>4, <1>5, <1>6

-----------------------------------------------------------------------------
(* Posting to Roam.                                                        *)

\* What a request that has its message knows.
LEMMA HandRow ==
  ASSUME Inv, NEW w \in Workers, req[w].step \notin Early
  PROVE  /\ req[w] \in RequestTypes(DOMAIN messages)
         /\ req[w].message \in DOMAIN messages /\ req[w].message # 0
         /\ messages[req[w].message] \in Messages
         /\ Knows(req[w], messages[req[w].message])
         /\ messages[req[w].message].posts <= Attempts
         /\ messages[req[w].message].delivery = "delivered" => messages[req[w].message].posts > 0
PROOF
<1>1. req[w] \in RequestTypes(DOMAIN messages)
  BY Types DEF Inv
<1>2. req[w].message # 0 /\ Knows(req[w], messages[req[w].message])
  BY DEF Inv, HandKnows, Fits
<1>3. req[w].message \in DOMAIN messages
  BY <1>1, <1>2 DEF RequestTypes
<1> QED  BY <1>1, <1>2, <1>3, Types DEF Inv, Marks

\* Going on to another step changes nothing else of the request.
LEMMA Going ==
  ASSUME Inv, NEW w \in Workers, NEW step \in Steps, Goto(w, step)
  PROVE  \E q \in RequestTypes(DOMAIN messages) :
           /\ req' = [req EXCEPT ![w] = q]
           /\ q.step = step /\ q.key = req[w].key /\ q.message = req[w].message
           /\ q.tries = req[w].tries
PROOF
<1>1. PICK old \in RequestTypes(DOMAIN messages) : old = req[w]
  BY Types DEF Inv
<1>2. PICK q : q = [old EXCEPT !.step = step]
  OBVIOUS
<1>3. /\ q \in RequestTypes(DOMAIN messages)
      /\ q.step = step /\ q.key = old.key /\ q.message = old.message /\ q.tries = old.tries
  BY <1>2 DEF RequestTypes
<1>4. req' = [req EXCEPT ![w] = q]
  BY <1>1, <1>2 DEF Goto
<1> QED  BY <1>1, <1>3, <1>4

\* An attempt to post, after which the request is at q.
LEMMA AttemptKeeps ==
  ASSUME Inv, NEW w \in Workers, req[w].step = "post",
         NEW landed \in BOOLEAN, Copies(req[w].message, landed),
         NEW q \in RequestTypes(DOMAIN messages),
         req' = [req EXCEPT ![w] = q],
         q.message = req[w].message, q.key = req[w].key,
         q.step \in {"post", "delivered", "failed"},
         q.step = "post" => q.tries = req[w].tries + 1,
         q.step = "delivered" => landed,
         UNCHANGED <<conversations, events, answers, requests, crashes>>
  PROVE  Inv'
PROOF
<1>1. req[w].step \notin Early
  BY DEF Early
<1>2. PICK old \in Messages : old = messages[req[w].message]
  BY <1>1, HandRow
<1>3. PICK row : row = [old EXCEPT !.posts = IF landed THEN @ + 1 ELSE @]
  OBVIOUS
<1>4. /\ row \in Messages /\ row.key = old.key /\ row.conversation = old.conversation
      /\ row.delivery = old.delivery
      /\ row.posts = IF landed THEN old.posts + 1 ELSE old.posts
  BY <1>3 DEF Messages
<1>5. messages' = [messages EXCEPT ![req[w].message] = row]
  BY <1>2, <1>3 DEF Copies
<1>6. /\ old.key = req[w].key /\ old.delivery = "pending" /\ old.posts <= req[w].tries
      /\ req[w].tries \in 0..2 /\ old.posts \in Nat
  BY <1>1, <1>2, HandRow DEF Knows, RequestTypes, Messages
<1>7. /\ row.posts \in Nat /\ row.posts <= req[w].tries + 1 /\ row.posts <= Attempts
      /\ landed => row.posts > 0
  BY <1>4, <1>6 DEF Attempts
<1>8. Knows(q, row) /\ q.step \notin Early
  BY <1>4, <1>6, <1>7 DEF Knows, Early
<1>9. row.delivery # "delivered" /\ messages[req[w].message].delivery # "delivered"
  BY <1>2, <1>4, <1>6
<1> QED  BY <1>1, <1>2, <1>4, <1>5, <1>7, <1>8, <1>9, UpdateKeeps

\* An attempt to post keeps the invariant: it counts a copy in Roam only for the
\* message in hand, which nobody else has.
LEMMA Posting ==
  ASSUME Inv, NEW w \in Workers, PostSucceeds(w) \/ PostRetry(w) \/ PostError(w)
  PROVE  Inv'
PROOF
<1>1. ASSUME NEW landed \in BOOLEAN, req[w].step = "post", Copies(req[w].message, landed),
             NEW step \in {"delivered", "failed"}, Goto(w, step), step = "delivered" => landed,
             UNCHANGED <<conversations, events, answers, requests, crashes>>
      PROVE  Inv'
  <2>1. step \in Steps
    BY DEF Steps
  <2>2. PICK q \in RequestTypes(DOMAIN messages) :
           /\ req' = [req EXCEPT ![w] = q]
           /\ q.step = step /\ q.key = req[w].key /\ q.message = req[w].message
    BY <1>1, <2>1, Going
  <2> QED  BY <1>1, <2>2, AttemptKeeps
<1>2. CASE PostSucceeds(w)
  BY <1>1, <1>2 DEF PostSucceeds
<1>3. CASE PostError(w)
  BY <1>1, <1>3 DEF PostError
<1>4. CASE PostRetry(w)
  <2>1. PICK landed \in BOOLEAN : Copies(req[w].message, landed)
    BY <1>4 DEF PostRetry
  <2>2. /\ req[w].step = "post"
        /\ UNCHANGED <<conversations, events, answers, requests, crashes>>
    BY <1>4 DEF PostRetry
  <2>3. CASE req[w].tries + 1 < Attempts
    <3>1. PICK old \in RequestTypes(DOMAIN messages) : old = req[w]
      BY Types DEF Inv
    <3>2. PICK q : q = [old EXCEPT !.tries = old.tries + 1]
      OBVIOUS
    <3>3. old.tries + 1 \in 0..2
      BY <2>3, <3>1 DEF RequestTypes, Attempts
    <3>4. /\ q \in RequestTypes(DOMAIN messages)
          /\ q.step = old.step /\ q.key = old.key /\ q.message = old.message
          /\ q.tries = old.tries + 1
      BY <3>2, <3>3 DEF RequestTypes
    <3>5. req' = [req EXCEPT ![w] = q]
      BY <1>4, <2>3, <3>1, <3>2 DEF PostRetry
    <3> QED  BY <2>1, <2>2, <3>1, <3>4, <3>5, AttemptKeeps
  <2>4. CASE ~(req[w].tries + 1 < Attempts)
    BY <1>1, <1>4, <2>1, <2>2, <2>4 DEF PostRetry
  <2> QED  BY <2>3, <2>4
<1> QED  BY <1>2, <1>3, <1>4

\* Saving the delivery mark keeps it: the mark says what this request's attempts
\* have done, and no other request has made any for this message.
LEMMA Saving ==
  ASSUME Inv, NEW w \in Workers, SaveDelivered(w) \/ SaveFailed(w)
  PROVE  Inv'
PROOF
<1>1. ASSUME NEW step \in {"thread", "answer"}, Goto(w, step),
             NEW mark \in {"delivered", "failed"},
             mark = "delivered" => req[w].step = "delivered",
             mark = "failed" => req[w].step = "failed",
             step = "thread" => req[w].key \in CreateKeys /\ mark = "delivered",
             messages' = [messages EXCEPT ![req[w].message].delivery = mark],
             UNCHANGED <<conversations, events, answers, requests, crashes>>
      PROVE  Inv'
  <2>1. req[w].step \in {"delivered", "failed"} /\ req[w].step \notin Early /\ step \in Steps
    BY <1>1 DEF Steps, Early
  <2>2. PICK q \in RequestTypes(DOMAIN messages) :
           /\ req' = [req EXCEPT ![w] = q]
           /\ q.step = step /\ q.key = req[w].key /\ q.message = req[w].message
    BY <1>1, <2>1, Going
  <2>3. PICK old \in Messages : old = messages[req[w].message]
    BY <2>1, HandRow
  <2>4. PICK row : row = [old EXCEPT !.delivery = mark]
    OBVIOUS
  <2>5. /\ row \in Messages /\ row.key = old.key /\ row.conversation = old.conversation
        /\ row.delivery = mark /\ row.posts = old.posts /\ old.posts \in Nat
    BY <2>4 DEF Messages
  <2>6. messages' = [messages EXCEPT ![req[w].message] = row]
    BY <1>1, <2>3, <2>4
  <2>7. /\ old.key = req[w].key /\ old.delivery = "pending" /\ old.posts <= Attempts
        /\ mark = "delivered" => old.posts > 0
    BY <1>1, <2>1, <2>3, HandRow DEF Knows
  <2>8. Knows(q, row) /\ q.step \notin Early
    BY <1>1, <2>2, <2>5, <2>7 DEF Knows, Early
  <2>9. /\ row.posts <= Attempts /\ (row.delivery = "delivered" => row.posts > 0)
        /\ messages[req[w].message].delivery # "delivered"
    BY <2>3, <2>5, <2>7
  <2> QED  BY <1>1, <2>1, <2>2, <2>3, <2>5, <2>6, <2>8, <2>9, UpdateKeeps
<1>2. CASE SaveDelivered(w)
  BY <1>1, <1>2 DEF SaveDelivered
<1>3. CASE SaveFailed(w)
  BY <1>1, <1>3 DEF SaveFailed
<1> QED  BY <1>2, <1>3

\* Saving the thread's timestamp keeps it: the opening message was posted.
LEMMA SavingThread ==
  ASSUME Inv, NEW w \in Workers, SaveThread(w)
  PROVE  Inv'
PROOF
<1> DEFINE m == req[w].message
           c == messages[m].conversation
<1>1. /\ req[w].step = "thread" /\ req[w].step \notin Early /\ "answer" \in Steps /\ Goto(w, "answer")
      /\ UNCHANGED <<messages, events, answers, requests, crashes>>
  BY DEF SaveThread, Early, Steps
<1>2. /\ m \in DOMAIN messages /\ messages[m].key = req[w].key
      /\ messages[m].key \in CreateKeys /\ messages[m].delivery = "delivered"
  BY <1>1, HandRow DEF Knows
<1>3. c \in DOMAIN conversations
  BY <1>2, Homes DEF Inv
<1>4. PICK old \in Conversations : old = conversations[c]
  BY <1>3, Types DEF Inv
<1>5. PICK row : row = [old EXCEPT !.thread = TRUE]
  OBVIOUS
<1>6. row \in Conversations /\ row.key = old.key
  BY <1>5 DEF Conversations
<1>7. conversations' = [conversations EXCEPT ![c] = row]
  BY <1>4, <1>5 DEF SaveThread
<1>8. /\ conversations' \in Seq(Conversations) /\ DOMAIN conversations' = DOMAIN conversations
      /\ Len(conversations') = Len(conversations)
      /\ conversations'[c] = row
      /\ \A d \in DOMAIN conversations : d # c => conversations'[d] = conversations[d]
  <2>1. conversations \in Seq(Conversations)
    BY Types DEF Inv
  <2> QED  BY <1>3, <1>6, <1>7, <2>1
<1>9. RowsStand
  BY <1>1, <1>4, <1>6, <1>8 DEF RowsStand
<1>10. ConversationRows' /\ MessageRows' /\ Answered'
  BY <1>1, <1>9, RowsStay, AnsweredStay
<1>11. PICK q \in RequestTypes(DOMAIN messages) :
          /\ req' = [req EXCEPT ![w] = q]
          /\ q.step = "answer" /\ q.key = req[w].key /\ q.message = m
  BY <1>1, Going
<1>12. req'[w] = q /\ \A v \in Workers : v # w => req'[v] = req[v]
  BY <1>11, Types DEF Inv
<1>13. Fits(req[w])'
  <2>1. m # 0
    BY <1>1, HandRow
  <2> QED  BY <1>1, <1>2, <1>11, <1>12, <2>1 DEF Fits, Early, Knows
<1>14. HandKnows' /\ Alone' /\ req' \in [Workers -> RequestTypes(DOMAIN messages')]
  BY <1>1, <1>11, <1>13, HandsMove
<1>15. Marks'
  <2>1. ASSUME NEW n \in DOMAIN messages PROVE InHand(n)' = InHand(n)
    BY <1>11, <1>12 DEF InHand
  <2>2. ASSUME NEW n \in DOMAIN messages, messages[n].key \in CreateKeys,
               conversations'[messages[n].conversation].thread
        PROVE  messages[n].delivery = "delivered"
    <3>1. messages[n].conversation \in DOMAIN conversations
      BY Homes DEF Inv
    <3>2. CASE messages[n].conversation = c
      <4>1. m <= n /\ n <= m
        BY <1>2, <2>2, <3>2 DEF Inv, MessageRows
      <4>2. m = n
        BY <1>2, <4>1, Types DEF Inv
      <4> QED  BY <1>2, <4>2
    <3>3. CASE messages[n].conversation # c
      BY <1>8, <2>2, <3>1, <3>3 DEF Inv, Marks
    <3> QED  BY <3>2, <3>3
  <2> QED  BY <1>1, <2>1, <2>2 DEF Inv, Marks
<1>16. TypeOK'
  BY <1>1, <1>8, <1>14, Types, TypesBack DEF Inv
<1> QED  BY <1>10, <1>14, <1>15, <1>16 DEF Inv

-----------------------------------------------------------------------------
(* Ends of requests.                                                       *)

\* A request that ends, by conflict, answer or crash, takes only its own
\* knowledge along; an answer names the message in hand.
LEMMA Endings ==
  ASSUME Inv, NEW w \in Workers,
         CreateConflict(w) \/ SendConflict(w) \/ Answer(w) \/ Crash(w)
  PROVE  Inv'
PROOF
<1>1. /\ Finish(w) /\ UNCHANGED <<conversations, messages, events, requests>>
  BY DEF CreateConflict, SendConflict, Answer, Crash
<1>2. CASE UNCHANGED answers
  <2>1. Answered'
    BY <1>1, <1>2, AnsweredStay DEF RowsStand
  <2>2. answers' \subseteq [key : Keys, conversation : DOMAIN conversations', message : DOMAIN messages']
    BY <1>1, <1>2, Types DEF Inv
  <2>3. requests' \in Nat
    BY <1>1, Types DEF Inv
  <2>4. CASE CreateConflict(w)
    <3>1. req[w].message = 0 /\ UNCHANGED crashes /\ crashes \in Nat
      BY <2>4, Types DEF CreateConflict, Inv, HandKnows, Fits
    <3> QED  BY <1>1, <2>1, <2>2, <2>3, <3>1, FinishKeeps
  <2>5. CASE SendConflict(w)
    <3>1. req[w].step \notin Early /\ UNCHANGED crashes /\ crashes \in Nat
      BY <2>5, Types DEF SendConflict, Early, Inv
    <3>2. messages[req[w].message].posts = 0
      BY <2>5, <3>1, HandRow DEF SendConflict, Knows
    <3> QED  BY <1>1, <2>1, <2>2, <2>3, <3>1, <3>2, FinishKeeps
  <2>6. CASE Crash(w)
    <3>1. crashes' \in Nat /\ crashes' > 0
      BY <2>6, Types DEF Crash, Inv
    <3> QED  BY <1>1, <2>1, <2>2, <2>3, <3>1, FinishKeeps
  <2>7. CASE Answer(w)
    <3>1. /\ req[w].step \notin Early /\ req[w].step = "answer" /\ UNCHANGED crashes /\ crashes \in Nat
      BY <2>7, Types DEF Answer, Early, Inv
    <3>2. messages[req[w].message].posts = 0 \/ messages[req[w].message].delivery # "pending"
      BY <3>1, HandRow DEF Knows
    <3> QED  BY <1>1, <2>1, <2>2, <2>3, <3>1, <3>2, FinishKeeps
  <2> QED  BY <2>4, <2>5, <2>6, <2>7
<1>3. CASE Answer(w)
  <2> DEFINE m == req[w].message
  <2>1. /\ req[w].step \notin Early /\ req[w].step = "answer" /\ UNCHANGED crashes /\ crashes \in Nat
        /\ requests' \in Nat
        /\ Reply(req[w].key, messages[m].conversation, m)
    BY <1>1, <1>3, Types DEF Answer, Early, Inv
  <2>2. /\ m \in DOMAIN messages /\ messages[m].key = req[w].key /\ messages[m].key \in Keys
        /\ messages[m].posts = 0 \/ messages[m].delivery # "pending"
    BY <2>1, HandRow DEF Knows, Messages
  <2>3. messages[m].conversation \in DOMAIN conversations /\ messages[m].conversation = Home(req[w].key)
    BY <2>2, Homes DEF Inv, MessageRows
  <2>4. /\ Answered'
        /\ answers' \subseteq [key : Keys, conversation : DOMAIN conversations', message : DOMAIN messages']
    BY <1>1, <2>1, <2>2, <2>3, ReplyKeeps
  <2> QED  BY <1>1, <2>1, <2>2, <2>4, FinishKeeps
<1> QED  BY <1>2, <1>3 DEF CreateConflict, SendConflict, Crash

-----------------------------------------------------------------------------
(* Steps that store rows.                                                  *)

\* A request whose step and message are written.
Writes(w, step, m) == req' = [req EXCEPT ![w].step = step, ![w].message = m]

\* A request that has stored a message has it in hand.
LEMMA Storing ==
  ASSUME Inv, NEW w \in Workers, NEW step \in Steps, NEW d, NEW m \in d,
         DOMAIN messages \subseteq d, Writes(w, step, m)
  PROVE  \E q \in RequestTypes(d) :
           /\ req' = [req EXCEPT ![w] = q]
           /\ q.step = step /\ q.message = m /\ q.key = req[w].key /\ q.tries = req[w].tries
PROOF
<1>1. PICK old \in RequestTypes(d) : old = req[w]
  <2>1. req[w] \in RequestTypes(DOMAIN messages)
    BY Types DEF Inv
  <2>2. RequestTypes(DOMAIN messages) \subseteq RequestTypes(d)
    BY DEF RequestTypes
  <2> QED  BY <2>1, <2>2
<1>2. PICK q : q = [old EXCEPT !.step = step, !.message = m]
  OBVIOUS
<1>3. /\ q \in RequestTypes(d)
      /\ q.step = step /\ q.message = m /\ q.key = old.key /\ q.tries = old.tries
  BY <1>2 DEF RequestTypes
<1>4. req' = [req EXCEPT ![w] = q]
  BY <1>1, <1>2 DEF Writes
<1> QED  BY <1>1, <1>3, <1>4

\* A new message at the end of the table.
LEMMA Appending ==
  ASSUME Inv, NEW c \in Nat, NEW k \in Keys, messages' = Append(messages, NewMessage(c, k))
  PROVE  /\ messages' \in Seq(Messages) /\ Len(messages') = Len(messages) + 1
         /\ DOMAIN messages' = DOMAIN messages \cup {Len(messages) + 1}
         /\ Len(messages) + 1 \notin DOMAIN messages /\ Len(messages) + 1 # 0
         /\ \A m \in DOMAIN messages : messages'[m] = messages[m] /\ m <= Len(messages) + 1
         /\ messages'[Len(messages) + 1].conversation = c
         /\ messages'[Len(messages) + 1].key = k
         /\ messages'[Len(messages) + 1].posts = 0
         /\ messages'[Len(messages) + 1].delivery = "pending"
PROOF
<1>1. PICK row : row = NewMessage(c, k)
  OBVIOUS
<1>2. /\ row \in Messages /\ row.conversation = c /\ row.key = k /\ row.posts = 0
      /\ row.delivery = "pending"
  BY <1>1 DEF NewMessage, Messages
<1>3. messages \in Seq(Messages) /\ DOMAIN messages = 1..Len(messages) /\ Len(messages) \in Nat
  BY Types DEF Inv
<1>4. /\ messages' \in Seq(Messages) /\ Len(messages') = Len(messages) + 1
      /\ DOMAIN messages' = 1..(Len(messages) + 1)
      /\ \A m \in 1..Len(messages) : messages'[m] = messages[m]
      /\ messages'[Len(messages) + 1] = row
  BY <1>1, <1>2, <1>3
<1> QED  BY <1>2, <1>3, <1>4

\* Marks after a new message, which is not posted yet.
LEMMA AppendingMarks ==
  ASSUME Inv, NEW c \in Nat, NEW k \in Keys, messages' = Append(messages, NewMessage(c, k)),
         NEW w \in Workers, req[w].message = 0,
         \A v \in Workers : v # w => req'[v] = req[v],
         UNCHANGED crashes
  PROVE  \A m \in DOMAIN messages' :
           /\ messages'[m].posts <= Attempts
           /\ messages'[m].delivery = "delivered" => messages'[m].posts > 0
           /\ messages'[m].posts > 0 => messages'[m].delivery # "pending" \/ InHand(m)' \/ crashes' > 0
PROOF
<1> SUFFICES ASSUME NEW m \in DOMAIN messages'
             PROVE  /\ messages'[m].posts <= Attempts
                    /\ messages'[m].delivery = "delivered" => messages'[m].posts > 0
                    /\ messages'[m].posts > 0 =>
                         messages'[m].delivery # "pending" \/ InHand(m)' \/ crashes' > 0
  OBVIOUS
<1>1. CASE m \in DOMAIN messages
  <2>1. InHand(m) => InHand(m)'
    BY <1>1, Types DEF Inv, InHand
  <2> QED  BY <1>1, <2>1, Appending DEF Inv, Marks
<1>2. CASE m \notin DOMAIN messages
  BY <1>2, Appending DEF Attempts
<1> QED  BY <1>1, <1>2

\* A sent message is newer than all others, hence not an opening one.
LEMMA SendInserts ==
  ASSUME Inv, NEW w \in Workers, SendInsert(w)
  PROVE  Inv'
PROOF
<1> DEFINE k == req[w].key
           c == events[Into[k]]
           n == Len(messages) + 1
<1>1. /\ req[w].message = 0 /\ k \in SendKeys /\ c # 0
      /\ messages' = Append(messages, NewMessage(c, k))
      /\ req' = [req EXCEPT ![w].step = "record", ![w].message = n]
      /\ UNCHANGED <<conversations, events, answers, requests, crashes>>
  BY DEF SendInsert, Inv, HandKnows, Fits
<1>2. /\ k \in Keys /\ k \notin CreateKeys /\ Into[k] \in CreateKeys /\ Into[k] \in Keys
      /\ c \in DOMAIN conversations /\ c \in Nat
  <2>1. k \in Keys /\ k \notin CreateKeys /\ Into[k] \in CreateKeys /\ Into[k] \in Keys
    BY <1>1, RequestsAssumption DEF Keys
  <2> QED  BY <1>1, <2>1, Types DEF Inv
<1>3. /\ messages' \in Seq(Messages) /\ Len(messages') = Len(messages) + 1
      /\ DOMAIN messages' = DOMAIN messages \cup {n}
      /\ n \notin DOMAIN messages /\ n # 0
      /\ \A m \in DOMAIN messages : messages'[m] = messages[m] /\ m <= n
      /\ messages'[n].conversation = c /\ messages'[n].key = k
      /\ messages'[n].posts = 0 /\ messages'[n].delivery = "pending"
  BY <1>1, <1>2, Appending
<1>4. PICK q \in RequestTypes(DOMAIN messages') :
           /\ req' = [req EXCEPT ![w] = q]
           /\ q.step = "record" /\ q.message = n /\ q.key = k
  <2>1. Writes(w, "record", n)
    BY <1>1 DEF Writes
  <2>2. "record" \in Steps /\ n \in DOMAIN messages' /\ DOMAIN messages \subseteq DOMAIN messages'
    BY <1>3 DEF Steps
  <2> QED  BY <2>1, <2>2, Storing
<1>5. req'[w] = q /\ \A v \in Workers : v # w => req'[v] = req[v]
  BY <1>4, Types DEF Inv
<1>6. Fits(req[w])'
  BY <1>1, <1>3, <1>4, <1>5 DEF Fits, Early, Knows
<1>7. HandKnows' /\ Alone' /\ req' \in [Workers -> RequestTypes(DOMAIN messages')]
  BY <1>1, <1>3, <1>4, <1>6, HandsMove
<1>8. \A j : Home(j)' = Home(j)
  BY <1>1 DEF Home
<1>9. ConversationRows'
  BY <1>1 DEF Inv, ConversationRows
<1>10. MessageRows'
  <2>1. Home(k) = c
    BY <1>2 DEF Home
  <2>2. ASSUME NEW m \in DOMAIN messages'
        PROVE  /\ messages'[m].conversation = Home(messages'[m].key)
               /\ messages'[m].conversation # 0
    BY <1>1, <1>3, <2>1 DEF Inv, MessageRows
  <2>3. ASSUME NEW m \in DOMAIN messages', NEW o \in DOMAIN messages',
               messages'[m].key \in CreateKeys,
               messages'[o].conversation = messages'[m].conversation
        PROVE  m <= o
    <3>1. m \in DOMAIN messages
      BY <1>2, <1>3, <2>3
    <3>2. CASE o \in DOMAIN messages
      BY <1>3, <2>3, <3>1, <3>2 DEF Inv, MessageRows
    <3>3. CASE o = n
      BY <1>3, <3>1, <3>3
    <3> QED  BY <1>3, <3>2, <3>3
  <2>4. ASSUME NEW j \in Keys, events[j] # 0
        PROVE  \E m \in DOMAIN messages' : messages'[m].key = j
    BY <1>3, <2>4 DEF Inv, MessageRows
  <2> QED  BY <1>1, <1>8, <2>2, <2>3, <2>4 DEF MessageRows
<1>11. Answered'
  <2>1. \A answer \in answers : answer.message \in DOMAIN messages
    BY Types DEF Inv
  <2> QED  BY <1>1, <1>3, <1>8, <2>1 DEF Inv, Answered
<1>12. Marks'
  <2>1. \A m \in DOMAIN messages' :
           /\ messages'[m].posts <= Attempts
           /\ messages'[m].delivery = "delivered" => messages'[m].posts > 0
           /\ messages'[m].posts > 0 => messages'[m].delivery # "pending" \/ InHand(m)' \/ crashes' > 0
    BY <1>1, <1>2, <1>5, AppendingMarks
  <2>2. ASSUME NEW m \in DOMAIN messages', messages'[m].key \in CreateKeys,
               conversations'[messages'[m].conversation].thread
        PROVE  messages'[m].delivery = "delivered"
    <3>1. m \in DOMAIN messages
      BY <1>2, <1>3, <2>2
    <3> QED  BY <1>1, <1>3, <2>2, <3>1 DEF Inv, Marks
  <2> QED  BY <2>1, <2>2 DEF Marks
<1>13. TypeOK'
  <2>1. answers' \subseteq [key : Keys, conversation : DOMAIN conversations', message : DOMAIN messages']
    BY <1>1, <1>3, Types DEF Inv
  <2>2. UNCHANGED <<conversations, events, requests, crashes>>
    BY <1>1
  <2> QED  BY <1>3, <1>7, <2>1, <2>2, Types, TypesBack DEF Inv
<1> QED  BY <1>7, <1>9, <1>10, <1>11, <1>12, <1>13 DEF Inv

\* The event of a send names its conversation; the key had none before.
LEMMA SendRecords ==
  ASSUME Inv, NEW w \in Workers, SendRecord(w)
  PROVE  Inv'
PROOF
<1> DEFINE k == req[w].key
           m == req[w].message
           c == messages[m].conversation
<1>1. /\ req[w].step = "record" /\ req[w].step \notin Early /\ events[k] = 0
      /\ events' = [events EXCEPT ![k] = c]
      /\ UNCHANGED <<conversations, messages, answers, requests, crashes>>
  BY DEF SendRecord, Early
<1>2. /\ m \in DOMAIN messages /\ m # 0 /\ messages[m].key = k /\ k \in SendKeys
      /\ messages[m].posts = 0 /\ messages[m].delivery = "pending"
      /\ req[w] \in RequestTypes(DOMAIN messages)
  BY <1>1, HandRow DEF Knows
<1>3. c \in DOMAIN conversations /\ k \in Keys /\ k \notin CreateKeys
  BY <1>2, Homes, RequestsAssumption DEF Inv, Keys
<1>4. /\ \A j \in CreateKeys : events'[j] = events[j]
      /\ \A j \in Keys : j # k => events'[j] = events[j]
      /\ events' \in [Keys -> 0..Len(conversations')]
  BY <1>1, <1>3, Types DEF Inv, Keys
<1>5. PICK step \in {"post", "answer"} : req' = [req EXCEPT ![w].step = step, ![w].message = m]
  BY DEF SendRecord, Stored
<1>6. PICK q \in RequestTypes(DOMAIN messages) :
           /\ req' = [req EXCEPT ![w] = q]
           /\ q.step = step /\ q.message = m /\ q.key = k /\ q.tries = req[w].tries
  <2>1. Writes(w, step, m)
    BY <1>5 DEF Writes
  <2>2. step \in Steps
    BY DEF Steps
  <2> QED  BY <1>2, <2>1, <2>2, Storing
<1>7. req'[w] = q /\ \A v \in Workers : v # w => req'[v] = req[v]
  BY <1>6, Types DEF Inv
<1>8. Fits(req[w])'
  <2>1. q.tries \in 0..2
    BY DEF RequestTypes
  <2> QED  BY <1>1, <1>2, <1>5, <1>6, <1>7, <2>1 DEF Fits, Early, Knows
<1>9. HandKnows' /\ Alone' /\ req' \in [Workers -> RequestTypes(DOMAIN messages')]
  BY <1>1, <1>4, <1>6, <1>8, HandsMove
<1>10. \A j \in Keys : Home(j)' = Home(j)
  BY <1>4, RequestsAssumption DEF Home, Keys
<1>11. ConversationRows'
  <2>1. \A d \in DOMAIN conversations : conversations[d].key \in CreateKeys
    BY Types DEF Inv, Conversations
  <2> QED  BY <1>1, <1>4, <2>1 DEF Inv, ConversationRows
<1>12. MessageRows'
  <2>1. \A n \in DOMAIN messages : messages[n].key \in Keys
    BY Types DEF Inv, Messages
  <2>2. \A j \in Keys : events'[j] # 0 => \E n \in DOMAIN messages : messages[n].key = j
    BY <1>2, <1>4 DEF Inv, MessageRows
  <2> QED  BY <1>1, <1>10, <2>1, <2>2 DEF Inv, MessageRows
<1>13. Answered'
  <2>1. \A answer \in answers : answer.key \in Keys
    BY Types DEF Inv
  <2> QED  BY <1>1, <1>10, <2>1 DEF Inv, Answered
<1>14. Marks'
  <2>1. \A n \in DOMAIN messages : InHand(n)' = InHand(n)
    BY <1>6, <1>7 DEF InHand
  <2> QED  BY <1>1, <2>1 DEF Inv, Marks
<1>15. TypeOK'
  BY <1>1, <1>4, <1>9, Types, TypesBack DEF Inv
<1> QED  BY <1>9, <1>11, <1>12, <1>13, <1>14, <1>15 DEF Inv

\* The transaction of a creation brings conversation, opening message and event
\* at once: the message is the oldest there because the conversation is new.
LEMMA CreateCommits ==
  ASSUME Inv, NEW w \in Workers, CreateCommit(w)
  PROVE  Inv'
PROOF
<1> DEFINE k == req[w].key
           c == Len(conversations) + 1
           n == Len(messages) + 1
           After(j) == IF j \in CreateKeys THEN events'[j] ELSE events'[Into[j]]
<1>1. /\ req[w].message = 0 /\ k \in CreateKeys /\ events[k] = 0
      /\ conversations' = Append(conversations, [key |-> k, thread |-> FALSE])
      /\ messages' = Append(messages, NewMessage(c, k))
      /\ events' = [events EXCEPT ![k] = c]
      /\ UNCHANGED <<answers, requests, crashes>>
  BY DEF CreateCommit, Inv, HandKnows, Fits
<1>2. k \in Keys /\ c \in Nat /\ c # 0
  BY <1>1, Types DEF Inv, Keys
<1>3. /\ messages' \in Seq(Messages) /\ Len(messages') = Len(messages) + 1
      /\ DOMAIN messages' = DOMAIN messages \cup {n}
      /\ n \notin DOMAIN messages /\ n # 0
      /\ \A m \in DOMAIN messages : messages'[m] = messages[m] /\ m <= n
      /\ messages'[n].conversation = c /\ messages'[n].key = k
      /\ messages'[n].posts = 0 /\ messages'[n].delivery = "pending"
  BY <1>1, <1>2, Appending
<1>4. /\ conversations' \in Seq(Conversations) /\ Len(conversations') = c
      /\ DOMAIN conversations' = DOMAIN conversations \cup {c}
      /\ c \notin DOMAIN conversations
      /\ \A d \in DOMAIN conversations : conversations'[d] = conversations[d]
      /\ conversations'[c].key = k /\ conversations'[c].thread = FALSE
  <2>1. PICK row : row = [key |-> k, thread |-> FALSE]
    OBVIOUS
  <2>2. row \in Conversations /\ row.key = k /\ row.thread = FALSE
    BY <1>1, <2>1 DEF Conversations
  <2>3. /\ conversations \in Seq(Conversations) /\ Len(conversations) \in Nat
        /\ DOMAIN conversations = 1..Len(conversations)
    BY Types DEF Inv
  <2>4. /\ conversations' \in Seq(Conversations) /\ Len(conversations') = Len(conversations) + 1
        /\ DOMAIN conversations' = 1..(Len(conversations) + 1)
        /\ \A d \in 1..Len(conversations) : conversations'[d] = conversations[d]
        /\ conversations'[Len(conversations) + 1] = row
    BY <1>1, <2>1, <2>2, <2>3
  <2> QED  BY <2>2, <2>3, <2>4
<1>5. /\ events'[k] = c /\ \A j \in Keys : j # k => events'[j] = events[j]
      /\ events' \in [Keys -> 0..Len(conversations')]
  <2>1. events \in [Keys -> 0..Len(conversations)] /\ Len(conversations) \in Nat
    BY Types DEF Inv
  <2> QED  BY <1>1, <1>2, <1>4, <2>1
<1>6. PICK q \in RequestTypes(DOMAIN messages') :
           /\ req' = [req EXCEPT ![w] = q]
           /\ q.step \in {"post", "answer"} /\ q.message = n /\ q.key = k
           /\ q.tries = req[w].tries
  <2>1. PICK step \in {"post", "answer"} : Writes(w, step, n)
    BY DEF CreateCommit, Stored, Writes
  <2>2. step \in Steps /\ n \in DOMAIN messages' /\ DOMAIN messages \subseteq DOMAIN messages'
    BY <1>3 DEF Steps
  <2> QED  BY <2>1, <2>2, Storing
<1>7. req'[w] = q /\ \A v \in Workers : v # w => req'[v] = req[v]
  BY <1>6, Types DEF Inv
<1>8. Fits(req[w])'
  <2>1. q.tries \in 0..2
    BY DEF RequestTypes
  <2> QED  BY <1>3, <1>6, <1>7, <2>1 DEF Fits, Early, Knows
<1>9. HandKnows' /\ Alone' /\ req' \in [Workers -> RequestTypes(DOMAIN messages')]
  <2>1. \A j \in CreateKeys : events[j] # 0 => events'[j] # 0
    BY <1>1, <1>5 DEF Keys
  <2> QED  BY <1>1, <1>3, <1>6, <1>8, <2>1, HandsMove
<1>10. ASSUME NEW j \in Keys, Home(j) # 0 PROVE After(j) = Home(j)
  <2>1. CASE j \in CreateKeys
    BY <1>1, <1>5, <1>10, <2>1 DEF Home
  <2>2. CASE j \notin CreateKeys
    <3>1. Into[j] \in Keys
      BY <2>2, RequestsAssumption DEF Keys
    <3> QED  BY <1>1, <1>5, <1>10, <2>2, <3>1 DEF Home
  <2> QED  BY <2>1, <2>2
<1>11. ASSUME NEW m \in DOMAIN messages
       PROVE  /\ messages[m].key \in Keys /\ messages[m].key # k
              /\ messages[m].conversation \in DOMAIN conversations
              /\ messages[m].conversation = After(messages[m].key)
              /\ messages[m].conversation # 0
  <2>1. /\ messages[m].key \in Keys /\ messages[m].conversation \in DOMAIN conversations
        /\ messages[m].conversation = Home(messages[m].key) /\ messages[m].conversation # 0
    BY Types, Homes DEF Inv, MessageRows, Messages
  <2>2. Home(k) = 0
    BY <1>1 DEF Home
  <2> QED  BY <1>10, <2>1, <2>2
<1>12. ConversationRows'
  <2>1. ASSUME NEW d \in DOMAIN conversations' PROVE events'[conversations'[d].key] = d
    <3>1. CASE d = c
      BY <1>4, <1>5, <3>1
    <3>2. CASE d # c
      <4>1. d \in DOMAIN conversations /\ conversations[d].key \in Keys /\ d # 0
        BY <1>4, <3>2, Types DEF Inv, Conversations, Keys
      <4>2. events[conversations[d].key] = d
        BY <4>1 DEF Inv, ConversationRows
      <4> QED  BY <1>1, <1>4, <1>5, <4>1, <4>2
    <3> QED  BY <3>1, <3>2
  <2>2. ASSUME NEW j \in CreateKeys, events'[j] # 0 PROVE conversations'[events'[j]].key = j
    <3>1. CASE j = k
      BY <1>4, <1>5, <3>1
    <3>2. CASE j # k
      <4>1. events'[j] = events[j]
        BY <1>5, <3>2 DEF Keys
      <4>2. events[j] \in DOMAIN conversations
        BY <2>2, <4>1, Homes DEF Inv
      <4> QED  BY <1>4, <2>2, <4>1, <4>2 DEF Inv, ConversationRows
    <3> QED  BY <3>1, <3>2
  <2> QED  BY <2>1, <2>2 DEF ConversationRows
<1>13. MessageRows'
  <2>1. ASSUME NEW m \in DOMAIN messages'
        PROVE  /\ messages'[m].conversation = After(messages'[m].key)
               /\ messages'[m].conversation # 0
    <3>1. CASE m = n
      <4>1. After(k) = c
        BY <1>1, <1>5
      <4> QED  BY <1>2, <1>3, <3>1, <4>1
    <3>2. CASE m # n
      <4>1. m \in DOMAIN messages /\ messages'[m] = messages[m]
        BY <1>3, <3>2
      <4> QED  BY <1>11, <4>1
    <3> QED  BY <3>1, <3>2
  <2>2. ASSUME NEW m \in DOMAIN messages', NEW o \in DOMAIN messages',
               messages'[m].key \in CreateKeys,
               messages'[o].conversation = messages'[m].conversation
        PROVE  m <= o
    <3>1. CASE m \in DOMAIN messages /\ o \in DOMAIN messages
      BY <1>3, <2>2, <3>1 DEF Inv, MessageRows
    <3>2. CASE m = n /\ o = n
      BY <3>2, Types DEF Inv
    <3>3. CASE m \in DOMAIN messages /\ o = n
      BY <1>3, <3>3
    <3>4. CASE m = n /\ o \in DOMAIN messages
      BY <1>3, <1>4, <1>11, <2>2, <3>4
    <3> QED  BY <1>3, <3>1, <3>2, <3>3, <3>4
  <2>3. ASSUME NEW j \in Keys, events'[j] # 0
        PROVE  \E m \in DOMAIN messages' : messages'[m].key = j
    <3>1. CASE j = k
      BY <1>3, <3>1
    <3>2. CASE j # k
      <4>1. PICK m \in DOMAIN messages : messages[m].key = j
        BY <1>5, <2>3, <3>2 DEF Inv, MessageRows
      <4> QED  BY <1>3, <4>1
    <3> QED  BY <3>1, <3>2
  <2> QED  BY <2>1, <2>2, <2>3 DEF MessageRows, Home
<1>14. Answered'
  <2>1. ASSUME NEW answer \in answers
        PROVE  /\ answer.key \in Keys /\ answer.message \in DOMAIN messages
               /\ answer.conversation = After(answer.key)
    <3>1. answer.key \in Keys /\ answer.message \in DOMAIN messages
          /\ answer.conversation \in DOMAIN conversations
      BY Types DEF Inv
    <3>2. answer.conversation = Home(answer.key) /\ answer.conversation # 0
      BY <3>1, Types DEF Inv, Answered
    <3> QED  BY <1>10, <3>1, <3>2
  <2> QED  BY <1>1, <1>3, <2>1 DEF Inv, Answered, Home
<1>15. Marks'
  <2>1. \A m \in DOMAIN messages' :
           /\ messages'[m].posts <= Attempts
           /\ messages'[m].delivery = "delivered" => messages'[m].posts > 0
           /\ messages'[m].posts > 0 => messages'[m].delivery # "pending" \/ InHand(m)' \/ crashes' > 0
    BY <1>1, <1>2, <1>7, AppendingMarks
  <2>2. ASSUME NEW m \in DOMAIN messages', messages'[m].key \in CreateKeys,
               conversations'[messages'[m].conversation].thread
        PROVE  messages'[m].delivery = "delivered"
    <3>1. m \in DOMAIN messages
      BY <1>3, <1>4, <2>2
    <3>2. conversations[messages[m].conversation].thread
      BY <1>3, <1>4, <1>11, <2>2, <3>1
    <3> QED  BY <1>3, <2>2, <3>1, <3>2 DEF Inv, Marks
  <2> QED  BY <2>1, <2>2 DEF Marks
<1>16. TypeOK'
  <2>1. answers' \subseteq [key : Keys, conversation : DOMAIN conversations', message : DOMAIN messages']
    BY <1>1, <1>3, <1>4, Types DEF Inv
  <2>2. UNCHANGED <<answers, requests, crashes>>
    BY <1>1
  <2> QED  BY <1>3, <1>4, <1>5, <1>9, <2>1, <2>2, Types, TypesBack DEF Inv
<1> QED  BY <1>9, <1>12, <1>13, <1>14, <1>15, <1>16 DEF Inv

-----------------------------------------------------------------------------
\* There are no rows at the start.
LEMMA InitInv ==
  ASSUME Init
  PROVE  Inv
PROOF
<1>1. /\ conversations = <<>> /\ messages = <<>> /\ answers = {}
      /\ requests = 0 /\ crashes = 0
      /\ \A k \in Keys : events[k] = 0
      /\ \A w \in Workers : req[w] = NoRequest
      /\ DOMAIN conversations = {} /\ DOMAIN messages = {} /\ Len(conversations) = 0
  BY DEF Init
<1>2. NoRequest.step = "idle" /\ NoRequest.message = 0 /\ NoRequest \in RequestTypes({})
  BY DEF NoRequest, RequestTypes, Steps
<1>3. TypeOK
  <2>1. req \in [Workers -> RequestTypes(DOMAIN messages)]
    BY <1>1, <1>2 DEF Init
  <2>2. events \in [Keys -> 0..Len(conversations)]
    BY <1>1 DEF Init
  <2>3. conversations \in Seq(Conversations) /\ messages \in Seq(Messages)
    BY <1>1
  <2> QED  BY <1>1, <2>1, <2>2, <2>3 DEF TypeOK, RequestTypes, Attempts
<1>4. ConversationRows
  BY <1>1 DEF ConversationRows, Keys
<1>5. MessageRows /\ Answered /\ Marks
  BY <1>1 DEF MessageRows, Answered, Marks
<1>6. HandKnows /\ Alone
  BY <1>1, <1>2 DEF HandKnows, Fits, Early, Alone
<1> QED  BY <1>3, <1>4, <1>5, <1>6 DEF Inv

\* A step of none of this keeps the invariant.
LEMMA StutterKeeps ==
  ASSUME Inv, UNCHANGED vars
  PROVE  Inv'
PROOF
<1>1. RowsStand /\ UNCHANGED <<conversations, messages, events, answers, req, requests, crashes>>
  BY DEF vars, RowsStand
<1>2. ConversationRows' /\ MessageRows' /\ Answered'
  BY <1>1, RowsStay, AnsweredStay
<1>3. HandKnows' /\ Alone' /\ Marks'
  BY <1>1 DEF Inv, HandKnows, Fits, Knows, Alone, Marks, InHand
<1>4. TypeOK'
  BY <1>1, Types, TypesBack DEF Inv
<1> QED  BY <1>2, <1>3, <1>4 DEF Inv

\* Every step keeps the invariant.
LEMMA NextInv ==
  ASSUME Inv, [Next]_vars
  PROVE  Inv'
PROOF
<1>1. CASE UNCHANGED vars
  BY <1>1, StutterKeeps
<1>2. ASSUME NEW w \in Workers, Proceed(w) PROVE Inv'
  <2>1. CASE CreateCommit(w)
    BY <2>1, CreateCommits
  <2>2. CASE SendInsert(w)
    BY <2>2, SendInserts
  <2>3. CASE SendRecord(w)
    BY <2>3, SendRecords
  <2>4. CASE PostSucceeds(w) \/ PostRetry(w) \/ PostError(w)
    BY <2>4, Posting
  <2>5. CASE SaveDelivered(w) \/ SaveFailed(w)
    BY <2>5, Saving
  <2>6. CASE SaveThread(w)
    BY <2>6, SavingThread
  <2>7. CASE CreateConflict(w) \/ SendConflict(w) \/ Answer(w)
    BY <2>7, Endings
  <2> QED  BY <1>2, <2>1, <2>2, <2>3, <2>4, <2>5, <2>6, <2>7 DEF Proceed
<1>3. ASSUME NEW w \in Workers, Crash(w) PROVE Inv'
  BY <1>3, Endings
<1> QED  BY <1>1, <1>2, <1>3, Beginnings DEF Next

\* The rows, and what every request in progress knows of them, always agree
\* (create_conversation and send_message under repetition, overlap and crash).
LEMMA Invariant == Spec => []Inv
PROOF
  BY InitInv, NextInv, PTL DEF Spec

-----------------------------------------------------------------------------
\* Rows, events, answers and running requests keep the types of the code's
\* models and handlers: no answer and no request names a row that is missing.
THEOREM TypeCorrect == Spec => []TypeOK
PROOF
<1>1. Inv => TypeOK
  BY DEF Inv
<1> QED  BY <1>1, Invariant, PTL

\* However many requests with a creation's key run and are cut off, the key
\* has one conversation with one opening message, its oldest, or neither: what
\* transaction.atomic and the unique idempotency key of EventLog are for.
THEOREM CreatedOnce == Spec => []CreateOnce
PROOF
<1>1. ASSUME Inv PROVE CreateOnce
  <2> SUFFICES ASSUME NEW k \in CreateKeys
               PROVE  LET made == {c \in DOMAIN conversations : conversations[c].key = k}
                      IN  IF events[k] = 0
                          THEN made = {} /\ With(k) = {}
                          ELSE made = {events[k]} /\ With(k) = {Oldest(events[k])}
    BY DEF CreateOnce
  <2> DEFINE made == {c \in DOMAIN conversations : conversations[c].key = k}
  <2>1. TypeOK /\ ConversationRows /\ MessageRows
    BY <1>1 DEF Inv
  <2>2. \A c \in made : c = events[k]
    BY <2>1 DEF ConversationRows
  <2>3. \A m \in With(k) : m \in DOMAIN messages /\ messages[m].key = k /\ events[k] # 0
    BY <2>1 DEF With, MessageRows, Home
  <2>4. CASE events[k] = 0
    <3>1. \A c \in made : c # 0
      BY <2>1, Types
    <3> QED  BY <2>2, <2>3, <2>4, <3>1
  <2>5. CASE events[k] # 0
    <3>1. /\ events[k] \in DOMAIN conversations
          /\ Oldest(events[k]) \in DOMAIN messages
          /\ messages[Oldest(events[k])].key = k
          /\ \A m \in DOMAIN messages : messages[m].key = k => m = Oldest(events[k])
      BY <2>1, <2>5, Homes
    <3>2. events[k] \in made
      BY <2>1, <2>5, <3>1 DEF ConversationRows
    <3>3. Oldest(events[k]) \in With(k)
      BY <3>1 DEF With
    <3> QED  BY <2>2, <2>3, <2>5, <3>1, <3>2, <3>3
  <2> QED  BY <2>4, <2>5
<1> QED  BY <1>1, Invariant, PTL

\* Every repetition of a creation, also one that overlaps the first, is
\* answered with the conversation and the message of its key.
THEOREM CreateAnswersAgreed == Spec => []CreateAnswersAgree
PROOF
<1>1. Inv => CreateAnswersAgree
  BY DEF Inv, Answered, Home, CreateAnswersAgree
<1> QED  BY <1>1, Invariant, PTL

\* What a client was told with a 201 is stored, and stays stored through
\* requests that are cut off between two statements.
THEOREM AcknowledgedStays == Spec => []AcknowledgedIsStored
PROOF
<1>1. ASSUME Inv, NEW answer \in answers
      PROVE  \E m \in With(answer.key) : messages[m].conversation = answer.conversation
  <2>1. PICK m \in DOMAIN messages : messages[m].key = answer.key
    BY <1>1 DEF Inv, Answered
  <2>2. messages[m].conversation = Home(answer.key) /\ answer.conversation = Home(answer.key)
    BY <1>1, <2>1 DEF Inv, Answered, MessageRows
  <2> QED  BY <2>1, <2>2 DEF With
<1>2. Inv => AcknowledgedIsStored
  BY <1>1 DEF AcknowledgedIsStored
<1> QED  BY <1>2, Invariant, PTL

\* The marks of a message tell what happened in Roam, whatever the answers of
\* Roam and wherever requests are cut off.
THEOREM MarksAreTrue == Spec => []DeliveryMarks
PROOF
<1>1. ASSUME Inv, NEW c \in DOMAIN conversations, conversations[c].thread
      PROVE  messages[Oldest(c)].delivery = "delivered"
  <2>1. PICK k \in CreateKeys : conversations[c].key = k
    BY <1>1, Types DEF Inv, Conversations
  <2>2. events[k] = c /\ c # 0
    BY <1>1, <2>1, Types DEF Inv, ConversationRows
  <2>3. /\ Oldest(c) \in DOMAIN messages /\ messages[Oldest(c)].key \in CreateKeys
        /\ messages[Oldest(c)].conversation = c
    BY <1>1, <2>2, Homes DEF Inv
  <2> QED  BY <1>1, <2>3 DEF Inv, Marks
<1>2. Inv => DeliveryMarks
  BY <1>1 DEF Inv, Marks, DeliveryMarks
<1> QED  BY <1>2, Invariant, PTL

=============================================================================
