-------------------- MODULE ConversationLifecycle_proofs --------------------
(***************************************************************************)
(* Proofs about ConversationLifecycle, for every set of workers and every  *)
(* bound: what each save does to a row, type correctness, the inductive    *)
(* invariant Inv and what follows from it, the counts behind the audit     *)
(* trail, the announcement of an end, and the contract that operations     *)
(* keep although they overtake each other.                                 *)
(***************************************************************************)
EXTENDS ConversationLifecycle, FiniteSetTheorems, TLAPS

\* Every save of ConversationRow maps a row to a row.
LEMMA SavesAreTyped ==
  ASSUME NEW now \in Rows, NEW seen \in Rows, NEW time \in Times
  PROVE  /\ AfterSend(now, seen) \in Rows
         /\ AfterReply(now, seen, time) \in Rows
         /\ AfterResolve(now, time) \in Rows
         /\ AfterClose(now, time) \in Rows
         /\ AfterReopen(now) \in Rows
         /\ NewRow \in Rows
BY DEF Rows, Statuses, Times, AfterSend, AfterReply, AfterResolve, AfterClose,
       AfterReopen, NewRow

\* The steps that every operation shares keep their part of the state typed.
LEMMA RequestsAreTyped ==
  ASSUME TypeOK, NEW w \in Workers, NEW op \in Ops, NEW step \in Steps
  PROVE  /\ Begin(w, op, step) => req' \in [Workers -> Requests] /\ clock' \in Nat
         /\ Goto(w, step) => req' \in [Workers -> Requests]
         /\ Finish(w) => req' \in [Workers -> Requests]
         /\ op \in MessageKinds /\ AddMessage(op) => messages' \in [MessageKinds -> Nat]
         /\ op \in EventKinds /\ AddEvent(op) => events' \in [EventKinds -> Nat]
<1>1. NoRequest \in Requests
  BY SavesAreTyped DEF NoRequest, Requests, Ops, Steps, Times, Rows, NewRow, Statuses
<1>2. Begin(w, op, step) => req' \in [Workers -> Requests] /\ clock' \in Nat
  BY DEF TypeOK, Begin, Requests, Times
<1>3. Goto(w, step) => req' \in [Workers -> Requests]
  BY DEF TypeOK, Goto, Requests
<1>4. Finish(w) => req' \in [Workers -> Requests]
  BY <1>1 DEF TypeOK, Finish
<1>5. op \in MessageKinds /\ AddMessage(op) => messages' \in [MessageKinds -> Nat]
  BY DEF TypeOK, AddMessage
<1>6. op \in EventKinds /\ AddEvent(op) => events' \in [EventKinds -> Nat]
  BY DEF TypeOK, AddEvent
<1> QED BY <1>2, <1>3, <1>4, <1>5, <1>6

-----------------------------------------------------------------------------
\* A conversation that was just created is well typed.
LEMMA TypeInit == Init => TypeOK
<1>1. NewRow \in Rows
  BY DEF NewRow, Rows, Statuses, Times
<1>2. NoRequest \in Requests
  BY <1>1 DEF NoRequest, Requests, Ops, Steps, Times
<1>3. ASSUME Init PROVE /\ newest \in {"customer", "analyst"} /\ clock \in Nat
                        /\ crashes \in Nat /\ heard \in Nat
  BY <1>3 DEF Init
<1>4. Init => stale \in BOOLEAN
  BY Zenon DEF Init
<1>5. ASSUME Init PROVE messages \in [MessageKinds -> Nat] /\ events \in [EventKinds -> Nat]
  BY <1>5 DEF Init
<1> QED BY <1>1, <1>2, <1>3, <1>4, <1>5, Zenon DEF Init, TypeOK

\* Every statement of every request keeps the state well typed.
LEMMA TypeStep == TypeOK /\ [Next]_vars => TypeOK'
<1> SUFFICES ASSUME TypeOK, [Next]_vars PROVE TypeOK'
  OBVIOUS
<1> USE DEF TypeOK, Decided, history
<1>1. CASE UNCHANGED vars
  BY <1>1 DEF vars
<1>2. ASSUME NEW w \in Workers, Send(w) PROVE TypeOK'
  <2> "send" \in Ops /\ "send" \in MessageKinds /\ "send" \in EventKinds
    BY DEF Ops, MessageKinds, EventKinds
  <2> "message" \in Steps /\ "save" \in Steps /\ "event" \in Steps
    BY DEF Steps
  <2>1. CASE SendRead(w)
    BY <2>1, RequestsAreTyped DEF SendRead, Begin
  <2>2. CASE SendMessage(w)
    BY <2>2, RequestsAreTyped DEF SendMessage
  <2>3. CASE SendSave(w)
    <3>1. req[w].seen \in Rows
      BY DEF Requests
    <3>2. row' \in Rows
      BY <2>3, <3>1, SavesAreTyped DEF SendSave, Times
    <3> QED BY <2>3, <3>2, RequestsAreTyped DEF SendSave
  <2>4. CASE SendRecord(w)
    BY <2>4, RequestsAreTyped DEF SendRecord, Record
  <2> QED BY <1>2, <2>1, <2>2, <2>3, <2>4 DEF Send
<1>3. ASSUME NEW w \in Workers, Reply(w) PROVE TypeOK'
  <2> "reply" \in Ops /\ "reply" \in MessageKinds /\ "reply" \in EventKinds /\ "txn" \in Steps
    BY DEF Ops, MessageKinds, EventKinds, Steps
  <2>1. CASE ReplyRead(w)
    BY <2>1, RequestsAreTyped DEF ReplyRead, Begin
  <2>2. CASE ReplyCommit(w)
    <3>1. req[w].seen \in Rows /\ req[w].now \in Times
      BY DEF Requests
    <3>2. row' \in Rows
      BY <2>2, <3>1, SavesAreTyped DEF ReplyCommit
    <3> QED BY <2>2, <3>2, RequestsAreTyped DEF ReplyCommit
  <2> QED BY <1>3, <2>1, <2>2 DEF Reply
<1>4. ASSUME NEW w \in Workers, Resolve(w) PROVE TypeOK'
  <2> "resolve" \in Ops /\ "resolve" \in MessageKinds /\ "resolve" \in EventKinds
    BY DEF Ops, MessageKinds, EventKinds
  <2> "save" \in Steps /\ "note" \in Steps /\ "event" \in Steps
    BY DEF Steps
  <2>1. CASE ResolveRead(w)
    BY <2>1, RequestsAreTyped DEF ResolveRead, Begin
  <2>2. CASE ResolveSave(w)
    <3>1. req[w].now \in Times
      BY DEF Requests
    <3>2. row' \in Rows
      BY <2>2, <3>1, SavesAreTyped DEF ResolveSave
    <3> QED BY <2>2, <3>2, RequestsAreTyped DEF ResolveSave
  <2>3. CASE ResolveNote(w)
    BY <2>3, RequestsAreTyped DEF ResolveNote, Note
  <2>4. CASE ResolveRecord(w)
    BY <2>4, RequestsAreTyped DEF ResolveRecord, Record
  <2> QED BY <1>4, <2>1, <2>2, <2>3, <2>4 DEF Resolve
<1>5. ASSUME NEW w \in Workers, Close(w) PROVE TypeOK'
  <2> "close" \in Ops /\ "close" \in MessageKinds /\ "close" \in EventKinds
    BY DEF Ops, MessageKinds, EventKinds
  <2> "save" \in Steps /\ "note" \in Steps /\ "event" \in Steps
    BY DEF Steps
  <2>1. CASE CloseRead(w)
    BY <2>1, RequestsAreTyped DEF CloseRead, Begin
  <2>2. CASE CloseSave(w)
    <3>1. req[w].now \in Times
      BY DEF Requests
    <3>2. row' \in Rows
      BY <2>2, <3>1, SavesAreTyped DEF CloseSave
    <3> QED BY <2>2, <3>2, RequestsAreTyped DEF CloseSave
  <2>3. CASE CloseNote(w)
    BY <2>3, RequestsAreTyped DEF CloseNote, Note
  <2>4. CASE CloseRecord(w)
    BY <2>4, RequestsAreTyped DEF CloseRecord, Record
  <2> QED BY <1>5, <2>1, <2>2, <2>3, <2>4 DEF Close
<1>6. ASSUME NEW w \in Workers, Reopen(w) PROVE TypeOK'
  <2> "reopen" \in Ops /\ "reopen" \in MessageKinds /\ "reopen" \in EventKinds
    BY DEF Ops, MessageKinds, EventKinds
  <2> "save" \in Steps /\ "note" \in Steps /\ "event" \in Steps
    BY DEF Steps
  <2>1. CASE ReopenRead(w)
    BY <2>1, RequestsAreTyped DEF ReopenRead, Begin
  <2>2. CASE ReopenSave(w)
    <3>1. row' \in Rows
      BY <2>2, SavesAreTyped DEF ReopenSave, Times
    <3> QED BY <2>2, <3>1, RequestsAreTyped DEF ReopenSave
  <2>3. CASE ReopenNote(w)
    BY <2>3, RequestsAreTyped DEF ReopenNote, Note
  <2>4. CASE ReopenRecord(w)
    BY <2>4, RequestsAreTyped DEF ReopenRecord, Record
  <2> QED BY <1>6, <2>1, <2>2, <2>3, <2>4 DEF Reopen
<1>7. ASSUME NEW w \in Workers, AutoResolve(w) PROVE TypeOK'
  <2> "autoresolve" \in Ops /\ "autoresolve" \in MessageKinds
    BY DEF Ops, MessageKinds
  <2> "check" \in Steps /\ "save" \in Steps /\ "note" \in Steps
    BY DEF Steps
  <2>1. CASE AutoResolveQuery(w)
    BY <2>1, RequestsAreTyped DEF AutoResolveQuery, Begin
  <2>2. CASE AutoResolveCheck(w)
    <3>1. req' \in [Workers -> Requests]
      BY <2>2, RequestsAreTyped DEF AutoResolveCheck
    <3> QED BY <2>2, <3>1 DEF AutoResolveCheck
  <2>3. CASE AutoResolveSave(w)
    <3>1. req[w].now \in Times
      BY DEF Requests
    <3>2. row' \in Rows
      BY <2>3, <3>1, SavesAreTyped DEF AutoResolveSave
    <3> QED BY <2>3, <3>2, RequestsAreTyped DEF AutoResolveSave
  <2>4. CASE AutoResolveNote(w)
    BY <2>4, RequestsAreTyped DEF AutoResolveNote, Note
  <2> QED BY <1>7, <2>1, <2>2, <2>3, <2>4 DEF AutoResolve
<1>8. ASSUME NEW w \in Workers, AutoClose(w) PROVE TypeOK'
  <2> "autoclose" \in Ops /\ "autoclose" \in MessageKinds
    BY DEF Ops, MessageKinds
  <2> "save" \in Steps /\ "note" \in Steps
    BY DEF Steps
  <2>1. CASE AutoCloseQuery(w)
    BY <2>1, RequestsAreTyped DEF AutoCloseQuery, Begin
  <2>2. CASE AutoCloseSave(w)
    <3>1. req[w].now \in Times
      BY DEF Requests
    <3>2. row' \in Rows
      BY <2>2, <3>1, SavesAreTyped DEF AutoCloseSave
    <3> QED BY <2>2, <3>2, RequestsAreTyped DEF AutoCloseSave
  <2>3. CASE AutoCloseNote(w)
    BY <2>3, RequestsAreTyped DEF AutoCloseNote, Note
  <2> QED BY <1>8, <2>1, <2>2, <2>3 DEF AutoClose
<1>9. ASSUME NEW w \in Workers, Crash(w) PROVE TypeOK'
  <2> "none" \in Ops /\ "idle" \in Steps
    BY DEF Ops, Steps
  <2> QED BY <1>9, RequestsAreTyped DEF Crash
<1> QED
  BY <1>1, <1>2, <1>3, <1>4, <1>5, <1>6, <1>7, <1>8, <1>9 DEF Next

\* Every variable keeps its type, whatever the workers do.
THEOREM TypeCorrect == Spec => []TypeOK
BY TypeInit, TypeStep, PTL DEF Spec

-----------------------------------------------------------------------------
(***************************************************************************)
(* The inductive invariant.  The properties of the row depend on what the  *)
(* requests in flight remember of it: the snapshot of a request may be     *)
(* older than the row, but only in one direction.  A row that was seen     *)
(* out of QUEUED is not in QUEUED now, and a first response that was seen  *)
(* is still there.  The operations that may not start in QUEUED therefore  *)
(* never save, or announce, over a queued row.                             *)
(***************************************************************************)

\* The operations whose guard, tested on the snapshot, excludes QUEUED.
NotFromQueued == {"resolve", "close", "reopen", "autoresolve", "autoclose"}

SnapshotsLag ==
  \A w \in Workers :
    /\ req[w].op # "none" => req[w].now # 0
    /\ req[w].op \in NotFromQueued => req[w].seen.status # "queued"
    /\ req[w].seen.status # "queued" => row.status # "queued"
    /\ req[w].seen.first_response_at # 0 => row.first_response_at # 0

Inv == TypeOK /\ SnapshotsLag /\ StampsFollowStatus /\ AnsweredIsStamped /\ QueuedIsUntouched

\* The step of a request that leaves row and messages alone keeps everything
\* but SnapshotsLag; the request it leaves behind is described by the premise.
LEMMA RequestStep ==
  ASSUME Inv, NEW w \in Workers, NEW r \in Requests,
         req' = [req EXCEPT ![w] = r],
         r.op # "none" => r.now # 0,
         r.op \in NotFromQueued => r.seen.status # "queued",
         r.seen.status # "queued" => row.status # "queued",
         r.seen.first_response_at # 0 => row.first_response_at # 0,
         UNCHANGED <<row, messages>>, TypeOK'
  PROVE  Inv'
<1>1. SnapshotsLag'
  BY DEF Inv, SnapshotsLag, TypeOK
<1>2. (StampsFollowStatus /\ AnsweredIsStamped /\ QueuedIsUntouched)'
  BY DEF Inv, StampsFollowStatus, AnsweredIsStamped, QueuedIsUntouched
<1> QED BY <1>1, <1>2 DEF Inv

\* Reading the row: the snapshot is the row itself.
LEMMA BeginKeepsInv ==
  ASSUME Inv, TypeOK', NEW w \in Workers, NEW op \in Ops, NEW step \in Steps,
         op \in NotFromQueued => row.status # "queued", Begin(w, op, step)
  PROVE  Inv'
<1> DEFINE r == [op |-> op, step |-> step, seen |-> row, now |-> clock + 1]
<1>1. r \in Requests /\ clock + 1 # 0
  BY DEF Inv, TypeOK, Requests, Times
<1>2. req' = [req EXCEPT ![w] = r] /\ UNCHANGED <<row, messages>>
  BY DEF Begin
<1>3. /\ r.now # 0
      /\ r.seen = row
      /\ r.op = op
  BY <1>1
<1> QED BY <1>1, <1>2, <1>3, RequestStep

\* Going on to the next statement keeps the snapshot, finishing drops it.
LEMMA GotoKeepsInv ==
  ASSUME Inv, TypeOK', NEW w \in Workers, NEW step \in Steps,
         Goto(w, step), UNCHANGED <<row, messages>>
  PROVE  Inv'
<1> DEFINE r == [req[w] EXCEPT !.step = step]
<1>1. req[w] \in Requests
  BY DEF Inv, TypeOK
<1>2. r \in Requests /\ r.op = req[w].op /\ r.seen = req[w].seen /\ r.now = req[w].now
  BY <1>1 DEF Requests
<1>3. req' = [req EXCEPT ![w] = r]
  BY DEF Goto
<1> HIDE DEF r
<1> QED BY <1>2, <1>3, RequestStep DEF Inv, SnapshotsLag

\* A request that ends takes its snapshot with it.
LEMMA FinishKeepsInv ==
  ASSUME Inv, TypeOK', NEW w \in Workers, Finish(w), UNCHANGED <<row, messages>>
  PROVE  Inv'
<1>1. NoRequest \in Requests
  BY SavesAreTyped DEF NoRequest, Requests, Ops, Steps, Times, Rows, NewRow, Statuses
<1>2. /\ NoRequest.op = "none" /\ "none" \notin NotFromQueued
      /\ NoRequest.seen.status = "queued" /\ NoRequest.seen.first_response_at = 0
  BY DEF NoRequest, NewRow, NotFromQueued
<1>3. req' = [req EXCEPT ![w] = NoRequest]
  BY DEF Finish
<1> QED BY <1>1, <1>2, <1>3, RequestStep

-----------------------------------------------------------------------------
\* A save over a row that is not queued keeps Inv when it does not bring
\* QUEUED back, stamps the status it writes, and leaves the answer alone.
LEMMA SaveKeepsInv ==
  ASSUME Inv, TypeOK', NEW w \in Workers, NEW step \in Steps, Goto(w, step),
         UNCHANGED messages,
         row.status # "queued", row'.status # "queued",
         row'.first_response_at = row.first_response_at,
         StampsFollowStatus'
  PROVE  Inv'
<1>1. \A v \in Workers : req'[v].op = req[v].op /\ req'[v].seen = req[v].seen
                         /\ req'[v].now = req[v].now
  BY DEF Inv, TypeOK, Goto, Requests
<1>2. SnapshotsLag'
  BY <1>1 DEF Inv, SnapshotsLag
<1>3. AnsweredIsStamped' /\ QueuedIsUntouched'
  BY DEF Inv, AnsweredIsStamped, QueuedIsUntouched
<1> QED BY <1>2, <1>3 DEF Inv

\* The system message of an operation is written over a row that has left
\* QUEUED, so nothing is ever announced on a queued conversation.
LEMMA NoteKeepsInv ==
  ASSUME Inv, TypeOK', NEW w \in Workers, NEW op \in NotFromQueued, Note(w, op),
         Finish(w) \/ Goto(w, "event")
  PROVE  Inv'
<1>1. row.status # "queued" /\ row' = row
  BY DEF Note, At, Inv, SnapshotsLag
<1>2. messages'["reply"] = messages["reply"]
  BY DEF Note, AddMessage, NotFromQueued, Inv, TypeOK, MessageKinds
<1>3. \A v \in Workers : \/ req'[v] = NoRequest
                         \/ /\ req'[v].op = req[v].op
                            /\ req'[v].seen = req[v].seen
                            /\ req'[v].now = req[v].now
  BY DEF Inv, TypeOK, Goto, Finish, Requests
<1>4. SnapshotsLag'
  BY <1>1, <1>3 DEF Inv, SnapshotsLag, NoRequest, NewRow, NotFromQueued
<1>5. (StampsFollowStatus /\ AnsweredIsStamped /\ QueuedIsUntouched)'
  BY <1>1, <1>2 DEF Inv, StampsFollowStatus, AnsweredIsStamped, QueuedIsUntouched
<1> QED BY <1>4, <1>5 DEF Inv

\* A message is counted even by a customer on a queued conversation.
LEMMA SendMessageKeepsInv ==
  ASSUME Inv, TypeOK', NEW w \in Workers, SendMessage(w)
  PROVE  Inv'
<1>1. /\ row' = row
      /\ \A k \in MessageKinds \ {"send"} : messages'[k] = messages[k]
      /\ "reply" \in MessageKinds \ {"send"}
  BY DEF SendMessage, AddMessage, Inv, TypeOK, MessageKinds
<1>2. \A v \in Workers : req'[v].op = req[v].op /\ req'[v].seen = req[v].seen
                         /\ req'[v].now = req[v].now
  BY DEF SendMessage, Inv, TypeOK, Goto, Requests
<1>3. SnapshotsLag'
  BY <1>1, <1>2 DEF Inv, SnapshotsLag
<1>4. (StampsFollowStatus /\ AnsweredIsStamped /\ QueuedIsUntouched)'
  BY <1>1 DEF Inv, StampsFollowStatus, AnsweredIsStamped, QueuedIsUntouched
<1> QED BY <1>3, <1>4 DEF Inv

\* A customer message rewrites the status only when its snapshot had left
\* QUEUED, hence never over a queued row.
LEMMA SendSaveKeepsInv ==
  ASSUME Inv, TypeOK', NEW w \in Workers, SendSave(w)
  PROVE  Inv'
<1> "event" \in Steps
  BY DEF Steps
<1>1. CASE ChangedByCustomer(req[w].seen.status)
  <2>1. row.status # "queued"
    BY <1>1 DEF ChangedByCustomer, Inv, SnapshotsLag
  <2>2. /\ row'.status = "waiting_soc"
        /\ row'.first_response_at = row.first_response_at
    BY <1>1 DEF SendSave, AfterSend, Inv, TypeOK, Rows
  <2>3. StampsFollowStatus'
    BY <2>2 DEF StampsFollowStatus
  <2> QED BY <2>1, <2>2, <2>3, SaveKeepsInv DEF SendSave
<1>2. CASE ~ChangedByCustomer(req[w].seen.status)
  <2>1. row' = row
    BY <1>2 DEF SendSave, AfterSend, Inv, TypeOK, Rows
  <2> QED BY <2>1, GotoKeepsInv DEF SendSave
<1> QED BY <1>1, <1>2

\* The transaction of a reply: QUEUED is left (its snapshot cannot have left
\* QUEUED before the row did), and message and first response come together.
LEMMA ReplyCommitKeepsInv ==
  ASSUME Inv, TypeOK', NEW w \in Workers, ReplyCommit(w)
  PROVE  Inv'
<1> DEFINE seen == req[w].seen
<1>1. row \in Rows /\ row' \in Rows /\ seen \in Rows /\ req[w].now # 0
  BY DEF Inv, TypeOK, Requests, ReplyCommit, At, SnapshotsLag
<1>2. /\ row'.status = IF ChangedByAnalyst(seen.status) THEN "waiting_customer" ELSE row.status
      /\ row'.first_response_at = IF seen.first_response_at = 0 THEN req[w].now
                                  ELSE row.first_response_at
      /\ row'.resolved_at = row.resolved_at /\ row'.closed_at = row.closed_at
  BY <1>1 DEF ReplyCommit, AfterReply, Rows
<1>3. row'.status # "queued"
  BY <1>1, <1>2 DEF ChangedByAnalyst, Inv, SnapshotsLag
<1>4. row'.first_response_at # 0
  BY <1>1, <1>2 DEF Inv, SnapshotsLag
<1>5. messages'["reply"] > 0
  BY DEF ReplyCommit, AddMessage, Inv, TypeOK, MessageKinds
<1>6. \A v \in Workers : req'[v] = NoRequest \/ req'[v] = req[v]
  BY DEF ReplyCommit, Finish, Inv, TypeOK
<1>7. SnapshotsLag'
  BY <1>3, <1>4, <1>6 DEF Inv, SnapshotsLag, NoRequest, NewRow, NotFromQueued
<1>8. StampsFollowStatus'
  BY <1>2 DEF Inv, StampsFollowStatus
<1>9. AnsweredIsStamped' /\ QueuedIsUntouched'
  BY <1>3, <1>4, <1>5 DEF AnsweredIsStamped, QueuedIsUntouched
<1> QED BY <1>7, <1>8, <1>9 DEF Inv

-----------------------------------------------------------------------------
\* The inductive invariant holds of a conversation that was just created.
LEMMA InvInit == Init => Inv
<1> SUFFICES ASSUME Init PROVE Inv
  OBVIOUS
<1>1. TypeOK
  BY TypeInit
<1>2. SnapshotsLag
  BY DEF Init, SnapshotsLag, NoRequest, NewRow, NotFromQueued
<1>3. StampsFollowStatus /\ AnsweredIsStamped /\ QueuedIsUntouched
  BY DEF Init, StampsFollowStatus, AnsweredIsStamped, QueuedIsUntouched, NewRow, MessageKinds
<1> QED BY <1>1, <1>2, <1>3 DEF Inv

\* Every statement of every request preserves the inductive invariant.
LEMMA InvStep == Inv /\ [Next]_vars => Inv'
<1> SUFFICES ASSUME Inv, [Next]_vars PROVE Inv'
  OBVIOUS
<1>0. TypeOK'
  BY TypeStep DEF Inv
<1> USE <1>0
<1>1. CASE UNCHANGED vars
  <2>1. SnapshotsLag'
    BY <1>1 DEF vars, Inv, SnapshotsLag
  <2>2. (StampsFollowStatus /\ AnsweredIsStamped /\ QueuedIsUntouched)'
    BY <1>1 DEF vars, Inv, StampsFollowStatus, AnsweredIsStamped, QueuedIsUntouched
  <2> QED BY <2>1, <2>2 DEF Inv
<1>2. ASSUME NEW w \in Workers, Send(w) PROVE Inv'
  <2>1. CASE SendRead(w)
    BY <2>1, BeginKeepsInv DEF SendRead, Ops, MessageKinds, Steps, NotFromQueued
  <2>2. CASE SendMessage(w)
    BY <2>2, SendMessageKeepsInv
  <2>3. CASE SendSave(w)
    BY <2>3, SendSaveKeepsInv
  <2>4. CASE SendRecord(w)
    BY <2>4, FinishKeepsInv DEF SendRecord, Record
  <2> QED BY <1>2, <2>1, <2>2, <2>3, <2>4 DEF Send
<1>3. ASSUME NEW w \in Workers, Reply(w) PROVE Inv'
  <2>1. CASE ReplyRead(w)
    BY <2>1, BeginKeepsInv DEF ReplyRead, Ops, MessageKinds, Steps, NotFromQueued
  <2>2. CASE ReplyCommit(w)
    BY <2>2, ReplyCommitKeepsInv
  <2> QED BY <1>3, <2>1, <2>2 DEF Reply
<1>4. ASSUME NEW w \in Workers, Resolve(w) PROVE Inv'
  <2> "note" \in Steps /\ "resolve" \in NotFromQueued
    BY DEF Steps, NotFromQueued
  <2>1. CASE ResolveRead(w)
    BY <2>1, BeginKeepsInv DEF ResolveRead, Resolvable, Ops, MessageKinds, Steps
  <2>2. CASE ResolveSave(w)
    <3>1. row.status # "queued" /\ req[w].now # 0
      BY <2>2 DEF ResolveSave, At, Inv, SnapshotsLag
    <3>2. /\ row'.status = "resolved" /\ row'.resolved_at # 0
          /\ row'.first_response_at = row.first_response_at
      BY <2>2, <3>1 DEF ResolveSave, AfterResolve, Inv, TypeOK, Rows
    <3>3. StampsFollowStatus'
      BY <3>2 DEF StampsFollowStatus
    <3> QED BY <2>2, <3>1, <3>2, <3>3, SaveKeepsInv DEF ResolveSave
  <2>3. CASE ResolveNote(w)
    BY <2>3, NoteKeepsInv DEF ResolveNote
  <2>4. CASE ResolveRecord(w)
    BY <2>4, FinishKeepsInv DEF ResolveRecord, Record
  <2> QED BY <1>4, <2>1, <2>2, <2>3, <2>4 DEF Resolve
<1>5. ASSUME NEW w \in Workers, Close(w) PROVE Inv'
  <2> "note" \in Steps /\ "close" \in NotFromQueued
    BY DEF Steps, NotFromQueued
  <2>1. CASE CloseRead(w)
    BY <2>1, BeginKeepsInv DEF CloseRead, Closeable, Ops, MessageKinds, Steps
  <2>2. CASE CloseSave(w)
    <3>1. row.status # "queued" /\ req[w].now # 0
      BY <2>2 DEF CloseSave, At, Inv, SnapshotsLag
    <3>2. /\ row'.status = "closed" /\ row'.closed_at # 0
          /\ row'.first_response_at = row.first_response_at
      BY <2>2, <3>1 DEF CloseSave, AfterClose, Inv, TypeOK, Rows
    <3>3. StampsFollowStatus'
      BY <3>2 DEF StampsFollowStatus
    <3> QED BY <2>2, <3>1, <3>2, <3>3, SaveKeepsInv DEF CloseSave
  <2>3. CASE CloseNote(w)
    BY <2>3, NoteKeepsInv DEF CloseNote
  <2>4. CASE CloseRecord(w)
    BY <2>4, FinishKeepsInv DEF CloseRecord, Record
  <2> QED BY <1>5, <2>1, <2>2, <2>3, <2>4 DEF Close
<1>6. ASSUME NEW w \in Workers, Reopen(w) PROVE Inv'
  <2> "note" \in Steps /\ "reopen" \in NotFromQueued
    BY DEF Steps, NotFromQueued
  <2>1. CASE ReopenRead(w)
    BY <2>1, BeginKeepsInv DEF ReopenRead, Reopenable, Ops, MessageKinds, Steps
  <2>2. CASE ReopenSave(w)
    <3>1. row.status # "queued"
      BY <2>2 DEF ReopenSave, At, Inv, SnapshotsLag
    <3>2. /\ row'.status = "waiting_soc"
          /\ row'.first_response_at = row.first_response_at
      BY <2>2, <3>1 DEF ReopenSave, AfterReopen, Inv, TypeOK, Rows
    <3>3. StampsFollowStatus'
      BY <3>2 DEF StampsFollowStatus
    <3> QED BY <2>2, <3>1, <3>2, <3>3, SaveKeepsInv DEF ReopenSave
  <2>3. CASE ReopenNote(w)
    BY <2>3, NoteKeepsInv DEF ReopenNote
  <2>4. CASE ReopenRecord(w)
    BY <2>4, FinishKeepsInv DEF ReopenRecord, Record
  <2> QED BY <1>6, <2>1, <2>2, <2>3, <2>4 DEF Reopen
<1>7. ASSUME NEW w \in Workers, AutoResolve(w) PROVE Inv'
  <2> "save" \in Steps /\ "note" \in Steps /\ "autoresolve" \in NotFromQueued
    BY DEF Steps, NotFromQueued
  <2>1. CASE AutoResolveQuery(w)
    BY <2>1, BeginKeepsInv DEF AutoResolveQuery, Ops, MessageKinds, Steps
  <2>2. CASE AutoResolveCheck(w)
    BY <2>2, GotoKeepsInv, FinishKeepsInv DEF AutoResolveCheck
  <2>3. CASE AutoResolveSave(w)
    <3>1. row.status # "queued" /\ req[w].now # 0
      BY <2>3 DEF AutoResolveSave, At, Inv, SnapshotsLag
    <3>2. /\ row'.status = "resolved" /\ row'.resolved_at # 0
          /\ row'.first_response_at = row.first_response_at
      BY <2>3, <3>1 DEF AutoResolveSave, AfterResolve, Inv, TypeOK, Rows
    <3>3. StampsFollowStatus'
      BY <3>2 DEF StampsFollowStatus
    <3> QED BY <2>3, <3>1, <3>2, <3>3, SaveKeepsInv DEF AutoResolveSave
  <2>4. CASE AutoResolveNote(w)
    BY <2>4, NoteKeepsInv DEF AutoResolveNote
  <2> QED BY <1>7, <2>1, <2>2, <2>3, <2>4 DEF AutoResolve
<1>8. ASSUME NEW w \in Workers, AutoClose(w) PROVE Inv'
  <2> "note" \in Steps /\ "autoclose" \in NotFromQueued
    BY DEF Steps, NotFromQueued
  <2>1. CASE AutoCloseQuery(w)
    BY <2>1, BeginKeepsInv DEF AutoCloseQuery, Ops, MessageKinds, Steps
  <2>2. CASE AutoCloseSave(w)
    <3>1. row.status # "queued" /\ req[w].now # 0
      BY <2>2 DEF AutoCloseSave, At, Inv, SnapshotsLag
    <3>2. /\ row'.status = "closed" /\ row'.closed_at # 0
          /\ row'.first_response_at = row.first_response_at
      BY <2>2, <3>1 DEF AutoCloseSave, AfterClose, Inv, TypeOK, Rows
    <3>3. StampsFollowStatus'
      BY <3>2 DEF StampsFollowStatus
    <3> QED BY <2>2, <3>1, <3>2, <3>3, SaveKeepsInv DEF AutoCloseSave
  <2>3. CASE AutoCloseNote(w)
    BY <2>3, NoteKeepsInv DEF AutoCloseNote
  <2> QED BY <1>8, <2>1, <2>2, <2>3 DEF AutoClose
<1>9. ASSUME NEW w \in Workers, Crash(w) PROVE Inv'
  BY <1>9, FinishKeepsInv DEF Crash
<1> QED
  BY <1>1, <1>2, <1>3, <1>4, <1>5, <1>6, <1>7, <1>8, <1>9 DEF Next

\* The inductive invariant holds in every reachable state.
THEOREM Invariance == Spec => []Inv
BY InvInit, InvStep, PTL DEF Spec

\* A closed conversation carries its closing time and a resolved one its
\* resolution time, however the saves of stale snapshots interleave.
THEOREM StampsFollow == Spec => []StampsFollowStatus
<1>1. Inv => StampsFollowStatus
  BY DEF Inv
<1> QED BY <1>1, Invariance, PTL

\* The first-response time is set exactly when an analyst message exists.
THEOREM AnswerIsStamped == Spec => []AnsweredIsStamped
<1>1. Inv => AnsweredIsStamped
  BY DEF Inv
<1> QED BY <1>1, Invariance, PTL

\* Nothing happens to a conversation while it is queued: QUEUED is left for
\* good with the first analyst reply.
THEOREM QueuedUntouched == Spec => []QueuedIsUntouched
<1>1. Inv => QueuedIsUntouched
  BY DEF Inv
<1> QED BY <1>1, Invariance, PTL

-----------------------------------------------------------------------------
(***************************************************************************)
(* Counting requests.  The audit trail relates numbers of rows to numbers  *)
(* of requests at a statement.  Nothing bounds the set of workers, but at  *)
(* any time only finitely many of them have a request, so the counts are   *)
(* numbers, and a step of one request moves that request and no other.     *)
(***************************************************************************)

\* The workers that have a request.
Busy == {w \in Workers : req[w].op # "none"}

\* What request r adds to the count of requests of op at step.
Here(r, op, step) == IF r.op = op /\ r.step = step THEN 1 ELSE 0

\* The step of worker w leaves request r behind.
Becomes(w, r) == req' = [req EXCEPT ![w] = r]

\* In a state with finitely many requests InFlight is a natural number, which
\* is positive exactly when some request is there.
LEMMA InFlightCounts ==
  ASSUME IsFiniteSet(Busy), NEW op \in MessageKinds, NEW step
  PROVE  /\ IsFiniteSet({w \in Workers : At(w, op, step)})
         /\ InFlight(op, step) \in Nat
         /\ InFlight(op, step) > 0 <=> \E w \in Workers : At(w, op, step)
<1> DEFINE S == {w \in Workers : At(w, op, step)}
<1>1. S \in SUBSET Busy
  BY DEF Busy, At, MessageKinds
<1> HIDE DEF S
<1>2. IsFiniteSet(S)
  BY <1>1, FS_Subset
<1>3. Cardinality(S) \in Nat
  BY <1>2, FS_CardinalityType
<1>4. Cardinality(S) = 0 <=> S = {}
  BY <1>2, FS_EmptySet
<1>5. S # {} <=> \E w \in Workers : At(w, op, step)
  BY DEF S
<1>6. Cardinality(S) = InFlight(op, step)
  BY DEF S, InFlight
<1>7. IsFiniteSet({w \in Workers : At(w, op, step)})
  BY <1>2 DEF S
<1> QED BY <1>3, <1>4, <1>5, <1>6, <1>7

\* A step of one worker adds at most that worker to the busy ones.
LEMMA BusyStaysFinite ==
  ASSUME TypeOK, IsFiniteSet(Busy), NEW w \in Workers, NEW r, Becomes(w, r)
  PROVE  IsFiniteSet(Busy')
<1>1. Busy' \in SUBSET (Busy \cup {w})
  BY DEF Busy, Becomes, TypeOK
<1>2. IsFiniteSet(Busy \cup {w})
  BY FS_AddElement
<1> HIDE DEF Busy
<1> QED BY <1>1, <1>2, FS_Subset

\* A step of one worker takes its old request out of the count and puts its
\* new one in.
LEMMA Flow ==
  ASSUME TypeOK, IsFiniteSet(Busy), NEW w \in Workers, NEW r, Becomes(w, r),
         NEW op \in MessageKinds, NEW step
  PROVE  InFlight(op, step)' + Here(req[w], op, step)
           = InFlight(op, step) + Here(r, op, step)
<1> DEFINE S == {v \in Workers : At(v, op, step)}
           T == {v \in Workers : At(v, op, step)'}
<1>1. Here(req[w], op, step) = IF w \in S THEN 1 ELSE 0
  BY DEF Here, At
<1>2. Here(r, op, step) = IF w \in T THEN 1 ELSE 0
  BY DEF Here, At, Becomes, TypeOK
<1>3. S \ {w} = T \ {w}
  BY DEF At, Becomes, TypeOK
<1>4. IsFiniteSet(S) /\ Cardinality(S) = InFlight(op, step)
  BY InFlightCounts DEF InFlight
<1>5. IsFiniteSet(Busy')
  BY BusyStaysFinite
<1>6. T \in SUBSET Busy'
  BY DEF Busy, At, MessageKinds
<1>7. IsFiniteSet(T) /\ Cardinality(T) = InFlight(op, step)'
  BY <1>5, <1>6, FS_Subset DEF InFlight
<1> HIDE DEF S, T
<1>8. Cardinality(S) \in Nat /\ Cardinality(T) \in Nat
  BY <1>4, <1>7, FS_CardinalityType
<1>9. Cardinality(S \ {w}) = IF w \in S THEN Cardinality(S) - 1 ELSE Cardinality(S)
  BY <1>4, FS_RemoveElement
<1>10. Cardinality(T \ {w}) = IF w \in T THEN Cardinality(T) - 1 ELSE Cardinality(T)
  BY <1>7, FS_RemoveElement
<1>11. Cardinality(T) + (IF w \in S THEN 1 ELSE 0) = Cardinality(S) + (IF w \in T THEN 1 ELSE 0)
  <2> DEFINE s == Cardinality(S)
             t == Cardinality(T)
  <2>1. Cardinality(S \ {w}) = Cardinality(T \ {w})
    BY <1>3
  <2>2. (IF w \in S THEN s - 1 ELSE s) = (IF w \in T THEN t - 1 ELSE t)
    BY <2>1, <1>9, <1>10
  <2>3. s \in Nat /\ t \in Nat
    BY <1>8
  <2> HIDE DEF s, t
  <2>4. t + (IF w \in S THEN 1 ELSE 0) = s + (IF w \in T THEN 1 ELSE 0)
    BY <2>2, <2>3
  <2> QED BY <2>4 DEF s, t
<1> QED BY <1>1, <1>2, <1>4, <1>7, <1>11

-----------------------------------------------------------------------------
Manual == {"resolve", "close", "reopen"}

CountInv == TypeOK /\ IsFiniteSet(Busy) /\ AuditTrail

\* What a step must balance: a message needs its event or a request that is
\* on its way to record it, and only a crash may leave a message without one.
Balanced(w, r) ==
  /\ events'["reply"] + messages["reply"] = events["reply"] + messages'["reply"]
  /\ \A k \in Manual :
       /\ events'[k] + Here(r, k, "event") + messages[k]
            <= events[k] + Here(req[w], k, "event") + messages'[k]
       /\ messages'[k] + events[k] + Here(req[w], k, "event") + crashes
            <= messages[k] + events'[k] + Here(r, k, "event") + crashes'
  /\ events'["send"] + Here(r, "send", "save") + Here(r, "send", "event") + messages["send"]
       <= events["send"] + Here(req[w], "send", "save") + Here(req[w], "send", "event")
            + messages'["send"]

\* A balanced step keeps the audit trail.
LEMMA BalancedStep ==
  ASSUME CountInv, TypeOK', NEW w \in Workers, NEW r, Becomes(w, r), Balanced(w, r)
  PROVE  CountInv'
<1>1. IsFiniteSet(Busy')
  BY BusyStaysFinite DEF CountInv
<1>2. \A op \in MessageKinds, step \in Steps :
        /\ InFlight(op, step) \in Nat
        /\ InFlight(op, step)' \in Nat
        /\ InFlight(op, step)' + Here(req[w], op, step) = InFlight(op, step) + Here(r, op, step)
  <2> SUFFICES ASSUME NEW op \in MessageKinds, NEW step \in Steps
               PROVE  /\ InFlight(op, step) \in Nat
                      /\ InFlight(op, step)' \in Nat
                      /\ InFlight(op, step)' + Here(req[w], op, step)
                           = InFlight(op, step) + Here(r, op, step)
    OBVIOUS
  <2>1. InFlight(op, step) \in Nat
    BY InFlightCounts DEF CountInv
  <2>2. \A S : IsFiniteSet(S) => Cardinality(S) \in Nat
    BY FS_CardinalityType
  <2>3. {v \in Workers : At(v, op, step)'} \in SUBSET Busy'
    BY DEF Busy, At, MessageKinds
  <2>4. InFlight(op, step)' \in Nat
    BY <1>1, <2>2, <2>3, FS_Subset DEF InFlight
  <2> QED BY <2>1, <2>4, Flow DEF CountInv
<1>3. \A q, op, step : Here(q, op, step) \in {0, 1}
  BY DEF Here
<1>4. /\ "reply" \in MessageKinds /\ "reply" \in EventKinds
      /\ "send" \in MessageKinds /\ "send" \in EventKinds
      /\ \A k \in Manual : k \in MessageKinds /\ k \in EventKinds
      /\ "event" \in Steps /\ "save" \in Steps
  BY DEF MessageKinds, EventKinds, Manual, Steps
<1>5. /\ \A k \in MessageKinds : messages[k] \in Nat /\ messages'[k] \in Nat
      /\ \A k \in EventKinds : events[k] \in Nat /\ events'[k] \in Nat
      /\ crashes \in Nat /\ crashes' \in Nat
  BY DEF CountInv, TypeOK
<1>6. events'["reply"] = messages'["reply"]
  <2>1. events["reply"] = messages["reply"]
    BY DEF CountInv, AuditTrail
  <2>2. events'["reply"] + messages["reply"] = events["reply"] + messages'["reply"]
    BY DEF Balanced
  <2> QED BY <1>4, <1>5, <2>1, <2>2
<1>7. ASSUME NEW k \in Manual
      PROVE  /\ events'[k] + InFlight(k, "event")' <= messages'[k]
             /\ messages'[k] <= events'[k] + InFlight(k, "event")' + crashes'
  <2>1. /\ events[k] + InFlight(k, "event") <= messages[k]
        /\ messages[k] <= events[k] + InFlight(k, "event") + crashes
    BY DEF CountInv, AuditTrail, Manual
  <2>2. InFlight(k, "event")' + Here(req[w], k, "event") = InFlight(k, "event") + Here(r, k, "event")
    BY <1>2, <1>4
  <2>3. /\ events'[k] + Here(r, k, "event") + messages[k]
             <= events[k] + Here(req[w], k, "event") + messages'[k]
        /\ messages'[k] + events[k] + Here(req[w], k, "event") + crashes
             <= messages[k] + events'[k] + Here(r, k, "event") + crashes'
    BY DEF Balanced
  <2> QED BY <1>2, <1>3, <1>4, <1>5, <2>1, <2>2, <2>3
<1>8. events'["send"] + InFlight("send", "save")' + InFlight("send", "event")' <= messages'["send"]
  <2>1. events["send"] + InFlight("send", "save") + InFlight("send", "event") <= messages["send"]
    BY DEF CountInv, AuditTrail
  <2>2. /\ InFlight("send", "save")' + Here(req[w], "send", "save")
             = InFlight("send", "save") + Here(r, "send", "save")
        /\ InFlight("send", "event")' + Here(req[w], "send", "event")
             = InFlight("send", "event") + Here(r, "send", "event")
    BY <1>2, <1>4
  <2>3. events'["send"] + Here(r, "send", "save") + Here(r, "send", "event") + messages["send"]
          <= events["send"] + Here(req[w], "send", "save") + Here(req[w], "send", "event")
               + messages'["send"]
    BY DEF Balanced
  <2> QED BY <1>2, <1>3, <1>4, <1>5, <2>1, <2>2, <2>3
<1>9. AuditTrail'
  BY <1>6, <1>7, <1>8 DEF AuditTrail, Manual
<1> QED BY <1>1, <1>9 DEF CountInv

\* The counts that the audit trail compares are numbers.
LEMMA CountsAreNumbers ==
  ASSUME CountInv
  PROVE  /\ \A k \in MessageKinds : messages[k] \in Nat
         /\ \A k \in EventKinds : events[k] \in Nat
         /\ crashes \in Nat
         /\ "send" \in MessageKinds \cap EventKinds /\ "reply" \in MessageKinds \cap EventKinds
         /\ Manual \subseteq MessageKinds \cap EventKinds
BY DEF CountInv, TypeOK, MessageKinds, EventKinds, Manual

\* The request that each shared step leaves behind.
LEMMA StepBecomes ==
  ASSUME TypeOK, NEW w \in Workers
  PROVE  /\ \A op, step : Begin(w, op, step) =>
              Becomes(w, [op |-> op, step |-> step, seen |-> row, now |-> clock + 1])
         /\ \A step : Goto(w, step) => Becomes(w, [req[w] EXCEPT !.step = step])
         /\ Finish(w) => Becomes(w, NoRequest)
BY DEF Begin, Goto, Finish, Becomes

\* A step that writes neither messages nor events, and neither comes from nor
\* goes to a statement that the audit trail counts.
LEMMA SilentStep ==
  ASSUME CountInv, TypeOK', NEW w \in Workers, NEW r, Becomes(w, r),
         UNCHANGED <<messages, events, crashes>>,
         \A step \in {"save", "event"} : Here(r, "send", step) = Here(req[w], "send", step),
         \A k \in Manual : Here(r, k, "event") = Here(req[w], k, "event")
  PROVE  CountInv'
<1>1. Balanced(w, r)
  <2>1. \A q, op, step : Here(q, op, step) \in {0, 1}
    BY DEF Here
  <2> QED BY <2>1, CountsAreNumbers DEF Balanced
<1> QED BY <1>1, BalancedStep

\* Reading the row to begin a request.
LEMMA BeginKeepsCount ==
  ASSUME CountInv, TypeOK', NEW w \in Workers, NEW op, NEW step, Begin(w, op, step),
         step # "event", op = "send" => step # "save"
  PROVE  CountInv'
<1> DEFINE r == [op |-> op, step |-> step, seen |-> row, now |-> clock + 1]
<1>1. Becomes(w, r)
  BY StepBecomes DEF CountInv
<1>2. req[w].op = "none" /\ UNCHANGED <<messages, events, crashes>>
  BY DEF Begin
<1>3. /\ \A s \in {"save", "event"} : Here(r, "send", s) = 0 /\ Here(req[w], "send", s) = 0
      /\ \A k \in Manual : Here(r, k, "event") = 0 /\ Here(req[w], k, "event") = 0
  BY <1>2 DEF Here, Manual
<1> HIDE DEF r
<1> QED BY <1>1, <1>2, <1>3, SilentStep

\* Going on to a statement that is not counted.
LEMMA GotoKeepsCount ==
  ASSUME CountInv, TypeOK', NEW w \in Workers, NEW step, Goto(w, step),
         UNCHANGED <<messages, events, crashes>>,
         req[w].op # "send", req[w].step # "event", step # "event"
  PROVE  CountInv'
<1> DEFINE r == [req[w] EXCEPT !.step = step]
<1>1. Becomes(w, r)
  BY StepBecomes DEF CountInv
<1>2. r.op # "send" /\ r.step # "event"
  BY DEF CountInv, TypeOK, Requests
<1> HIDE DEF r
<1>3. /\ \A s \in {"save", "event"} : Here(r, "send", s) = 0 /\ Here(req[w], "send", s) = 0
      /\ \A k \in Manual : Here(r, k, "event") = 0 /\ Here(req[w], k, "event") = 0
  BY <1>2 DEF Here
<1> QED BY <1>1, <1>3, SilentStep

\* A request without an event of its own ends, be it after its message.
LEMMA EndKeepsCount ==
  ASSUME CountInv, TypeOK', NEW w \in Workers, Finish(w), UNCHANGED <<events, crashes>>,
         NEW op \in {"autoresolve", "autoclose"}, req[w].op = op,
         UNCHANGED messages \/ AddMessage(op)
  PROVE  CountInv'
<1>1. Becomes(w, NoRequest)
  BY StepBecomes DEF CountInv
<1>2. /\ \A s \in {"save", "event"} : Here(NoRequest, "send", s) = 0 /\ Here(req[w], "send", s) = 0
      /\ \A k \in Manual : Here(NoRequest, k, "event") = 0 /\ Here(req[w], k, "event") = 0
  BY DEF Here, Manual, NoRequest
<1>3. /\ messages'["send"] = messages["send"] /\ messages'["reply"] = messages["reply"]
      /\ \A k \in Manual : messages'[k] = messages[k]
  BY DEF AddMessage, CountInv, TypeOK, MessageKinds, Manual
<1>4. Balanced(w, NoRequest)
  BY CountsAreNumbers, <1>2, <1>3 DEF Balanced
<1> QED BY <1>1, <1>4, BalancedStep

\* The system message of an operation that records an event puts its request
\* before the recording.
LEMMA NoteKeepsCount ==
  ASSUME CountInv, TypeOK', NEW w \in Workers, NEW op \in Manual, Note(w, op), Goto(w, "event")
  PROVE  CountInv'
<1> DEFINE r == [req[w] EXCEPT !.step = "event"]
<1>1. Becomes(w, r)
  BY StepBecomes DEF CountInv
<1>2. r.op = op /\ r.step = "event" /\ req[w].op = op /\ req[w].step = "note"
  BY DEF CountInv, TypeOK, Requests, Note, At
<1> HIDE DEF r
<1>3. /\ \A s \in {"save", "event"} : Here(r, "send", s) = 0 /\ Here(req[w], "send", s) = 0
      /\ \A k \in Manual : /\ Here(r, k, "event") = IF k = op THEN 1 ELSE 0
                           /\ Here(req[w], k, "event") = 0
  BY <1>2 DEF Here, Manual
<1>4. /\ messages'["send"] = messages["send"] /\ messages'["reply"] = messages["reply"]
      /\ \A k \in Manual : messages'[k] = IF k = op THEN messages[k] + 1 ELSE messages[k]
      /\ UNCHANGED <<events, crashes>>
  BY DEF Note, AddMessage, CountInv, TypeOK, MessageKinds, Manual
<1>5. Balanced(w, r)
  BY CountsAreNumbers, <1>3, <1>4 DEF Balanced
<1> QED BY <1>1, <1>5, BalancedStep

\* The event of an operation takes its request out of the count.
LEMMA RecordKeepsCount ==
  ASSUME CountInv, TypeOK', NEW w \in Workers, NEW op \in Manual \cup {"send"}, Record(w, op)
  PROVE  CountInv'
<1>1. Becomes(w, NoRequest)
  BY StepBecomes DEF CountInv, Record
<1>2. req[w].op = op /\ req[w].step = "event"
  BY DEF Record, At
<1>3. /\ Here(NoRequest, "send", "save") = 0 /\ Here(req[w], "send", "save") = 0
      /\ Here(NoRequest, "send", "event") = 0
      /\ Here(req[w], "send", "event") = IF op = "send" THEN 1 ELSE 0
      /\ \A k \in Manual : /\ Here(NoRequest, k, "event") = 0
                           /\ Here(req[w], k, "event") = IF k = op THEN 1 ELSE 0
  BY <1>2 DEF Here, Manual, NoRequest
<1>4. /\ events'["send"] = IF op = "send" THEN events["send"] + 1 ELSE events["send"]
      /\ events'["reply"] = events["reply"]
      /\ \A k \in Manual : events'[k] = IF k = op THEN events[k] + 1 ELSE events[k]
      /\ UNCHANGED <<messages, crashes>>
  BY DEF Record, AddEvent, CountInv, TypeOK, EventKinds, Manual
<1>5. Balanced(w, NoRequest)
  BY CountsAreNumbers, <1>3, <1>4 DEF Balanced
<1> QED BY <1>1, <1>5, BalancedStep

\* A customer message is counted with the request that has yet to record it.
LEMMA SendKeepsCount ==
  ASSUME CountInv, TypeOK', NEW w \in Workers, Send(w)
  PROVE  CountInv'
<1>1. CASE SendRead(w)
  BY <1>1, BeginKeepsCount DEF SendRead
<1>2. CASE SendMessage(w)
  <2> DEFINE r == [req[w] EXCEPT !.step = "save"]
  <2>1. Becomes(w, r)
    BY <1>2, StepBecomes DEF CountInv, SendMessage
  <2>2. r.op = "send" /\ r.step = "save" /\ req[w].op = "send" /\ req[w].step = "message"
    BY <1>2 DEF CountInv, TypeOK, Requests, SendMessage, At
  <2> HIDE DEF r
  <2>3. /\ Here(r, "send", "save") = 1 /\ Here(req[w], "send", "save") = 0
        /\ Here(r, "send", "event") = 0 /\ Here(req[w], "send", "event") = 0
        /\ \A k \in Manual : Here(r, k, "event") = 0 /\ Here(req[w], k, "event") = 0
    BY <2>2 DEF Here, Manual
  <2>4. /\ messages'["send"] = messages["send"] + 1 /\ messages'["reply"] = messages["reply"]
        /\ \A k \in Manual : messages'[k] = messages[k]
        /\ UNCHANGED <<events, crashes>>
    BY <1>2 DEF SendMessage, AddMessage, CountInv, TypeOK, MessageKinds, Manual
  <2>5. Balanced(w, r)
    BY CountsAreNumbers, <2>3, <2>4 DEF Balanced
  <2> QED BY <2>1, <2>5, BalancedStep
<1>3. CASE SendSave(w)
  <2> DEFINE r == [req[w] EXCEPT !.step = "event"]
  <2>1. Becomes(w, r)
    BY <1>3, StepBecomes DEF CountInv, SendSave
  <2>2. r.op = "send" /\ r.step = "event" /\ req[w].op = "send" /\ req[w].step = "save"
    BY <1>3 DEF CountInv, TypeOK, Requests, SendSave, At
  <2> HIDE DEF r
  <2>3. /\ Here(r, "send", "save") = 0 /\ Here(req[w], "send", "save") = 1
        /\ Here(r, "send", "event") = 1 /\ Here(req[w], "send", "event") = 0
        /\ \A k \in Manual : Here(r, k, "event") = 0 /\ Here(req[w], k, "event") = 0
    BY <2>2 DEF Here, Manual
  <2>4. UNCHANGED <<messages, events, crashes>>
    BY <1>3 DEF SendSave
  <2>5. Balanced(w, r)
    BY CountsAreNumbers, <2>3, <2>4 DEF Balanced
  <2> QED BY <2>1, <2>5, BalancedStep
<1>4. CASE SendRecord(w)
  BY <1>4, RecordKeepsCount DEF SendRecord
<1> QED BY <1>1, <1>2, <1>3, <1>4 DEF Send

\* The transaction of a reply writes message and event together.
LEMMA ReplyKeepsCount ==
  ASSUME CountInv, TypeOK', NEW w \in Workers, Reply(w)
  PROVE  CountInv'
<1>1. CASE ReplyRead(w)
  BY <1>1, BeginKeepsCount DEF ReplyRead
<1>2. CASE ReplyCommit(w)
  <2>1. Becomes(w, NoRequest)
    BY <1>2, StepBecomes DEF CountInv, ReplyCommit
  <2>2. /\ \A s \in {"save", "event"} : Here(NoRequest, "send", s) = 0 /\ Here(req[w], "send", s) = 0
        /\ \A k \in Manual : Here(NoRequest, k, "event") = 0 /\ Here(req[w], k, "event") = 0
    BY <1>2 DEF Here, Manual, NoRequest, ReplyCommit, At
  <2>3. /\ messages'["send"] = messages["send"] /\ messages'["reply"] = messages["reply"] + 1
        /\ events'["send"] = events["send"] /\ events'["reply"] = events["reply"] + 1
        /\ \A k \in Manual : messages'[k] = messages[k] /\ events'[k] = events[k]
        /\ UNCHANGED crashes
    BY <1>2 DEF ReplyCommit, AddMessage, AddEvent, CountInv, TypeOK, MessageKinds, EventKinds, Manual
  <2>4. Balanced(w, NoRequest)
    <3>1. events'["reply"] + messages["reply"] = events["reply"] + messages'["reply"]
      BY CountsAreNumbers, <2>3
    <3>2. ASSUME NEW k \in Manual
          PROVE  /\ events'[k] + Here(NoRequest, k, "event") + messages[k]
                      <= events[k] + Here(req[w], k, "event") + messages'[k]
                 /\ messages'[k] + events[k] + Here(req[w], k, "event") + crashes
                      <= messages[k] + events'[k] + Here(NoRequest, k, "event") + crashes'
      BY CountsAreNumbers, <2>2, <2>3
    <3>3. /\ Here(NoRequest, "send", "save") = 0 /\ Here(req[w], "send", "save") = 0
          /\ Here(NoRequest, "send", "event") = 0 /\ Here(req[w], "send", "event") = 0
      BY <2>2
    <3> QED BY CountsAreNumbers, <2>3, <3>1, <3>2, <3>3 DEF Balanced
  <2> QED BY <2>1, <2>4, BalancedStep
<1> QED BY <1>1, <1>2 DEF Reply

\* A crash may take away a request that had yet to record its event, and is
\* counted for it.
LEMMA CrashKeepsCount ==
  ASSUME CountInv, TypeOK', NEW w \in Workers, Crash(w)
  PROVE  CountInv'
<1>1. Becomes(w, NoRequest)
  BY StepBecomes DEF CountInv, Crash
<1>2. /\ \A s \in {"save", "event"} : Here(NoRequest, "send", s) = 0
      /\ \A k \in Manual : Here(NoRequest, k, "event") = 0
  BY DEF Here, NoRequest, Manual
<1>3. \A op, step : Here(req[w], op, step) \in {0, 1}
  BY DEF Here
<1>4. UNCHANGED <<messages, events>> /\ crashes' = crashes + 1
  BY DEF Crash
<1>5. Balanced(w, NoRequest)
  BY CountsAreNumbers, <1>2, <1>3, <1>4 DEF Balanced
<1> QED BY <1>1, <1>5, BalancedStep

\* Nobody is busy at first, and no row but the conversation exists.
LEMMA CountInit == Init => CountInv
<1> SUFFICES ASSUME Init PROVE CountInv
  OBVIOUS
<1>1. Busy = {} /\ IsFiniteSet(Busy)
  BY FS_EmptySet DEF Init, Busy, NoRequest
<1>2. \A op \in MessageKinds, step \in Steps : InFlight(op, step) = 0
  <2>1. ASSUME NEW op \in MessageKinds, NEW step \in Steps
        PROVE  {w \in Workers : At(w, op, step)} = {}
    BY DEF Init, At, NoRequest, MessageKinds
  <2> QED BY <2>1, FS_EmptySet DEF InFlight
<1>3. AuditTrail
  BY <1>2 DEF Init, AuditTrail, MessageKinds, EventKinds, Steps
<1> QED BY <1>1, <1>3, TypeInit DEF CountInv

\* Every statement of every request keeps the counts in step.
LEMMA CountStep == CountInv /\ [Next]_vars => CountInv'
<1> SUFFICES ASSUME CountInv, [Next]_vars PROVE CountInv'
  OBVIOUS
<1>0. TypeOK'
  BY TypeStep DEF CountInv
<1>1. CASE UNCHANGED vars
  BY <1>1 DEF vars, CountInv, TypeOK, AuditTrail, InFlight, At, Busy
<1>2. ASSUME NEW w \in Workers, Send(w) PROVE CountInv'
  BY <1>0, <1>2, SendKeepsCount
<1>3. ASSUME NEW w \in Workers, Reply(w) PROVE CountInv'
  BY <1>0, <1>3, ReplyKeepsCount
<1>4. ASSUME NEW w \in Workers, Resolve(w) PROVE CountInv'
  <2>1. CASE ResolveRead(w)
    BY <1>0, <2>1, BeginKeepsCount DEF ResolveRead
  <2>2. CASE ResolveSave(w)
    BY <1>0, <2>2, GotoKeepsCount DEF ResolveSave, At
  <2>3. CASE ResolveNote(w)
    BY <1>0, <2>3, NoteKeepsCount DEF ResolveNote, Manual
  <2>4. CASE ResolveRecord(w)
    BY <1>0, <2>4, RecordKeepsCount DEF ResolveRecord, Manual
  <2> QED BY <1>4, <2>1, <2>2, <2>3, <2>4 DEF Resolve
<1>5. ASSUME NEW w \in Workers, Close(w) PROVE CountInv'
  <2>1. CASE CloseRead(w)
    BY <1>0, <2>1, BeginKeepsCount DEF CloseRead
  <2>2. CASE CloseSave(w)
    BY <1>0, <2>2, GotoKeepsCount DEF CloseSave, At
  <2>3. CASE CloseNote(w)
    BY <1>0, <2>3, NoteKeepsCount DEF CloseNote, Manual
  <2>4. CASE CloseRecord(w)
    BY <1>0, <2>4, RecordKeepsCount DEF CloseRecord, Manual
  <2> QED BY <1>5, <2>1, <2>2, <2>3, <2>4 DEF Close
<1>6. ASSUME NEW w \in Workers, Reopen(w) PROVE CountInv'
  <2>1. CASE ReopenRead(w)
    BY <1>0, <2>1, BeginKeepsCount DEF ReopenRead
  <2>2. CASE ReopenSave(w)
    BY <1>0, <2>2, GotoKeepsCount DEF ReopenSave, At
  <2>3. CASE ReopenNote(w)
    BY <1>0, <2>3, NoteKeepsCount DEF ReopenNote, Manual
  <2>4. CASE ReopenRecord(w)
    BY <1>0, <2>4, RecordKeepsCount DEF ReopenRecord, Manual
  <2> QED BY <1>6, <2>1, <2>2, <2>3, <2>4 DEF Reopen
<1>7. ASSUME NEW w \in Workers, AutoResolve(w) PROVE CountInv'
  <2>1. CASE AutoResolveQuery(w)
    BY <1>0, <2>1, BeginKeepsCount DEF AutoResolveQuery
  <2>2. CASE AutoResolveCheck(w)
    BY <1>0, <2>2, GotoKeepsCount, EndKeepsCount DEF AutoResolveCheck, At
  <2>3. CASE AutoResolveSave(w)
    BY <1>0, <2>3, GotoKeepsCount DEF AutoResolveSave, At
  <2>4. CASE AutoResolveNote(w)
    BY <1>0, <2>4, EndKeepsCount DEF AutoResolveNote, Note, At
  <2> QED BY <1>7, <2>1, <2>2, <2>3, <2>4 DEF AutoResolve
<1>8. ASSUME NEW w \in Workers, AutoClose(w) PROVE CountInv'
  <2>1. CASE AutoCloseQuery(w)
    BY <1>0, <2>1, BeginKeepsCount DEF AutoCloseQuery
  <2>2. CASE AutoCloseSave(w)
    BY <1>0, <2>2, GotoKeepsCount DEF AutoCloseSave, At
  <2>3. CASE AutoCloseNote(w)
    BY <1>0, <2>3, EndKeepsCount DEF AutoCloseNote, Note, At
  <2> QED BY <1>8, <2>1, <2>2, <2>3 DEF AutoClose
<1>9. ASSUME NEW w \in Workers, Crash(w) PROVE CountInv'
  BY <1>0, <1>9, CrashKeepsCount
<1> QED
  BY <1>1, <1>2, <1>3, <1>4, <1>5, <1>6, <1>7, <1>8, <1>9 DEF Next

\* Message and event counts stay in step, for any number of workers.
THEOREM Audited == Spec => []AuditTrail
<1>1. CountInv => AuditTrail
  BY DEF CountInv
<1> QED BY <1>1, CountInit, CountStep, PTL DEF Spec

-----------------------------------------------------------------------------
(***************************************************************************)
(* EndIsAnnounced.  The state Told is entered with the save that ends the  *)
(* conversation, whose request has its message still to write, and never   *)
(* left: that request writes the message or crashes, messages and crashes  *)
(* only increase.                                                          *)
(***************************************************************************)

Telling(op) == \E w \in Workers : At(w, op, "note")

Told(auto, manual) ==
  \/ messages[auto] > 0 \/ messages[manual] > 0
  \/ Telling(auto) \/ Telling(manual)
  \/ crashes > 0

Announced ==
  /\ row.status = "closed" => Told("autoclose", "close")
  /\ row.status = "resolved" => Told("autoresolve", "resolve")

\* What a step of w may do to an announcement: no message is taken back, a
\* request does not leave "note" without its message or a crash, and an ended
\* status is written by a request that goes to "note".
Announces(w) ==
  /\ \A v \in Workers \ {w} : req'[v] = req[v]
  /\ \A k \in MessageKinds : messages'[k] >= messages[k]
  /\ crashes' >= crashes
  /\ req[w].op # "none" /\ req[w].step = "note" => messages'[req[w].op] > 0 \/ crashes' > 0
  /\ row'.status = "closed" /\ row.status # "closed" =>
       \E op \in {"autoclose", "close"} : At(w, op, "note")'
  /\ row'.status = "resolved" /\ row.status # "resolved" =>
       \E op \in {"autoresolve", "resolve"} : At(w, op, "note")'

\* The statements that announce nothing and end nothing.
LEMMA PlainAnnounces ==
  ASSUME TypeOK, NEW w \in Workers, NEW r, Becomes(w, r),
         UNCHANGED messages \/ \E k \in MessageKinds : AddMessage(k),
         crashes' >= crashes,
         req[w].op = "none" \/ req[w].step # "note" \/ AddMessage(req[w].op) \/ crashes' > 0,
         row'.status \in {row.status, "waiting_soc", "waiting_customer"}
  PROVE  Announces(w)
<1>1. \A v \in Workers \ {w} : req'[v] = req[v]
  BY DEF Becomes, TypeOK
<1>2. \A k \in MessageKinds : messages'[k] >= messages[k]
  BY DEF AddMessage, TypeOK
<1>3. req[w].op # "none" => req[w].op \in MessageKinds
  BY DEF TypeOK, Requests, Ops
<1>4. req[w].op # "none" /\ req[w].step = "note" => messages'[req[w].op] > 0 \/ crashes' > 0
  BY <1>3 DEF AddMessage, TypeOK
<1> QED BY <1>1, <1>2, <1>4 DEF Announces

\* The saves that end a conversation put their request before its message.
LEMMA EndSaveAnnounces ==
  ASSUME TypeOK, NEW w \in Workers, NEW op, At(w, op, "save"), Goto(w, "note"),
         UNCHANGED <<messages, crashes>>,
         \/ row'.status = "closed" /\ op \in {"autoclose", "close"}
         \/ row'.status = "resolved" /\ op \in {"autoresolve", "resolve"}
  PROVE  Announces(w)
<1>1. At(w, op, "note")' /\ req[w].step # "note"
  BY DEF At, Goto, TypeOK, Requests
<1>2. \A v \in Workers \ {w} : req'[v] = req[v]
  BY DEF Goto, TypeOK
<1>3. /\ \A k \in MessageKinds : messages'[k] >= messages[k]
      /\ crashes' >= crashes
  BY DEF TypeOK
<1> QED BY <1>1, <1>2, <1>3 DEF Announces

\* Every step of a worker is of one of these two forms.
LEMMA StepAnnounces ==
  ASSUME TypeOK, NEW w \in Workers,
         \/ Send(w) \/ Reply(w) \/ Resolve(w) \/ Close(w) \/ Reopen(w)
         \/ AutoResolve(w) \/ AutoClose(w) \/ Crash(w)
  PROVE  Announces(w)
<1>0. row \in Rows /\ crashes \in Nat /\ crashes >= crashes
  BY DEF TypeOK
<1>1. \A op \in MessageKinds, step \in Steps : Begin(w, op, step) => Announces(w)
  BY <1>0, StepBecomes, PlainAnnounces DEF Begin
<1>2. \A op \in MessageKinds : Note(w, op) /\ (Goto(w, "event") \/ Finish(w)) => Announces(w)
  BY <1>0, StepBecomes, PlainAnnounces DEF Note, At
<1>3. \A op \in EventKinds : Record(w, op) => Announces(w)
  BY <1>0, StepBecomes, PlainAnnounces DEF Record, At
<1>4. \A step : Goto(w, step) => \E r : Becomes(w, r)
  BY StepBecomes
<1>5. /\ \A k \in MessageKinds : k # "none"
      /\ {"message", "txn", "save", "check"} \subseteq Steps
      /\ EventKinds \subseteq MessageKinds
      /\ {"send", "reply", "resolve", "close", "reopen"} \subseteq EventKinds
      /\ {"autoresolve", "autoclose"} \subseteq MessageKinds
  BY DEF MessageKinds, Steps, EventKinds
<1>6. CASE Send(w)
  <2>1. CASE SendMessage(w)
    BY <1>0, <1>4, <1>5, <2>1, PlainAnnounces DEF SendMessage, At
  <2>2. CASE SendSave(w)
    <3>1. row'.status \in {row.status, "waiting_soc"}
      BY <1>0, <2>2 DEF SendSave, AfterSend, Rows
    <3> QED BY <1>0, <1>4, <2>2, <3>1, PlainAnnounces DEF SendSave, At
  <2> QED BY <1>1, <1>3, <1>5, <1>6, <2>1, <2>2 DEF Send, SendRead, SendRecord
<1>7. CASE Reply(w)
  <2>1. CASE ReplyCommit(w)
    <3>1. row'.status \in {row.status, "waiting_customer"}
      BY <1>0, <2>1 DEF ReplyCommit, AfterReply, Rows
    <3> QED BY <1>0, <1>5, <2>1, <3>1, StepBecomes, PlainAnnounces DEF ReplyCommit, At
  <2> QED BY <1>1, <1>5, <1>7, <2>1 DEF Reply, ReplyRead
<1>8. CASE Resolve(w)
  <2>1. CASE ResolveSave(w)
    <3>1. row'.status = "resolved"
      BY <1>0, <2>1 DEF ResolveSave, AfterResolve, Rows
    <3> QED BY <2>1, <3>1, EndSaveAnnounces DEF ResolveSave
  <2> QED BY <1>1, <1>2, <1>3, <1>5, <1>8, <2>1 DEF Resolve, ResolveRead, ResolveNote, ResolveRecord
<1>9. CASE Close(w)
  <2>1. CASE CloseSave(w)
    <3>1. row'.status = "closed"
      BY <1>0, <2>1 DEF CloseSave, AfterClose, Rows
    <3> QED BY <2>1, <3>1, EndSaveAnnounces DEF CloseSave
  <2> QED BY <1>1, <1>2, <1>3, <1>5, <1>9, <2>1 DEF Close, CloseRead, CloseNote, CloseRecord
<1>10. CASE Reopen(w)
  <2>1. CASE ReopenSave(w)
    <3>1. row'.status = "waiting_soc"
      BY <1>0, <2>1 DEF ReopenSave, AfterReopen, Rows
    <3> QED BY <1>0, <1>4, <2>1, <3>1, PlainAnnounces DEF ReopenSave, At
  <2> QED BY <1>1, <1>2, <1>3, <1>5, <1>10, <2>1 DEF Reopen, ReopenRead, ReopenNote, ReopenRecord
<1>11. CASE AutoResolve(w)
  <2>1. CASE AutoResolveCheck(w)
    BY <1>0, <1>4, <2>1, StepBecomes, PlainAnnounces DEF AutoResolveCheck, At
  <2>2. CASE AutoResolveSave(w)
    <3>1. row'.status = "resolved"
      BY <1>0, <2>2 DEF AutoResolveSave, AfterResolve, Rows
    <3> QED BY <2>2, <3>1, EndSaveAnnounces DEF AutoResolveSave
  <2> QED BY <1>1, <1>2, <1>5, <1>11, <2>1, <2>2 DEF AutoResolve, AutoResolveQuery, AutoResolveNote
<1>12. CASE AutoClose(w)
  <2>1. CASE AutoCloseSave(w)
    <3>1. row'.status = "closed"
      BY <1>0, <2>1 DEF AutoCloseSave, AfterClose, Rows
    <3> QED BY <2>1, <3>1, EndSaveAnnounces DEF AutoCloseSave
  <2> QED BY <1>1, <1>2, <1>5, <1>12, <2>1 DEF AutoClose, AutoCloseQuery, AutoCloseNote
<1>13. CASE Crash(w)
  BY <1>0, <1>13, StepBecomes, PlainAnnounces DEF Crash
<1> QED BY <1>6, <1>7, <1>8, <1>9, <1>10, <1>11, <1>12, <1>13

\* Once told, or about to be told, the customer stays so.
LEMMA ToldStays ==
  ASSUME TypeOK, TypeOK', NEW w \in Workers, Announces(w),
         NEW auto \in MessageKinds, NEW manual \in MessageKinds, Told(auto, manual)
  PROVE  Told(auto, manual)'
<1>1. \A op \in MessageKinds : messages[op] > 0 => messages'[op] > 0
  BY DEF Announces, TypeOK
<1>2. crashes > 0 => crashes' > 0
  BY DEF Announces, TypeOK
<1>3. ASSUME NEW op \in MessageKinds, NEW v \in Workers, At(v, op, "note")
      PROVE  At(v, op, "note")' \/ messages'[op] > 0 \/ crashes' > 0
  <2>1. op # "none"
    BY DEF MessageKinds
  <2>2. CASE v = w
    BY <1>3, <2>1, <2>2 DEF Announces, At
  <2>3. CASE v # w
    BY <1>3, <2>3 DEF Announces, At
  <2> QED BY <2>2, <2>3
<1> QED BY <1>1, <1>2, <1>3 DEF Told, Telling

\* What ends a conversation announces it, and what was announced stays so.
LEMMA AnnouncedStep == TypeOK /\ Announced /\ [Next]_vars => Announced'
<1> SUFFICES ASSUME TypeOK, Announced, [Next]_vars PROVE Announced'
  OBVIOUS
<1>1. CASE UNCHANGED vars
  BY <1>1 DEF vars, Announced, Told, Telling, At
<1>2. ASSUME NEW w \in Workers, Announces(w) PROVE Announced'
  <2>1. TypeOK'
    BY TypeStep
  <2>2. {"autoclose", "close", "autoresolve", "resolve"} \subseteq MessageKinds
    BY DEF MessageKinds
  <2>3. row.status = "closed" => Told("autoclose", "close")'
    BY <1>2, <2>1, <2>2, ToldStays DEF Announced
  <2>4. row.status = "resolved" => Told("autoresolve", "resolve")'
    BY <1>2, <2>1, <2>2, ToldStays DEF Announced
  <2>5. row'.status = "closed" /\ row.status # "closed" => Told("autoclose", "close")'
    BY <1>2 DEF Announces, Told, Telling
  <2>6. row'.status = "resolved" /\ row.status # "resolved" => Told("autoresolve", "resolve")'
    BY <1>2 DEF Announces, Told, Telling
  <2> QED BY <2>3, <2>4, <2>5, <2>6 DEF Announced
<1> QED BY <1>1, <1>2, StepAnnounces DEF Next

\* A conversation is only found closed or resolved after its customer was told
\* so, unless the telling is under way or was cut off.
THEOREM EndAnnounced == Spec => []EndIsAnnounced
<1>1. Init => Announced
  BY DEF Init, Announced, NewRow
<1>2. CountInv /\ Announced => EndIsAnnounced
  <2> SUFFICES ASSUME CountInv, Announced PROVE EndIsAnnounced
    OBVIOUS
  <2>1. ASSUME NEW auto \in MessageKinds, NEW manual \in MessageKinds, Told(auto, manual)
        PROVE  \/ messages[auto] + messages[manual] > 0
               \/ InFlight(auto, "note") + InFlight(manual, "note") > 0
               \/ crashes > 0
    <3>1. messages[auto] \in Nat /\ messages[manual] \in Nat
      BY DEF CountInv, TypeOK
    <3>2. /\ InFlight(auto, "note") \in Nat /\ InFlight(manual, "note") \in Nat
          /\ Telling(auto) => InFlight(auto, "note") > 0
          /\ Telling(manual) => InFlight(manual, "note") > 0
      BY InFlightCounts DEF CountInv, Telling
    <3> QED BY <2>1, <3>1, <3>2 DEF Told
  <2>2. {"autoclose", "close", "autoresolve", "resolve"} \subseteq MessageKinds
    BY DEF MessageKinds
  <2> QED BY <2>1, <2>2 DEF Announced, EndIsAnnounced
<1>3. CountInv => TypeOK
  BY DEF CountInv
<1> QED BY <1>1, <1>2, <1>3, CountInit, CountStep, AnnouncedStep, PTL DEF Spec

-----------------------------------------------------------------------------
(***************************************************************************)
(* Requests that overtake each other.  A request that has yet to save was  *)
(* admitted by the status in its snapshot.  If the row still has that      *)
(* status the save is a step of its operation in ConversationContract; if  *)
(* not, the row has left QUEUED and the save is what the contract calls    *)
(* overtaken.                                                              *)
(***************************************************************************)

\* The statuses in which an operation may be started.
Admits(op) ==
  CASE op = "send" -> Statuses \ {"closed"}
    [] op = "resolve" -> Resolvable
    [] op = "close" -> Closeable
    [] op = "reopen" -> Reopenable
    [] op = "autoresolve" -> {"waiting_customer"}
    [] op = "autoclose" -> {"resolved"}
    [] OTHER -> Statuses

\* The steps at which a request still has its decision to save.
Deciding == {"message", "check", "save", "txn"}

Admitted ==
  /\ row.status \notin {"new", "assigned"}
  /\ \A w \in Workers : req[w].step \in Deciding => req[w].seen.status \in Admits(req[w].op)

\* How a step may move the request of its worker without losing Admitted.
Moves(w) ==
  \/ Finish(w)
  \/ \E step \in {"note", "event"} : Goto(w, step)
  \/ \E step \in Deciding : Goto(w, step) /\ req[w].step \in Deciding
  \/ \E op \in Ops, step \in Steps : Begin(w, op, step) /\ row.status \in Admits(op)

\* Going on keeps the snapshot that admitted the request, and a new request
\* is admitted by the row it has just read.
LEMMA MovesKeepAdmitted ==
  ASSUME TypeOK, Admitted, NEW w \in Workers, Moves(w), row'.status \notin {"new", "assigned"}
  PROVE  Admitted'
<1>1. \A v \in Workers : v # w => req'[v] = req[v]
  BY DEF TypeOK, Moves, Finish, Goto, Begin
<1>2. req'[w].step \in Deciding => req'[w].seen.status \in Admits(req'[w].op)
  <2>1. CASE Finish(w)
    BY <2>1 DEF TypeOK, Finish, NoRequest, Deciding
  <2>2. ASSUME NEW step \in {"note", "event"}, Goto(w, step) PROVE req'[w].step \notin Deciding
    BY <2>2 DEF TypeOK, Goto, Deciding, Requests
  <2>3. ASSUME NEW step \in Deciding, Goto(w, step), req[w].step \in Deciding
        PROVE  req'[w].seen.status \in Admits(req'[w].op)
    <3>1. req'[w].seen = req[w].seen /\ req'[w].op = req[w].op
      BY <2>3 DEF TypeOK, Goto, Requests
    <3> QED BY <2>3, <3>1 DEF Admitted
  <2>4. ASSUME NEW op \in Ops, NEW step \in Steps, Begin(w, op, step), row.status \in Admits(op)
        PROVE  req'[w].seen.status \in Admits(req'[w].op)
    <3>1. req'[w].seen = row /\ req'[w].op = op
      BY <2>4 DEF TypeOK, Begin
    <3> QED BY <2>4, <3>1
  <2> QED BY <2>1, <2>2, <2>3, <2>4 DEF Moves
<1> QED BY <1>1, <1>2 DEF Admitted

\* The statements that write the row.
SaveSteps(w) ==
  \/ SendSave(w) \/ ReplyCommit(w) \/ ResolveSave(w) \/ CloseSave(w) \/ ReopenSave(w)
  \/ AutoResolveSave(w) \/ AutoCloseSave(w)

\* After its save a request has nothing left to decide.
LEMMA SaveMoves ==
  ASSUME NEW w \in Workers, SaveSteps(w)
  PROVE  /\ Moves(w) /\ Decided(w) /\ UNCHANGED clock
         /\ req[w].step \in Deciding /\ req[w].op # "none"
BY DEF SaveSteps, Moves, Deciding, At, SendSave, ReplyCommit, ResolveSave, CloseSave, ReopenSave,
   AutoResolveSave, AutoCloseSave

\* What each save writes over the row.
LEMMA SaveWrites ==
  ASSUME TypeOK, NEW w \in Workers
  PROVE  /\ SendSave(w) =>
              /\ row'.status = IF ChangedByCustomer(req[w].seen.status) THEN "waiting_soc"
                               ELSE row.status
              /\ row'.first_response_at = row.first_response_at
              /\ row'.closed_at = row.closed_at
         /\ ReplyCommit(w) =>
              /\ row'.status = IF ChangedByAnalyst(req[w].seen.status) THEN "waiting_customer"
                               ELSE row.status
              /\ row'.first_response_at = IF req[w].seen.first_response_at = 0 THEN req[w].now
                                          ELSE row.first_response_at
              /\ row'.closed_at = row.closed_at
         /\ ResolveSave(w) \/ AutoResolveSave(w) =>
              /\ row'.status = "resolved"
              /\ row'.first_response_at = row.first_response_at
              /\ row'.closed_at = row.closed_at
         /\ CloseSave(w) \/ AutoCloseSave(w) =>
              /\ row'.status = "closed"
              /\ row'.first_response_at = row.first_response_at
              /\ row'.closed_at = req[w].now
         /\ ReopenSave(w) =>
              /\ row'.status = "waiting_soc"
              /\ row'.first_response_at = row.first_response_at
              /\ row'.closed_at = 0
<1>1. row \in Rows
  BY DEF TypeOK
<1>2. SendSave(w) =>
        /\ row'.status = IF ChangedByCustomer(req[w].seen.status) THEN "waiting_soc" ELSE row.status
        /\ row'.first_response_at = row.first_response_at
        /\ row'.closed_at = row.closed_at
  BY <1>1 DEF SendSave, AfterSend, Rows
<1>3. ReplyCommit(w) =>
        /\ row'.status = IF ChangedByAnalyst(req[w].seen.status) THEN "waiting_customer"
                         ELSE row.status
        /\ row'.first_response_at = IF req[w].seen.first_response_at = 0 THEN req[w].now
                                    ELSE row.first_response_at
        /\ row'.closed_at = row.closed_at
  BY <1>1 DEF ReplyCommit, AfterReply, Rows
<1>4. ResolveSave(w) \/ AutoResolveSave(w) =>
        /\ row'.status = "resolved"
        /\ row'.first_response_at = row.first_response_at
        /\ row'.closed_at = row.closed_at
  BY <1>1 DEF ResolveSave, AutoResolveSave, AfterResolve, Rows
<1>5. CloseSave(w) \/ AutoCloseSave(w) =>
        /\ row'.status = "closed"
        /\ row'.first_response_at = row.first_response_at
        /\ row'.closed_at = req[w].now
  BY <1>1 DEF CloseSave, AutoCloseSave, AfterClose, Rows
<1>6. ReopenSave(w) =>
        /\ row'.status = "waiting_soc"
        /\ row'.first_response_at = row.first_response_at
        /\ row'.closed_at = 0
  BY <1>1 DEF ReopenSave, AfterReopen, Rows
<1> QED BY <1>2, <1>3, <1>4, <1>5, <1>6

\* A save whose snapshot shows the row's status is a legal step of its own
\* operation: the guard tested on the snapshot holds of the row.
LEMMA FreshSave ==
  ASSUME Inv, Admitted, NEW w \in Workers, SaveSteps(w), req[w].seen.status = row.status
  PROVE  Contract!Next
<1>1. TypeOK /\ row.status \in Statuses \ {"new", "assigned"}
  BY DEF Inv, TypeOK, Rows, Admitted
<1>2. /\ stale' = FALSE
      /\ req[w].now # 0
      /\ row.status \in Admits(req[w].op)
  BY SaveMoves DEF Decided, Inv, SnapshotsLag, Admitted
<1>3. CASE SendSave(w)
  <2>1. Contract!CustomerWrites
    <3>1. CASE ChangedByCustomer(row.status)
      BY <1>1, <1>2, <1>3, <3>1, SaveWrites
         DEF ChangedByCustomer, Contract!CustomerWrites, Contract!Take, Contract!CustomerMoves
    <3>2. CASE ~ChangedByCustomer(row.status)
      BY <1>1, <1>2, <1>3, <3>2, SaveWrites
         DEF ChangedByCustomer, Contract!CustomerWrites, Contract!Keep, Contract!CustomerMoves
    <3> QED BY <3>1, <3>2
  <2> QED BY <2>1 DEF Contract!Next
<1>4. CASE ReplyCommit(w)
  <2>1. row'.first_response_at # 0
    BY <1>1, <1>2, <1>4, SaveWrites DEF Inv, SnapshotsLag
  <2>2. Contract!AnalystReplies
    <3>1. CASE ChangedByAnalyst(row.status)
      BY <1>1, <1>2, <1>4, <2>1, <3>1, SaveWrites
         DEF ChangedByAnalyst, Contract!AnalystReplies, Contract!Take, Contract!AnalystMoves
    <3>2. CASE ~ChangedByAnalyst(row.status)
      BY <1>1, <1>2, <1>4, <2>1, <3>2, SaveWrites
         DEF ChangedByAnalyst, Contract!AnalystReplies, Contract!Keep, Contract!AnalystMoves
    <3> QED BY <3>1, <3>2
  <2> QED BY <2>2 DEF Contract!Next
<1>5. CASE ResolveSave(w) \/ AutoResolveSave(w)
  <2>1. row.status \in {"waiting_customer", "waiting_soc"}
    BY <1>1, <1>2, <1>5 DEF ResolveSave, AutoResolveSave, At, Admits, Resolvable
  <2>2. Contract!Resolve
    BY <1>1, <1>2, <1>5, <2>1, SaveWrites DEF Contract!Resolve, Contract!Take, Contract!ResolveMoves
  <2> QED BY <2>2 DEF Contract!Next
<1>6. CASE CloseSave(w) \/ AutoCloseSave(w)
  <2>1. row.status \in {"waiting_customer", "waiting_soc", "resolved"}
    BY <1>1, <1>2, <1>6 DEF CloseSave, AutoCloseSave, At, Admits, Closeable
  <2>2. Contract!Close
    BY <1>1, <1>2, <1>6, <2>1, SaveWrites DEF Contract!Close, Contract!Take, Contract!CloseMoves
  <2> QED BY <2>2 DEF Contract!Next
<1>7. CASE ReopenSave(w)
  <2>1. row.status \in {"resolved", "closed"}
    BY <1>2, <1>7 DEF ReopenSave, At, Admits, Reopenable
  <2>2. Contract!Reopen
    BY <1>1, <1>2, <1>7, <2>1, SaveWrites DEF Contract!Reopen, Contract!Take, Contract!ReopenMoves
  <2> QED BY <2>2 DEF Contract!Next
<1> QED BY <1>3, <1>4, <1>5, <1>6, <1>7 DEF SaveSteps

\* A save whose snapshot shows another status finds a row that has left
\* QUEUED, and writes only the columns of its operation.
LEMMA OvertakenSave ==
  ASSUME Inv, NEW w \in Workers, SaveSteps(w), req[w].seen.status # row.status
  PROVE  Contract!Overtaken
<1>1. /\ TypeOK /\ stale' = TRUE /\ req[w].now # 0
  BY SaveMoves DEF Decided, Inv, SnapshotsLag
<1>2. row.status # "queued"
  BY DEF Inv, SnapshotsLag
<1>3. CASE ReplyCommit(w)
  <2>1. row'.first_response_at # 0
    BY <1>1, <1>3, SaveWrites DEF Inv, SnapshotsLag
  <2> QED BY <1>1, <1>2, <1>3, <2>1, SaveWrites DEF Contract!Overtaken
<1>4. CASE SendSave(w) \/ ResolveSave(w) \/ AutoResolveSave(w)
  BY <1>1, <1>2, <1>4, SaveWrites DEF Contract!Overtaken
<1>5. CASE CloseSave(w) \/ AutoCloseSave(w) \/ ReopenSave(w)
  BY <1>1, <1>2, <1>5, SaveWrites DEF Contract!Overtaken
<1> QED BY <1>3, <1>4, <1>5 DEF SaveSteps

\* Every step of a worker is a save or leaves the row and the history alone,
\* and moves its request in one of the ways that keep it admitted.
LEMMA QuietOrSave ==
  ASSUME TypeOK, NEW w \in Workers,
         \/ Send(w) \/ Reply(w) \/ Resolve(w) \/ Close(w) \/ Reopen(w)
         \/ AutoResolve(w) \/ AutoClose(w) \/ Crash(w)
  PROVE  /\ Moves(w)
         /\ SaveSteps(w) \/ UNCHANGED <<row, stale, heard>>
         /\ UNCHANGED clock \/ \E op \in Ops, step \in Steps : Begin(w, op, step)
<1>0. row.status \in Statuses
  BY DEF TypeOK, Rows
<1> USE DEF Moves, Deciding, Begin, Ops, MessageKinds, Steps, history
<1>1. CASE Send(w)
  <2>1. CASE SendRead(w)
    BY <1>0, <2>1 DEF SendRead, Admits
  <2>2. CASE SendMessage(w)
    BY <2>2 DEF SendMessage, At
  <2>3. CASE SendRecord(w)
    BY <2>3 DEF SendRecord, Record
  <2> QED BY <1>1, <2>1, <2>2, <2>3, SaveMoves DEF Send, SaveSteps
<1>2. CASE Reply(w)
  <2>1. CASE ReplyRead(w)
    BY <1>0, <2>1 DEF ReplyRead, Admits
  <2> QED BY <1>2, <2>1, SaveMoves DEF Reply, SaveSteps
<1>3. CASE Resolve(w)
  <2>1. CASE ResolveRead(w)
    BY <2>1 DEF ResolveRead, Admits
  <2>2. CASE ResolveNote(w) \/ ResolveRecord(w)
    BY <2>2 DEF ResolveNote, ResolveRecord, Note, Record
  <2> QED BY <1>3, <2>1, <2>2, SaveMoves DEF Resolve, SaveSteps
<1>4. CASE Close(w)
  <2>1. CASE CloseRead(w)
    BY <2>1 DEF CloseRead, Admits
  <2>2. CASE CloseNote(w) \/ CloseRecord(w)
    BY <2>2 DEF CloseNote, CloseRecord, Note, Record
  <2> QED BY <1>4, <2>1, <2>2, SaveMoves DEF Close, SaveSteps
<1>5. CASE Reopen(w)
  <2>1. CASE ReopenRead(w)
    BY <2>1 DEF ReopenRead, Admits
  <2>2. CASE ReopenNote(w) \/ ReopenRecord(w)
    BY <2>2 DEF ReopenNote, ReopenRecord, Note, Record
  <2> QED BY <1>5, <2>1, <2>2, SaveMoves DEF Reopen, SaveSteps
<1>6. CASE AutoResolve(w)
  <2>1. CASE AutoResolveQuery(w)
    BY <2>1 DEF AutoResolveQuery, Admits
  <2>2. CASE AutoResolveCheck(w)
    BY <2>2 DEF AutoResolveCheck, At
  <2>3. CASE AutoResolveNote(w)
    BY <2>3 DEF AutoResolveNote, Note
  <2> QED BY <1>6, <2>1, <2>2, <2>3, SaveMoves DEF AutoResolve, SaveSteps
<1>7. CASE AutoClose(w)
  <2>1. CASE AutoCloseQuery(w)
    BY <2>1 DEF AutoCloseQuery, Admits
  <2>2. CASE AutoCloseNote(w)
    BY <2>2 DEF AutoCloseNote, Note
  <2> QED BY <1>7, <2>1, <2>2, SaveMoves DEF AutoClose, SaveSteps
<1>8. CASE Crash(w)
  BY <1>8 DEF Crash
<1> QED BY <1>1, <1>2, <1>3, <1>4, <1>5, <1>6, <1>7, <1>8

\* No save writes a status that no operation has.
LEMMA SavesKnownStatus ==
  ASSUME Inv, Admitted, NEW w \in Workers, SaveSteps(w)
  PROVE  row'.status \notin {"new", "assigned"}
BY SaveWrites DEF SaveSteps, Inv, Admitted

\* Every step keeps requests admitted and is a step of the contract, or
\* changes nothing the contract sees.
LEMMA AdmittedStep ==
  ASSUME Inv, Admitted, [Next]_vars
  PROVE  Admitted' /\ [Contract!Next]_(Contract!vars)
<1>0. TypeOK
  BY DEF Inv
<1>1. CASE UNCHANGED vars
  BY <1>1 DEF vars, Admitted, Contract!vars
<1>2. ASSUME NEW w \in Workers,
             \/ Send(w) \/ Reply(w) \/ Resolve(w) \/ Close(w) \/ Reopen(w)
             \/ AutoResolve(w) \/ AutoClose(w) \/ Crash(w)
      PROVE  Admitted' /\ [Contract!Next]_(Contract!vars)
  <2>1. Moves(w) /\ (SaveSteps(w) \/ UNCHANGED <<row, stale, heard>>)
    BY <1>0, <1>2, QuietOrSave
  <2>2. CASE SaveSteps(w)
    <3>1. Admitted'
      BY <1>0, <2>1, <2>2, SavesKnownStatus, MovesKeepAdmitted
    <3>2. Contract!Next
      BY <2>2, FreshSave, OvertakenSave DEF Contract!Next
    <3> QED BY <3>1, <3>2
  <2>3. CASE UNCHANGED <<row, stale, heard>>
    <3>1. Admitted'
      BY <1>0, <2>1, <2>3, MovesKeepAdmitted DEF Admitted
    <3> QED BY <2>3, <3>1 DEF Contract!vars
  <2> QED BY <2>1, <2>2, <2>3
<1> QED BY <1>1, <1>2 DEF Next

\* For any number of workers, and crashes between any two statements, the
\* lifecycle implements the contract.
THEOREM Refinement == Spec => ImplementsContract
<1>1. Init => Contract!Init /\ Admitted
  BY DEF Init, NewRow, NoRequest, Contract!Init, Admitted, Deciding
<1>2. Inv /\ Admitted /\ [Next]_vars => Admitted' /\ [Contract!Next]_(Contract!vars)
  BY AdmittedStep
<1> QED BY <1>1, <1>2, Invariance, PTL DEF Spec, ImplementsContract, Contract!Spec

-----------------------------------------------------------------------------
(***************************************************************************)
(* The time of the first response.  A reply that found no response began   *)
(* before one was stored, so its own time is not after that moment.        *)
(***************************************************************************)

Heard ==
  /\ heard = 0 <=> row.first_response_at = 0
  /\ row.first_response_at # 0 => row.first_response_at <= heard
  /\ \A w \in Workers :
       /\ req[w].now <= clock
       /\ req[w].seen.first_response_at = 0 /\ heard # 0 => req[w].now <= heard

\* A statement of a request keeps Heard, whatever it does to the row's other
\* columns.
LEMMA HeardStays ==
  ASSUME Inv, Heard, NEW w \in Workers, UNCHANGED heard,
         row'.first_response_at = row.first_response_at,
         \/ UNCHANGED clock /\ (Finish(w) \/ \E step \in Steps : Goto(w, step))
         \/ \E op \in Ops, step \in Steps : Begin(w, op, step)
  PROVE  Heard'
<1>1. TypeOK /\ clock \in Nat /\ heard \in Nat
  BY DEF Inv, TypeOK
<1>2. CASE \E op \in Ops, step \in Steps : Begin(w, op, step)
  <2>1. /\ clock' = clock + 1
        /\ \A v \in Workers : \/ req'[v] = req[v]
                              \/ req'[v].now = clock + 1 /\ req'[v].seen = row
    BY <1>1, <1>2 DEF Begin, TypeOK
  <2>2. \A v \in Workers : req[v].now \in Nat
    BY <1>1 DEF TypeOK, Requests, Times
  <2> QED BY <1>1, <2>1, <2>2 DEF Heard
<1>3. CASE UNCHANGED clock /\ (Finish(w) \/ \E step \in Steps : Goto(w, step))
  <2>1. \A v \in Workers : \/ req'[v].now = req[v].now /\ req'[v].seen = req[v].seen
                           \/ req'[v].now = 0
    BY <1>1, <1>3 DEF Finish, Goto, NoRequest, TypeOK, Requests
  <2> QED BY <1>1, <1>3, <2>1 DEF Heard
<1> QED BY <1>2, <1>3

\* The first reply stored stamps with its own time, which is not after the
\* moment it is stored; another that is stored later either saw a response,
\* and leaves the stamp alone, or had begun before that moment.
LEMMA ReplyIsHeard ==
  ASSUME Inv, Heard, NEW w \in Workers, ReplyCommit(w)
  PROVE  Heard'
<1>1. /\ TypeOK /\ clock \in Nat /\ heard \in Nat
      /\ req[w].now \in Nat \ {0} /\ req[w].now <= clock
  BY DEF Inv, TypeOK, Requests, Times, SnapshotsLag, ReplyCommit, At, Heard
<1>2. row'.first_response_at = IF req[w].seen.first_response_at = 0 THEN req[w].now
                               ELSE row.first_response_at
  BY <1>1, SaveWrites
<1>3. /\ clock' = clock
      /\ heard' = IF heard = 0 THEN clock ELSE heard
      /\ \A v \in Workers : req'[v] = req[v] \/ req'[v].now = 0
  BY <1>1 DEF ReplyCommit, Finish, NoRequest, TypeOK
<1>4. \A v \in Workers : req[v].now \in Nat
  BY <1>1 DEF TypeOK, Requests, Times
<1>5. CASE heard = 0
  <2>1. row.first_response_at = 0 /\ req[w].seen.first_response_at = 0
    BY <1>5 DEF Heard, Inv, SnapshotsLag
  <2> QED BY <1>1, <1>2, <1>3, <1>4, <1>5, <2>1 DEF Heard
<1>6. CASE heard # 0
  <2>1. row'.first_response_at # 0 /\ row'.first_response_at <= heard
    BY <1>1, <1>2, <1>6 DEF Heard
  <2> QED BY <1>1, <1>3, <1>4, <1>6, <2>1 DEF Heard
<1> QED BY <1>5, <1>6

\* Every step keeps Heard: only the transaction of a reply touches the stamp.
LEMMA HeardStep ==
  ASSUME Inv, Heard, [Next]_vars
  PROVE  Heard'
<1>0. TypeOK
  BY DEF Inv
<1>1. CASE UNCHANGED vars
  BY <1>1 DEF vars, Heard
<1>2. ASSUME NEW w \in Workers,
             \/ Send(w) \/ Reply(w) \/ Resolve(w) \/ Close(w) \/ Reopen(w)
             \/ AutoResolve(w) \/ AutoClose(w) \/ Crash(w)
      PROVE  Heard'
  <2>1. /\ SaveSteps(w) \/ UNCHANGED <<row, stale, heard>>
        /\ \/ UNCHANGED clock /\ (Finish(w) \/ \E step \in Steps : Goto(w, step))
           \/ \E op \in Ops, step \in Steps : Begin(w, op, step)
    BY <1>0, <1>2, QuietOrSave DEF Moves, Deciding, Steps
  <2>2. CASE ReplyCommit(w)
    BY <2>2, ReplyIsHeard
  <2>3. CASE SaveSteps(w) /\ ~ReplyCommit(w)
    <3>1. row'.first_response_at = row.first_response_at
      BY <1>0, <2>3, SaveWrites DEF SaveSteps
    <3>2. UNCHANGED heard
      BY <2>3 DEF SaveSteps, SendSave, ResolveSave, CloseSave, ReopenSave,
         AutoResolveSave, AutoCloseSave
    <3> QED BY <2>1, <3>1, <3>2, HeardStays
  <2>4. CASE UNCHANGED <<row, stale, heard>>
    BY <2>1, <2>4, HeardStays
  <2> QED BY <2>1, <2>2, <2>3, <2>4
<1> QED BY <1>1, <1>2 DEF Next

\* For any number of workers the first-response time is that of a reply that
\* was under way when the first one was stored.
THEOREM FirstResponseStays == Spec => []FirstResponseKept
<1>1. Init => Heard
  BY DEF Init, Heard, NewRow, NoRequest
<1>2. Inv /\ Heard /\ [Next]_vars => Heard'
  BY HeardStep
<1>3. Heard => FirstResponseKept
  BY DEF Heard, FirstResponseKept
<1> QED BY <1>1, <1>2, <1>3, Invariance, PTL DEF Spec

-----------------------------------------------------------------------------
\* Between the message of a customer and the save that follows it a
\* conversation may wait for that customer; at no other time, unless a
\* request was cut off there or the latest save was overtaken.
TurnInv ==
  crashes = 0 /\ newest = "customer" /\ row.status = "waiting_customer" /\ ~stale
    => \E w \in Workers : At(w, "send", "save")

\* The message opens the interval that its save closes: a save that sees the
\* row as it is takes WAITING_CUSTOMER back.
LEMMA TurnStep ==
  ASSUME Inv, TurnInv, Next
  PROVE  TurnInv'
<1> SUFFICES ASSUME (crashes = 0 /\ newest = "customer" /\ row.status = "waiting_customer"
                     /\ ~stale)'
             PROVE  (\E w \in Workers : At(w, "send", "save"))'
  BY DEF TurnInv
<1>1. PICK w \in Workers : \/ Send(w) \/ Reply(w) \/ Resolve(w) \/ Close(w) \/ Reopen(w)
                           \/ AutoResolve(w) \/ AutoClose(w) \/ Crash(w)
  BY DEF Next
<1>2. TypeOK /\ crashes \in Nat
  BY DEF Inv, TypeOK
<1>3. ~Crash(w) /\ crashes = 0
  BY <1>1, <1>2 DEF Crash, Send, SendRead, SendMessage, SendSave, SendRecord, Begin, Record, Note,
     Reply, ReplyRead, ReplyCommit, Resolve, ResolveRead, ResolveSave, ResolveNote, ResolveRecord,
     Close, CloseRead, CloseSave, CloseNote, CloseRecord,
     Reopen, ReopenRead, ReopenSave, ReopenNote, ReopenRecord,
     AutoResolve, AutoResolveQuery, AutoResolveCheck, AutoResolveSave, AutoResolveNote,
     AutoClose, AutoCloseQuery, AutoCloseSave, AutoCloseNote
<1>4. CASE SendMessage(w)
  BY <1>2, <1>4 DEF SendMessage, At, Goto, TypeOK, Requests
<1>5. ~ReplyCommit(w)
  BY DEF ReplyCommit
<1>6. CASE SaveSteps(w)
  <2>1. req[w].seen.status = row.status
    BY <1>6, SaveMoves DEF Decided
  <2>2. row'.status # "waiting_customer"
    BY <1>2, <1>5, <1>6, <2>1, SaveWrites DEF SaveSteps, ChangedByCustomer
  <2> QED BY <2>2
<1>7. CASE ~SendMessage(w) /\ ~SaveSteps(w)
  <2>1. newest = "customer"
    BY <1>1, <1>3, <1>7 DEF SaveSteps, Send, SendRead, SendRecord, Begin, Record, Note,
       Reply, ReplyRead, Resolve, ResolveRead, ResolveNote, ResolveRecord,
       Close, CloseRead, CloseNote, CloseRecord,
       Reopen, ReopenRead, ReopenNote, ReopenRecord,
       AutoResolve, AutoResolveQuery, AutoResolveCheck, AutoResolveNote,
       AutoClose, AutoCloseQuery, AutoCloseNote
  <2>2. UNCHANGED <<row, stale>>
    BY <1>1, <1>2, <1>7, QuietOrSave
  <2>3. PICK v \in Workers : At(v, "send", "save")
    BY <1>3, <2>1, <2>2 DEF TurnInv
  <2>4. v # w
    BY <1>1, <1>3, <1>7, <2>3 DEF At, SaveSteps, Send, SendRead, SendRecord, Begin, Record, Note,
       Reply, ReplyRead, Resolve, ResolveRead, ResolveNote, ResolveRecord,
       Close, CloseRead, CloseNote, CloseRecord,
       Reopen, ReopenRead, ReopenNote, ReopenRecord,
       AutoResolve, AutoResolveQuery, AutoResolveCheck, AutoResolveNote,
       AutoClose, AutoCloseQuery, AutoCloseNote
  <2>5. req'[v] = req[v]
    BY <1>1, <1>2, <2>4, QuietOrSave DEF Moves, Finish, Goto, Begin, TypeOK
  <2> QED BY <2>3, <2>5 DEF At
<1> QED BY <1>4, <1>6, <1>7

\* For any number of workers: with no request under way or cut off, and the
\* latest save not overtaken, a conversation whose newest message is the
\* customer's does not wait for the customer.
THEOREM TurnRight == Spec => []TurnIsRight
<1>1. Init => TurnInv
  BY DEF Init, TurnInv, NewRow
<1>2. Inv /\ TurnInv /\ [Next]_vars => TurnInv'
  <2>1. TurnInv /\ UNCHANGED vars => TurnInv'
    BY DEF TurnInv, vars, At
  <2> QED BY <2>1, TurnStep
<1>3. TurnInv => TurnIsRight
  BY DEF TurnInv, TurnIsRight, At
<1> QED BY <1>1, <1>2, <1>3, Invariance, PTL DEF Spec

=============================================================================
